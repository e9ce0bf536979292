----------------------- MODULE E2RoutingRequestProofs -----------------------
(* Proof that answers and indications reach xApps that expect them.  A       *)
(* request is a token that travels from its xApp to a node and back.         *)
EXTENDS E2RoutingProofs

-----------------------------------------------------------------------------
(* The inductive invariant *)

AnswerTypes == E2Answers \ {"IND"}

\* The request id that is being inserted is taken: the counter wrapped.  The
\* assert of add_map_ric_id fails next, and until then the mutex keeps the RIC
\* thread from looking the id up.
Clash == \E e \in mapRicId, d \in InFlight : e.rid = d.rid

\* x is connected and uses the id it was told.
Registered(x) == xst[x] \notin {"off", "connecting"} /\ [xid |-> xid[x], x |-> x] \in xsad

Known(i) == \E x \in XApps : Registered(x) /\ xid[x] = i

\* At node n request id rid stands for request h of x, and for no other.
NamesAt(x, h, n, rid) ==
    /\ ~Clash /\ Registered(x)
    /\ \E e \in mapRicId \cup InFlight :
         e.rid = rid /\ e.node = n /\ e.xid = xid[x] /\ e.h = h

\* The message that the RIC thread handles is for request h of x.
RicFor(x, h) ==
    \/ rpc = "lookup" /\ NamesAt(x, h, rmsg.node, rmsg.rid)
    \/ rpc = "notify" /\ Registered(x) /\ rto.xid = xid[x] /\ rto.h = h

\* The request that the iApp thread holds, or m asks for, is request h of x for n.
AsksFor(m, x, t, h, n) ==
    Registered(x) /\ AnswerTo(m.type) = t /\ m.xid = xid[x] /\ m.h = h /\ m.node = n

\* A message of type t, or a request to be answered by one, about request h of
\* x at node n is at position i of stage s.  A smaller stage is nearer to the
\* xApp; in stage 3 an indication is still to be sent by the node.
MsgAt(x, t, h, s, n, i) ==
    \/ /\ s = 0 /\ i \in DOMAIN xIn[x]
       /\ xIn[x][i].type = t /\ xIn[x][i].h = h /\ xIn[x][i].node = n
    \/ s = 1 /\ i = 0 /\ RicFor(x, h) /\ rmsg.type = t /\ rmsg.node = n
    \/ /\ s = 2 /\ i \in DOMAIN ricIn /\ ricIn[i].type = t /\ ricIn[i].node = n
       /\ NamesAt(x, h, n, ricIn[i].rid)
    \/ s = 3 /\ i = 0 /\ t = "IND" /\ \E q \in agSubs[n] : NamesAt(x, h, n, q.rid)
    \/ /\ s = 4 /\ i \in DOMAIN agIn[n] /\ agIn[n][i].type # "SETUP_RESP"
       /\ AnswerTo(agIn[n][i].type) = t /\ NamesAt(x, h, n, agIn[n][i].rid)
    \/ /\ s = 5 /\ i = 0 /\ ipc = "send" /\ AnswerTo(imsg.type) = t /\ imsg.node = n
       /\ NamesAt(x, h, n, irid)
    \/ s = 6 /\ i = 0 /\ ipc \in {"lock", "timer", "del_timer"} /\ AsksFor(imsg, x, t, h, n)
    \/ /\ s = 7 /\ i \in DOMAIN iappIn /\ iappIn[i].type # "E42_SETUP_REQ"
       /\ AsksFor(iappIn[i], x, t, h, n)

Ahead(s, i, s2, i2) == s < s2 \/ (s = s2 /\ i < i2)

\* map_ric_id holds request h of x.
Mapped(x, h) ==
    \E e \in mapRicId : e.xid = xid[x] /\ e.h = h /\ e.rf = issued[x][h].rf

\* Requests come from xApps that are connected, and have one mapping each.
OwnersInv ==
    /\ \A m \in Range(iappIn) :
         IF m.type = "E42_SETUP_REQ" THEN xst[m.x] # "off" ELSE Known(m.xid)
    /\ ipc \in {"reg_xapp", "send_setup"} => xst[imsg.x] # "off"
    /\ ipc \in {"lock", "timer", "send", "add_map", "del_timer"} => Known(imsg.xid)
    /\ \A r \in xsad : xst[r.x] # "off"
    /\ \A e \in mapRicId : Known(e.xid)
    /\ rpc = "notify" => rto \in mapRicId
    /\ \A e1, e2 \in mapRicId \cup InFlight : e1.xid = e2.xid /\ e1.h = e2.h => e1 = e2
    /\ ipc = "del_timer" \/ (ipc = "send" /\ imsg.type = "DEL_REQ") =>
         \E e \in mapRicId : e.rid = irid /\ e.node = imsg.node /\ e.xid = imsg.xid
                             /\ e.h = imsg.h

\* An operation is open exactly while its caller waits, or has died; the
\* procedure of an xApp is being asked for or mapped.
WaitsInv ==
    \A x \in XApps :
        /\ xst[x] \in {"off", "aborted"} => xIn[x] = <<>>
        /\ xst[x] \notin {"off", "connecting"} => Registered(x)
        /\ xst[x] = "waiting" => xop[x] # NoOp
        /\ xop[x] # NoOp => xst[x] \in {"waiting", "aborted"} /\ xop[x].h \in active[x]
        /\ \A h \in active[x] :
             xop[x] \in {[ans |-> "SUB_RESP", h |-> h], [ans |-> "CTRL_ACK", h |-> h]}
             \/ Mapped(x, h)

\* A request of x has at most one token.
Unique(x) ==
    \A t \in AnswerTypes, h \in Nat, s, s2 \in 0 .. 7, n, n2 \in Nodes, i, i2 \in Nat :
        MsgAt(x, t, h, s, n, i) /\ MsgAt(x, t, h, s2, n2, i2) => s2 = s /\ n2 = n /\ i2 = i

\* Only the operation that an xApp waits for has a token.
OneTokenInv ==
    \A x \in XApps :
        /\ Unique(x)
        /\ \A t \in AnswerTypes, h \in Nat, s \in 0 .. 7, n \in Nodes, i \in Nat :
             MsgAt(x, t, h, s, n, i) => xop[x] = [ans |-> t, h |-> h]

\* A request is mapped after it was armed and before it is answered.
MappingInv ==
    \A x \in XApps, t \in AnswerTypes, h \in Nat, s \in 0 .. 7, n \in Nodes, i \in Nat :
        MsgAt(x, t, h, s, n, i) =>
        /\ s = 0 \/ (s = 1 /\ rpc = "notify") => Mapped(x, h)
        /\ s \in {6, 7} /\ t # "DEL_RESP" =>
             ~\E e \in mapRicId \cup InFlight : e.xid = xid[x] /\ e.h = h

\* Indications follow the response to the subscription and precede that to
\* its deletion, as long as the xApp lives.
IndsInv ==
    \A x \in XApps, h \in Nat, s \in 0 .. 3, n \in Nodes, i \in Nat :
        MsgAt(x, "IND", h, s, n, i) /\ xst[x] # "aborted" =>
        /\ h \in active[x] /\ xop[x] # [ans |-> "CTRL_ACK", h |-> h]
        /\ xop[x] = [ans |-> "SUB_RESP", h |-> h] =>
             \E s2 \in 0 .. 2, n2 \in Nodes, i2 \in Nat :
                MsgAt(x, "SUB_RESP", h, s2, n2, i2) /\ Ahead(s2, i2, s, i)
        /\ xop[x] = [ans |-> "DEL_RESP", h |-> h] =>
             \A s2 \in 0 .. 7, n2 \in Nodes, i2 \in Nat :
                MsgAt(x, "DEL_RESP", h, s2, n2, i2) => ~Ahead(s2, i2, s, i)

-----------------------------------------------------------------------------
(* Request ids and the requests they stand for *)

AliveStates == {"idle", "waiting", "aborted"}

\* Whoever is connected stays so, under the same id.
LEMMA RegisteredGrows ==
    ASSUME TypeOK, [Next]_vars, NEW x \in XApps
    PROVE  /\ Registered(x) => Registered(x)' /\ xid'[x] = xid[x]
           /\ xst[x] # "off" => xst'[x] # "off"
<1>t. /\ xst \in [XApps -> {"off", "connecting", "idle", "waiting", "aborted"}]
      /\ xid \in [XApps -> Nat]
    BY DEF TypeOK, TypeXApps
<1>g. xsad \subseteq xsad'
    BY Grows DEF Grow
<1>u. ASSUME xst'[x] = xst[x], xid'[x] = xid[x]
      PROVE  /\ Registered(x) => Registered(x)' /\ xid'[x] = xid[x]
             /\ xst[x] # "off" => xst'[x] # "off"
    BY <1>g, <1>u DEF Registered
<1>w. ASSUME xst'[x] \in AliveStates, xid'[x] = xid[x]
      PROVE  /\ Registered(x) => Registered(x)' /\ xid'[x] = xid[x]
             /\ xst[x] # "off" => xst'[x] # "off"
    BY <1>g, <1>w DEF Registered, AliveStates
<1>1. CASE RicThread \/ RicTimeout
    BY <1>1, <1>u, RicFrames DEF RicFrame
<1>2. CASE IAppThread
    BY <1>2, <1>u, IAppFrames DEF IAppFrame
<1>3. ASSUME NEW n \in Nodes, AgentStep(n) PROVE UNCHANGED <<xst, xid>>
    BY <1>3, AgFrames DEF AgFrame, xVars
<1>4. ASSUME NEW y \in XApps, XAppStep(y)
      PROVE  /\ Registered(x) => Registered(x)' /\ xid'[x] = xid[x]
             /\ xst[x] # "off" => xst'[x] # "off"
  <2>1. CASE XAppStart(y)
    BY <1>g, <1>t, <2>1 DEF XAppStart, Registered
  <2>2. CASE XAppAbort(y)
    <3>1. xid' = xid /\ (xst'[x] = xst[x] \/ xst'[x] = "aborted")
      BY <1>t, <2>2 DEF XAppAbort
    <3>. QED
      BY <1>u, <1>w, <3>1 DEF AliveStates
  <2>3. CASE XAppSetupResponse(y) /\ ~XAppAbort(y)
    <3>1. /\ xst[y] = "connecting" /\ xst' = [xst EXCEPT ![y] = "idle"]
          /\ \A z \in XApps \ {y} : xid'[z] = xid[z]
      BY <1>t, <2>3 DEF XAppSetupResponse
    <3>. QED
      BY <1>g, <1>t, <3>1 DEF Registered
  <2>4. CASE XAppAnswer(y) /\ ~XAppAbort(y)
    <3>1. xid' = xid /\ (xst'[x] = xst[x] \/ xst'[x] = "idle")
      BY <1>t, <2>4 DEF XAppAnswer
    <3>. QED
      BY <1>u, <1>w, <3>1 DEF AliveStates
  <2>5. CASE XAppResendSetup(y) \/ XAppIndication(y)
    BY <1>u, <2>5 DEF XAppResendSetup, XAppIndication
  <2>6. CASE XAppUnsubscribe(y) \/ XAppRequests(y)
    <3>1. xid' = xid /\ (xst'[x] = xst[x] \/ xst'[x] = "waiting")
      BY <1>t, <2>6 DEF XAppUnsubscribe, XAppRequests, XAppRequest
    <3>. QED
      BY <1>u, <1>w, <3>1 DEF AliveStates
  <2>. QED
    BY <1>4, <2>1, <2>2, <2>3, <2>4, <2>5, <2>6
    DEF XAppStep, XAppLoop, XAppTimeout, XAppSetupResponse, XAppAnswer
<1>5. CASE UNCHANGED vars
    BY <1>5, <1>u DEF vars, xVars
<1>. QED
    BY <1>1, <1>2, <1>3, <1>4, <1>5, <1>u DEF Next, AgentStep, XAppStep, XAppRequests

\* An id that an xApp uses stays in use.
LEMMA KnownGrows ==
    ASSUME TypeOK, [Next]_vars
    PROVE  \A i : Known(i) => Known(i)'
    BY RegisteredGrows DEF Known

\* The mappings and the one in flight: only fwd_ric_*_request changes them.
LEMMA EntriesKept ==
    ASSUME TypeOK, [Next]_vars, ~IAppStartTimer
    PROVE  Entries' = Entries /\ (Clash' <=> Clash)
<1>u. ASSUME UNCHANGED <<mapRicId, iappVars>> PROVE Entries' = Entries /\ (Clash' <=> Clash)
    BY <1>u DEF Entries, Clash, InFlight, iappVars
<1>k. ASSUME mapRicId' = mapRicId, InFlight' = InFlight
      PROVE  Entries' = Entries /\ (Clash' <=> Clash)
    BY <1>k DEF Entries, Clash
<1>a. ASSUME NEW why, Abort(why) PROVE Entries' = Entries /\ (Clash' <=> Clash)
    BY <1>a, <1>u DEF Abort, shared
<1>1. CASE RicThread \/ RicTimeout
    BY <1>1, <1>u, RicFrames DEF RicFrame
<1>2. CASE IAppThread
  <2>0. CASE \E why : Abort(why)
    BY <1>a, <2>0
  <2>1. CASE (IAppSetupRequest \/ IAppRegXApp \/ IAppSetupResponse) /\ ~\E why : Abort(why)
    <3>1. /\ mapRicId' = mapRicId /\ ipc \in {"idle", "reg_xapp", "send_setup"}
          /\ ipc' \in {"idle", "reg_xapp", "send_setup"}
      BY <2>1 DEF IAppSetupRequest, IAppRegXApp, IAppSetupResponse, IAppReceives, shared
    <3>. QED
      BY <1>k, <3>1 DEF InFlight
  <2>2. CASE (IAppRequest \/ IAppLock \/ IAppDelete) /\ ~\E why : Abort(why)
    <3>1. mapRicId' = mapRicId /\ ipc \in {"idle", "lock"} /\ ipc' \in {"lock", "timer", "del_timer"}
      BY <2>2 DEF IAppRequest, IAppLock, IAppDelete, IAppReceives, shared
    <3>. QED
      BY <1>k, <3>1 DEF InFlight
  <2>3. CASE IAppDeleteTimer
    <3>1. imsg.type = "DEL_REQ" /\ imsg' = imsg
      BY <2>3 DEF IAppDeleteTimer, TypeOK, TypeIApp
    <3>. QED
      BY <1>k, <2>3, <3>1 DEF IAppDeleteTimer, InFlight
  <2>4. CASE IAppForward /\ ~\E why : Abort(why)
    BY <1>k, <2>4 DEF IAppForward, InFlight, shared
  <2>5. CASE IAppAddMap /\ ~\E why : Abort(why)
    <3>1. imsg.type \in {"SUB_REQ", "CTRL_REQ"} /\ ipc = "add_map"
      BY <2>5 DEF IAppAddMap, TypeOK, TypeIApp
    <3>2. mapRicId' = mapRicId \cup InFlight /\ InFlight' = {}
      BY <2>5, <3>1 DEF IAppAddMap, InFlight
    <3>3. ~\E e \in mapRicId : e.rid = irid
      BY <2>5 DEF IAppAddMap
    <3>4. \A d \in InFlight : d.rid = irid
      BY DEF InFlight
    <3>. QED
      BY <3>2, <3>3, <3>4 DEF Entries, Clash
  <2>. QED
    BY <1>2, <2>0, <2>1, <2>2, <2>3, <2>4, <2>5 DEF IAppThread
<1>3. ASSUME NEW n \in Nodes, AgentStep(n) PROVE UNCHANGED <<mapRicId, iappVars>>
    BY <1>3, AgFrames DEF AgFrame, shared
<1>4. ASSUME NEW y \in XApps, XAppStep(y) PROVE UNCHANGED <<mapRicId, iappVars>>
    BY <1>4, XFrames DEF XFrame, shared
<1>5. CASE UNCHANGED vars
    BY <1>5, <1>u DEF vars, shared
<1>. QED
    BY <1>1, <1>2, <1>3, <1>4, <1>5, <1>u DEF Next, AgentStep, XAppStep, XAppRequests

\* An id in use names the same xApp before and after a step.
LEMMA OwnerKept ==
    ASSUME TypeOK, RoutingInv, [Next]_vars, NEW x \in XApps, NEW i, Known(i)
    PROVE  Registered(x)' /\ xid'[x] = i <=> Registered(x) /\ xid[x] = i
<1>1. PICK z \in XApps : Registered(z) /\ xid[z] = i
    BY DEF Known
<1>2. Registered(z)' /\ xid'[z] = i
    BY <1>1, RegisteredGrows
<1>3. XAppIdsInv'
    BY XAppIdsStep
<1>4. ASSUME Registered(x)', xid'[x] = i PROVE x = z
  <2>1. [xid |-> i, x |-> x] \in xsad' /\ [xid |-> i, x |-> z] \in xsad'
    BY <1>2, <1>4 DEF Registered
  <2>2. [xid |-> i, x |-> x] = [xid |-> i, x |-> z]
    BY <1>3, <2>1 DEF XAppIdsInv
  <2>. QED
    BY <2>2
<1>. QED
    BY <1>1, <1>4, RegisteredGrows

\* Every mapping belongs to an xApp that is connected.
LEMMA EntriesKnown ==
    ASSUME TypeOK, OwnersInv
    PROVE  \A e \in Entries : Known(e.xid)
    BY DEF OwnersInv, Entries, InFlight

\* Request ids keep their meaning, save that fwd_ric_*_request adds one.
LEMMA NamesKept ==
    ASSUME TypeOK, RoutingInv, OwnersInv, [Next]_vars, ~IAppStartTimer
    PROVE  \A x \in XApps : \A h, n, rid : NamesAt(x, h, n, rid)' <=> NamesAt(x, h, n, rid)
<1>. SUFFICES ASSUME NEW x \in XApps, NEW h, NEW n, NEW rid
              PROVE  NamesAt(x, h, n, rid)' <=> NamesAt(x, h, n, rid)
    OBVIOUS
<1>1. Entries' = Entries /\ (Clash' <=> Clash)
    BY EntriesKept
<1>2. \A e \in Entries : Registered(x)' /\ xid'[x] = e.xid <=> Registered(x) /\ xid[x] = e.xid
    BY EntriesKnown, OwnerKept
<1>. QED
    BY <1>1, <1>2 DEF NamesAt, Entries

\* While no id is taken twice, a request id stands for one request, and a
\* request has one id.
LEMMA NamesUnique ==
    ASSUME TypeOK, RoutingInv, OwnersInv, NEW x \in XApps, NEW y \in XApps,
           NEW h, NEW n, NEW rid, NEW h2, NEW n2, NEW rid2,
           NamesAt(x, h, n, rid), NamesAt(y, h2, n2, rid2)
    PROVE  /\ rid = rid2 => x = y /\ h = h2 /\ n = n2
           /\ x = y /\ h = h2 => rid = rid2 /\ n = n2
<1>1. PICK e \in Entries : e.rid = rid /\ e.node = n /\ e.xid = xid[x] /\ e.h = h
    BY DEF NamesAt, Entries
<1>2. PICK d \in Entries : d.rid = rid2 /\ d.node = n2 /\ d.xid = xid[y] /\ d.h = h2
    BY DEF NamesAt, Entries
<1>3. ASSUME rid = rid2 PROVE e = d
  <2>1. ~Clash
    BY DEF NamesAt
  <2>2. \A a, b \in mapRicId : a.rid = b.rid => a = b
    BY DEF RoutingInv, MutexInv
  <2>3. \A a, b \in InFlight : a = b
    BY DEF InFlight
  <2>. QED
    BY <1>1, <1>2, <1>3, <2>1, <2>2, <2>3 DEF Clash, Entries
<1>4. ASSUME xid[x] = xid[y] PROVE x = y
  <2>1. [xid |-> xid[x], x |-> x] \in xsad /\ [xid |-> xid[x], x |-> y] \in xsad
    BY <1>4 DEF NamesAt, Registered
  <2>2. [xid |-> xid[x], x |-> x] = [xid |-> xid[x], x |-> y]
    BY <2>1 DEF RoutingInv, XAppIdsInv
  <2>. QED
    BY <2>2
<1>5. ASSUME x = y, h = h2 PROVE e = d
    BY <1>1, <1>2, <1>5 DEF OwnersInv, Entries
<1>. QED
    BY <1>1, <1>2, <1>3, <1>4, <1>5

\* Two connected xApps have different ids.
LEMMA IdsDiffer ==
    ASSUME RoutingInv, NEW x \in XApps, NEW y \in XApps, Registered(x), Registered(y),
           xid[x] = xid[y]
    PROVE  x = y
<1>1. [xid |-> xid[x], x |-> x] \in xsad /\ [xid |-> xid[x], x |-> y] \in xsad
    BY DEF Registered
<1>2. [xid |-> xid[x], x |-> x] = [xid |-> xid[x], x |-> y]
    BY <1>1 DEF RoutingInv, XAppIdsInv
<1>. QED
    BY <1>2

\* What fwd_ric_*_request adds to the meaning of the request ids.
LEMMA NamesAdded ==
    ASSUME TypeOK, RoutingInv, OwnersInv, [Next]_vars, IAppStartTimer
    PROVE  \A x \in XApps : \A h, n, rid : NamesAt(x, h, n, rid)' =>
             \/ NamesAt(x, h, n, rid) /\ rid # irid'
             \/ /\ rid = irid' /\ n = imsg.node /\ h = imsg.h
                /\ Registered(x) /\ xid[x] = imsg.xid
<1>. SUFFICES ASSUME NEW x \in XApps, NEW h, NEW n, NEW rid, NamesAt(x, h, n, rid)'
              PROVE  \/ NamesAt(x, h, n, rid) /\ rid # irid'
                     \/ /\ rid = irid' /\ n = imsg.node /\ h = imsg.h
                        /\ Registered(x) /\ xid[x] = imsg.xid
    OBVIOUS
<1>. DEFINE d == [rid |-> irid', node |-> imsg.node, xid |-> imsg.xid, h |-> imsg.h,
                  rf |-> imsg.rf]
<1>1. /\ ipc = "timer" /\ ipc' = "send" /\ imsg' = imsg /\ mapRicId' = mapRicId
      /\ imsg.type \in {"SUB_REQ", "CTRL_REQ"}
    BY DEF IAppStartTimer, TypeOK, TypeIApp
<1>2. InFlight = {} /\ InFlight' = {d}
    BY <1>1 DEF InFlight
<1>3. ~Clash /\ ~Clash'
    BY <1>2 DEF Clash, NamesAt
<1>4. PICK e \in mapRicId \cup {d} : e.rid = rid /\ e.node = n /\ e.xid = xid'[x] /\ e.h = h
    BY <1>1, <1>2 DEF NamesAt
<1>5. xst' = xst /\ xid' = xid /\ xsad' = xsad
    BY DEF IAppStartTimer, xVars
<1>6. Registered(x)
    BY <1>5 DEF NamesAt, Registered
<1>7. CASE e = d
    BY <1>4, <1>5, <1>6, <1>7
<1>8. CASE e \in mapRicId
  <2>1. e.rid # irid'
    BY <1>1, <1>2, <1>3, <1>8 DEF Clash
  <2>2. NamesAt(x, h, n, rid)
    BY <1>3, <1>4, <1>5, <1>6, <1>8 DEF NamesAt
  <2>. QED
    BY <1>4, <2>1, <2>2
<1>. QED
    BY <1>4, <1>7, <1>8

-----------------------------------------------------------------------------
(* How messages move *)

\* What an id that is in use says about x is the same after a step.
LEMMA OwnersKept ==
    ASSUME TypeOK, RoutingInv, [Next]_vars, NEW x \in XApps
    PROVE  \A i : Known(i) => (Registered(x)' /\ i = xid'[x] <=> Registered(x) /\ i = xid[x])
    BY OwnerKept

\* A stage whose variables a step leaves alone holds the same messages after it.
LEMMA StageKept ==
    ASSUME TypeOK, RoutingInv, OwnersInv, [Next]_vars, ~IAppStartTimer,
           NEW x \in XApps, NEW t, NEW h, NEW n \in Nodes, NEW i
    PROVE  /\ xIn'[x] = xIn[x] => (MsgAt(x, t, h, 0, n, i)' <=> MsgAt(x, t, h, 0, n, i))
           /\ UNCHANGED ricVars => (MsgAt(x, t, h, 1, n, i)' <=> MsgAt(x, t, h, 1, n, i))
           /\ UNCHANGED ricIn => (MsgAt(x, t, h, 2, n, i)' <=> MsgAt(x, t, h, 2, n, i))
           /\ agSubs'[n] = agSubs[n] => (MsgAt(x, t, h, 3, n, i)' <=> MsgAt(x, t, h, 3, n, i))
           /\ agIn'[n] = agIn[n] => (MsgAt(x, t, h, 4, n, i)' <=> MsgAt(x, t, h, 4, n, i))
           /\ UNCHANGED iappVars => (MsgAt(x, t, h, 5, n, i)' <=> MsgAt(x, t, h, 5, n, i))
           /\ UNCHANGED iappVars => (MsgAt(x, t, h, 6, n, i)' <=> MsgAt(x, t, h, 6, n, i))
           /\ UNCHANGED iappIn => (MsgAt(x, t, h, 7, n, i)' <=> MsgAt(x, t, h, 7, n, i))
<1>n. \A g, m, rid : NamesAt(x, g, m, rid)' <=> NamesAt(x, g, m, rid)
    BY NamesKept
<1>o. \A k : Known(k) => (Registered(x)' /\ k = xid'[x] <=> Registered(x) /\ k = xid[x])
    BY OwnersKept
<1>0. xIn'[x] = xIn[x] => (MsgAt(x, t, h, 0, n, i)' <=> MsgAt(x, t, h, 0, n, i))
    BY DEF MsgAt
<1>1. UNCHANGED ricVars => (MsgAt(x, t, h, 1, n, i)' <=> MsgAt(x, t, h, 1, n, i))
  <2>. SUFFICES ASSUME UNCHANGED ricVars
                PROVE  MsgAt(x, t, h, 1, n, i)' <=> MsgAt(x, t, h, 1, n, i)
    OBVIOUS
  <2>1. rpc = "notify" => Known(rto.xid)
    BY DEF OwnersInv
  <2>2. RicFor(x, h)' <=> RicFor(x, h)
    <3>1. rpc' = rpc /\ rmsg' = rmsg /\ rto' = rto
      BY DEF ricVars
    <3>2. NamesAt(x, h, rmsg.node, rmsg.rid)' <=> NamesAt(x, h, rmsg'.node, rmsg'.rid)
      BY <1>n, <3>1 DEF NamesAt, Registered, Clash, InFlight
    <3>3. CASE rpc = "notify"
      BY <1>o, <2>1, <3>1, <3>3 DEF RicFor
    <3>4. CASE rpc # "notify"
      BY <3>1, <3>2, <3>4 DEF RicFor
    <3>. QED
      BY <3>3, <3>4
  <2>. QED
    BY <2>2 DEF MsgAt, ricVars
<1>2. UNCHANGED ricIn => (MsgAt(x, t, h, 2, n, i)' <=> MsgAt(x, t, h, 2, n, i))
    BY <1>n DEF MsgAt
<1>3. agSubs'[n] = agSubs[n] => (MsgAt(x, t, h, 3, n, i)' <=> MsgAt(x, t, h, 3, n, i))
    BY <1>n DEF MsgAt
<1>4. agIn'[n] = agIn[n] => (MsgAt(x, t, h, 4, n, i)' <=> MsgAt(x, t, h, 4, n, i))
    BY <1>n DEF MsgAt
<1>5. UNCHANGED iappVars => (MsgAt(x, t, h, 5, n, i)' <=> MsgAt(x, t, h, 5, n, i))
    BY <1>n DEF MsgAt, iappVars
<1>6. UNCHANGED iappVars => (MsgAt(x, t, h, 6, n, i)' <=> MsgAt(x, t, h, 6, n, i))
  <2>1. ipc \in {"lock", "timer", "del_timer"} => Known(imsg.xid)
    BY DEF OwnersInv
  <2>. QED
    BY <1>o, <2>1 DEF MsgAt, AsksFor, iappVars
<1>7. UNCHANGED iappIn => (MsgAt(x, t, h, 7, n, i)' <=> MsgAt(x, t, h, 7, n, i))
  <2>1. \A k \in DOMAIN iappIn : iappIn[k].type # "E42_SETUP_REQ" => Known(iappIn[k].xid)
    BY DEF OwnersInv, Range
  <2>. QED
    BY <1>o, <2>1 DEF MsgAt, AsksFor
<1>. QED
    BY <1>0, <1>1, <1>2, <1>3, <1>4, <1>5, <1>6, <1>7

-----------------------------------------------------------------------------
(* Requests have owners *)

Sender(m) == IF m.type = "E42_SETUP_REQ" THEN xst[m.x] # "off" ELSE Known(m.xid)
Handling == {"lock", "timer", "send", "add_map", "del_timer"}

\* OwnersInv, but for what it says about mappings.
SendersInv ==
    /\ \A m \in Range(iappIn) : Sender(m)
    /\ ipc \in {"reg_xapp", "send_setup"} => xst[imsg.x] # "off"
    /\ ipc \in Handling => Known(imsg.xid)
    /\ \A r \in xsad : xst[r.x] # "off"

LEMMA SendersStep ==
    ASSUME TypeOK, RoutingInv, OwnersInv, WaitsInv, [Next]_vars
    PROVE  SendersInv'
<1>. DEFINE SenderN(m) == IF m.type = "E42_SETUP_REQ" THEN xst'[m.x] # "off"
                          ELSE \E k : k = m.xid /\ Known(k)'
<1>k. \A i : Known(i) => Known(i)'
    BY KnownGrows
<1>x. \A x \in XApps : xst[x] # "off" => xst'[x] # "off"
    BY RegisteredGrows
<1>v. ASSUME \A m \in Range(iappIn') : SenderN(m),
             ipc' \in {"reg_xapp", "send_setup"} => xst'[imsg'.x] # "off",
             ipc' \in Handling => \E k : k = imsg'.xid /\ Known(k)',
             \A r \in xsad' : xst'[r.x] # "off"
      PROVE  SendersInv'
    BY <1>v DEF SendersInv, Sender, Known
<1>q. \A m \in Range(iappIn) : SenderN(m)
  <2>. SUFFICES ASSUME NEW m \in Range(iappIn) PROVE SenderN(m)
    OBVIOUS
  <2>1. m \in ToIApp
    BY DEF Range, TypeOK, TypeSockets
  <2>2. m.type = "E42_SETUP_REQ" => m.x \in XApps
    BY <2>1 DEF ToIApp
  <2>. QED
    BY <1>k, <1>x, <2>2 DEF OwnersInv
<1>r. \A r \in xsad : xst'[r.x] # "off"
    BY <1>x DEF OwnersInv, TypeOK, TypeShared, XAppRegs
<1>m. /\ ipc \in Handling => \E k : k = imsg.xid /\ Known(k)'
      /\ ipc \in {"reg_xapp", "send_setup"} => xst'[imsg.x] # "off"
  <2>1. ipc \in {"reg_xapp", "send_setup"} => imsg.x \in XApps
    BY DEF TypeOK, TypeIApp, SetupReplies
  <2>. QED
    BY <1>k, <1>x, <2>1 DEF OwnersInv, Handling
<1>. HIDE DEF SenderN
<1>u. ASSUME UNCHANGED <<iappIn, iappVars, xsad>> PROVE SendersInv'
    BY <1>q, <1>m, <1>r, <1>u, <1>v DEF iappVars
<1>1. CASE RicThread \/ RicTimeout
    BY <1>1, <1>u, RicFrames DEF RicFrame, iappSock
<1>2. CASE IAppThread
  <2>a. ASSUME NEW why, Abort(why) PROVE SendersInv'
    BY <1>u, <2>a DEF Abort, iappSock, shared
  <2>c. iappIn # <<>> /\ IAppConsume => \A m \in Range(iappIn') : SenderN(m)
    BY <1>q, ReceiveRange
  <2>h. iappIn # <<>> => SenderN(Head(iappIn))
    BY <1>q, ReceiveRange
  <2>1. CASE IAppSetupRequest
    BY <2>1, <2>c, <2>h, <1>v, <1>r DEF IAppSetupRequest, IAppReceives, SenderN, Handling
  <2>2. CASE IAppRegXApp
    <3>1. SUFFICES ASSUME ~\E why : Abort(why) PROVE SendersInv'
      BY <2>a
    <3>2. /\ xsad' = xsad \cup {[xid |-> imsg.xid, x |-> imsg.x]} /\ ipc = "reg_xapp"
          /\ ipc' = "send_setup" /\ imsg' = imsg /\ iappIn' = iappIn
      BY <2>2, <3>1 DEF IAppRegXApp, iappSock
    <3>3. \A r \in xsad' : xst'[r.x] # "off"
      BY <1>m, <1>r, <3>2
    <3>. QED
      BY <1>q, <1>m, <1>v, <3>2, <3>3 DEF Handling
  <2>3. CASE IAppSetupResponse
    BY <1>q, <2>3, <1>v, <1>r DEF IAppSetupResponse, iappSock, shared, Handling
  <2>4. CASE IAppRequest
    <3>1. SUFFICES ASSUME ~\E why : Abort(why) PROVE SendersInv'
      BY <2>a
    <3>2. /\ iappIn # <<>> /\ IAppConsume /\ imsg' = Head(iappIn) /\ ipc' = "lock"
          /\ Head(iappIn).type # "E42_SETUP_REQ" /\ xsad' = xsad
      BY <2>4, <3>1 DEF IAppRequest, IAppReceives, shared
    <3>3. \E k : k = imsg'.xid /\ Known(k)'
      BY <2>h, <3>2 DEF SenderN
    <3>. QED
      BY <1>r, <1>v, <2>c, <3>2, <3>3 DEF Handling
  <2>5. CASE IAppLock \/ IAppStartTimer \/ IAppDeleteTimer
    <3>1. /\ ipc \in Handling /\ ipc' \in Handling /\ imsg' = imsg /\ iappIn' = iappIn
          /\ xsad' = xsad /\ ipc' \notin {"reg_xapp", "send_setup"}
      BY <2>5 DEF IAppLock, IAppStartTimer, IAppDeleteTimer, iappSock, Handling
    <3>. QED
      BY <1>q, <1>m, <1>r, <1>v, <3>1
  <2>6. CASE IAppForward \/ IAppAddMap
    <3>1. SUFFICES ASSUME ~\E why : Abort(why) PROVE SendersInv'
      BY <2>a
    <3>2. /\ ipc \in Handling /\ iappIn' = iappIn /\ xsad' = xsad
          /\ (ipc' = "idle" \/ (ipc' = "add_map" /\ imsg' = imsg))
      BY <2>6, <3>1 DEF IAppForward, IAppAddMap, iappSock, shared, Handling
    <3>. QED
      BY <1>q, <1>m, <1>r, <1>v, <3>2 DEF Handling
  <2>7. CASE IAppDelete
    <3>1. SUFFICES ASSUME ~\E why : Abort(why) PROVE SendersInv'
      BY <2>a
    <3>2. /\ iappIn # <<>> /\ IAppConsume /\ ipc' = "del_timer"
          /\ Head(iappIn).type # "E42_SETUP_REQ" /\ xsad' = xsad
          /\ \E k : imsg' = [Head(iappIn) EXCEPT !.node = k]
      BY <2>7, <3>1 DEF IAppDelete, IAppReceives, shared
    <3>3. Head(iappIn) \in ToIApp
      BY <3>2 DEF TypeOK, TypeSockets
    <3>4. imsg'.xid = Head(iappIn).xid
      BY <3>2, <3>3 DEF ToIApp
    <3>5. \E k : k = imsg'.xid /\ Known(k)'
      BY <2>h, <3>2, <3>4 DEF SenderN
    <3>. QED
      BY <1>r, <1>v, <2>c, <3>2, <3>5 DEF Handling
  <2>. QED
    BY <1>2, <2>1, <2>2, <2>3, <2>4, <2>5, <2>6, <2>7 DEF IAppThread
<1>3. ASSUME NEW n \in Nodes, AgentStep(n) PROVE SendersInv'
    BY <1>3, <1>u, AgFrames DEF AgFrame, shared, iappSock
<1>4. ASSUME NEW y \in XApps, XAppStep(y) PROVE SendersInv'
  <2>0. UNCHANGED iappVars /\ xsad' = xsad
    BY <1>4, XFrames DEF XFrame, shared
  <2>v. ASSUME \A m \in Range(iappIn') : SenderN(m) PROVE SendersInv'
    BY <1>m, <1>r, <1>v, <2>0, <2>v DEF iappVars
  <2>s. ASSUME NEW m \in ToIApp, SendToIApp(m), SenderN(m) PROVE SendersInv'
    BY <1>q, <2>s, <2>v, SendRange
  <2>1. CASE XAppStart(y) \/ XAppResendSetup(y)
    <3>1. SendToIApp([type |-> "E42_SETUP_REQ", x |-> y]) /\ xst'[y] = "connecting"
      BY <2>1 DEF XAppStart, XAppResendSetup, TypeOK, TypeXApps
    <3>2. [type |-> "E42_SETUP_REQ", x |-> y] \in ToIApp
      BY DEF ToIApp
    <3>3. SenderN([type |-> "E42_SETUP_REQ", x |-> y])
      BY <3>1 DEF SenderN
    <3>. QED
      BY <2>s, <3>1, <3>2, <3>3
  <2>2. CASE XAppUnsubscribe(y) \/ XAppRequests(y)
    <3>1. \E k \in {"SUB_REQ", "DEL_REQ", "CTRL_REQ"}, h \in Nat, n \in Nodes, f \in RanFuncs :
            SendToIApp([type |-> k, xid |-> xid[y], h |-> h, node |-> n, rf |-> f])
      <4>1. CASE XAppRequests(y)
        <5>1. Len(issued[y]) + 1 \in Nat
          BY DEF TypeOK, TypeXApps
        <5>. QED
          BY <4>1, <5>1 DEF XAppRequests, XAppRequest
      <4>2. CASE XAppUnsubscribe(y)
        <5>1. \A h \in active[y] : h \in Nat /\ issued[y][h] \in Requests
          BY DEF TypeOK, TypeXApps
        <5>. QED
          BY <4>2, <5>1 DEF XAppUnsubscribe, Requests
      <4>. QED
        BY <2>2, <4>1, <4>2
    <3>2. PICK k \in {"SUB_REQ", "DEL_REQ", "CTRL_REQ"}, h \in Nat, n \in Nodes, f \in RanFuncs :
            SendToIApp([type |-> k, xid |-> xid[y], h |-> h, node |-> n, rf |-> f])
      BY <3>1
    <3>3. xst[y] = "idle"
      BY <2>2 DEF XAppUnsubscribe, XAppRequests, XAppRequest
    <3>4. Known(xid[y])
      BY <3>3 DEF WaitsInv, Known
    <3>5. \A j : j = xid[y] => Known(j)'
      BY <1>k, <3>4
    <3>6. [type |-> k, xid |-> xid[y], h |-> h, node |-> n, rf |-> f] \in ToIApp
      BY DEF ToIApp, TypeOK, TypeXApps
    <3>7. SenderN([type |-> k, xid |-> xid[y], h |-> h, node |-> n, rf |-> f])
      BY <3>5 DEF SenderN
    <3>. QED
      BY <2>s, <3>2, <3>6, <3>7
  <2>3. CASE XAppLoop(y)
    <3>1. iappIn' = iappIn
      BY <2>3 DEF XAppLoop, XAppTimeout, XAppSetupResponse, XAppAnswer, XAppIndication, XAppAbort, iappSock
    <3>. QED
      BY <1>q, <2>v, <3>1
  <2>. QED
    BY <1>4, <2>1, <2>2, <2>3 DEF XAppStep
<1>5. CASE UNCHANGED vars
    BY <1>5, <1>u DEF vars, shared, iappSock
<1>. QED
    BY <1>1, <1>2, <1>3, <1>4, <1>5 DEF Next, AgentStep, XAppStep, XAppRequests

\* Entries are never removed from map_ric_id.
LEMMA MapGrows ==
    ASSUME [Next]_vars
    PROVE  mapRicId \subseteq mapRicId'
<1>1. CASE RicThread \/ RicTimeout
    BY <1>1, RicFrames DEF RicFrame
<1>2. CASE IAppThread
    BY <1>2 DEF IAppThread, IAppSetupRequest, IAppRegXApp, IAppSetupResponse, IAppRequest,
        IAppLock, IAppStartTimer, IAppForward, IAppAddMap, IAppDelete, IAppDeleteTimer,
        Abort, shared
<1>3. ASSUME NEW n \in Nodes, AgentStep(n) PROVE mapRicId \subseteq mapRicId'
    BY <1>3, AgFrames DEF AgFrame, shared
<1>4. ASSUME NEW y \in XApps, XAppStep(y) PROVE mapRicId \subseteq mapRicId'
    BY <1>4, XFrames DEF XFrame, shared
<1>5. CASE UNCHANGED vars
    BY <1>5 DEF vars, shared
<1>. QED
    BY <1>1, <1>2, <1>3, <1>4, <1>5 DEF Next, AgentStep, XAppStep, XAppRequests

\* The request that the iApp thread holds before its timer is armed.
LEMMA HeldRequest ==
    ASSUME TypeOK, OwnersInv, ipc \in {"lock", "timer", "del_timer"}
    PROVE  \E x \in XApps :
             /\ Registered(x) /\ xid[x] = imsg.xid /\ AnswerTo(imsg.type) \in AnswerTypes
             /\ imsg.h \in Nat /\ imsg.node \in Nodes
             /\ MsgAt(x, AnswerTo(imsg.type), imsg.h, 6, imsg.node, 0)
<1>1. Known(imsg.xid)
    BY DEF OwnersInv
<1>2. PICK x \in XApps : Registered(x) /\ xid[x] = imsg.xid
    BY <1>1 DEF Known
<1>3. imsg \in ToIApp /\ imsg.type \in {"SUB_REQ", "DEL_REQ", "CTRL_REQ"}
    BY DEF TypeOK, TypeIApp
<1>4. imsg.h \in Nat /\ imsg.node \in Nodes
    BY <1>3 DEF ToIApp
<1>5. AnswerTo(imsg.type) \in AnswerTypes
    BY <1>3 DEF AnswerTo, AnswerTypes, E2Answers
<1>6. MsgAt(x, AnswerTo(imsg.type), imsg.h, 6, imsg.node, 0)
    BY <1>2 DEF MsgAt, AsksFor
<1>. QED
    BY <1>2, <1>4, <1>5, <1>6

\* The rest of OwnersInv.
EntriesInv ==
    /\ \A e \in mapRicId : Known(e.xid)
    /\ rpc = "notify" => rto \in mapRicId
    /\ \A e1, e2 \in Entries : e1.xid = e2.xid /\ e1.h = e2.h => e1 = e2
    /\ ipc = "del_timer" \/ (ipc = "send" /\ imsg.type = "DEL_REQ") =>
         \E e \in mapRicId : e.rid = irid /\ e.node = imsg.node /\ e.xid = imsg.xid
                             /\ e.h = imsg.h

LEMMA EntriesStep ==
    ASSUME TypeOK, RoutingInv, OwnersInv, MappingInv, [Next]_vars
    PROVE  EntriesInv'
<1>g. mapRicId \subseteq mapRicId'
    BY MapGrows
<1>1. \A e \in mapRicId' : Known(e.xid)'
  <2>1. mapRicId' \subseteq Entries
    <3>1. CASE IAppStartTimer
      BY <3>1 DEF IAppStartTimer, Entries
    <3>2. CASE ~IAppStartTimer
      BY <3>2, EntriesKept DEF Entries
    <3>. QED
      BY <3>1, <3>2
  <2>. QED
    BY <2>1, EntriesKnown, KnownGrows
<1>2. rpc' = "notify" => rto' \in mapRicId'
  <2>1. CASE rpc' = rpc /\ rto' = rto
    BY <1>g, <2>1 DEF OwnersInv
  <2>2. CASE RicThread \/ RicTimeout
    <3>1. CASE RicLookup
      BY <1>g, <3>1, <2>1 DEF RicLookup, Abort, ricVars
    <3>2. CASE ~RicLookup
      BY <2>1, <2>2, <3>2 DEF RicThread, RicSetupRequest, RicAddNode, RicAcceptNode, RicAnswer,
         RicIndication, RicNotify, RicShutdown, RicEraseConn, RicRmNode, RicTimeout, Abort,
         ricVars, vars
    <3>. QED
      BY <3>1, <3>2
  <2>3. CASE IAppThread
    BY <2>1, <2>3, IAppFrames DEF IAppFrame, ricVars
  <2>4. ASSUME NEW n \in Nodes, AgentStep(n) PROVE rpc' = rpc /\ rto' = rto
    BY <2>4, AgFrames DEF AgFrame, ricVars
  <2>5. ASSUME NEW y \in XApps, XAppStep(y) PROVE rpc' = rpc /\ rto' = rto
    BY <2>5, XFrames DEF XFrame, ricVars
  <2>6. CASE UNCHANGED vars
    BY <2>1, <2>6 DEF vars, ricVars
  <2>. QED
    BY <2>1, <2>2, <2>3, <2>4, <2>5, <2>6 DEF Next, AgentStep, XAppStep, XAppRequests
<1>3. \A e1, e2 \in Entries' : e1.xid = e2.xid /\ e1.h = e2.h => e1 = e2
  <2>0. \A e1, e2 \in Entries : e1.xid = e2.xid /\ e1.h = e2.h => e1 = e2
    BY DEF OwnersInv, Entries
  <2>1. CASE IAppStartTimer
    <3>. DEFINE d == [rid |-> irid', node |-> imsg.node, xid |-> imsg.xid, h |-> imsg.h,
                      rf |-> imsg.rf]
    <3>1. /\ ipc = "timer" /\ ipc' = "send" /\ imsg' = imsg /\ mapRicId' = mapRicId
          /\ imsg.type \in {"SUB_REQ", "CTRL_REQ"}
      BY <2>1 DEF IAppStartTimer, TypeOK, TypeIApp
    <3>2. Entries' = mapRicId \cup {d} /\ Entries = mapRicId
      BY <3>1 DEF Entries, InFlight
    <3>3. PICK x \in XApps :
             /\ Registered(x) /\ xid[x] = imsg.xid /\ AnswerTo(imsg.type) \in AnswerTypes
             /\ imsg.h \in Nat /\ imsg.node \in Nodes
             /\ MsgAt(x, AnswerTo(imsg.type), imsg.h, 6, imsg.node, 0)
      BY <3>1, HeldRequest
    <3>4. AnswerTo(imsg.type) # "DEL_RESP"
      BY <3>1 DEF AnswerTo
    <3>5. ~\E e \in Entries : e.xid = xid[x] /\ e.h = imsg.h
      BY <3>3, <3>4 DEF MappingInv, Entries
    <3>. QED
      BY <2>0, <3>2, <3>3, <3>5
  <2>2. CASE ~IAppStartTimer
    BY <2>0, <2>2, EntriesKept
  <2>. QED
    BY <2>1, <2>2
<1>4. ipc' = "del_timer" \/ (ipc' = "send" /\ imsg'.type = "DEL_REQ") =>
         \E e \in mapRicId' : e.rid = irid' /\ e.node = imsg'.node /\ e.xid = imsg'.xid
                              /\ e.h = imsg'.h
  <2>u. ASSUME imsg' = imsg, irid' = irid,
               ipc = "del_timer" \/ (ipc = "send" /\ imsg.type = "DEL_REQ")
        PROVE  \E e \in mapRicId' : e.rid = irid' /\ e.node = imsg'.node /\ e.xid = imsg'.xid
                                    /\ e.h = imsg'.h
    BY <1>g, <2>u DEF OwnersInv
  <2>k. CASE UNCHANGED iappVars
    BY <2>u, <2>k DEF iappVars
  <2>1. CASE RicThread \/ RicTimeout
    BY <2>1, <2>k, RicFrames DEF RicFrame
  <2>2. CASE IAppThread
    <3>0. SUFFICES ASSUME ~\E why : Abort(why)
                   PROVE  ipc' = "del_timer" \/ (ipc' = "send" /\ imsg'.type = "DEL_REQ") =>
                            \E e \in mapRicId' : e.rid = irid' /\ e.node = imsg'.node
                                                 /\ e.xid = imsg'.xid /\ e.h = imsg'.h
      BY <2>k DEF Abort
    <3>1. CASE IAppDelete
      <4>1. /\ iappIn # <<>>
            /\ \E e \in mapRicId : /\ e.xid = Head(iappIn).xid /\ e.h = Head(iappIn).h
                                   /\ imsg' = [Head(iappIn) EXCEPT !.node = e.node]
                                   /\ irid' = e.rid
            /\ Head(iappIn).type = "DEL_REQ"
        BY <3>0, <3>1 DEF IAppDelete, IAppReceives
      <4>2. Head(iappIn) \in [type : {"SUB_REQ", "DEL_REQ", "CTRL_REQ"}, xid : Nat, h : Nat,
                              node : Nodes, rf : RanFuncs]
        BY <4>1 DEF TypeOK, TypeSockets, ToIApp
      <4>. QED
        BY <1>g, <4>1, <4>2
    <3>2. CASE IAppDeleteTimer
      BY <2>u, <3>2 DEF IAppDeleteTimer
    <3>3. CASE IAppStartTimer
      <4>1. ipc' = "send" /\ imsg'.type # "DEL_REQ"
        BY <3>3 DEF IAppStartTimer, TypeOK, TypeIApp
      <4>. QED
        BY <4>1
    <3>4. CASE ~(IAppDelete \/ IAppDeleteTimer \/ IAppStartTimer)
      <4>1. ipc' \notin {"del_timer", "send"}
        BY <2>2, <3>0, <3>4 DEF IAppThread, IAppSetupRequest, IAppRegXApp, IAppSetupResponse,
           IAppRequest, IAppLock, IAppForward, IAppAddMap
      <4>. QED
        BY <4>1
    <3>. QED
      BY <3>1, <3>2, <3>3, <3>4
  <2>3. ASSUME NEW n \in Nodes, AgentStep(n) PROVE UNCHANGED iappVars
    BY <2>3, AgFrames DEF AgFrame
  <2>4. ASSUME NEW y \in XApps, XAppStep(y) PROVE UNCHANGED iappVars
    BY <2>4, XFrames DEF XFrame
  <2>5. CASE UNCHANGED vars
    BY <2>5, <2>k DEF vars
  <2>. QED
    BY <2>k, <2>1, <2>2, <2>3, <2>4, <2>5 DEF Next, AgentStep, XAppStep, XAppRequests
<1>. QED
    BY <1>1, <1>2, <1>3, <1>4 DEF EntriesInv

LEMMA OwnersStep ==
    ASSUME TypeOK, RoutingInv, OwnersInv, WaitsInv, MappingInv, [Next]_vars
    PROVE  OwnersInv'
<1>1. SendersInv'
    BY SendersStep
<1>2. EntriesInv'
    BY EntriesStep
<1>. QED
    BY <1>1, <1>2 DEF OwnersInv, SendersInv, EntriesInv, Sender, Handling, Entries

-----------------------------------------------------------------------------
(* Where the messages of an xApp are after each action *)

\* The stages S hold the same messages of x after the step.
Same(x, S) ==
    \A t \in E2Answers, h \in Nat, s \in S, n \in Nodes, i \in Nat :
        MsgAt(x, t, h, s, n, i)' <=> MsgAt(x, t, h, s, n, i)

\* StageKept for several stages.
LEMMA SameStages ==
    ASSUME TypeOK, RoutingInv, OwnersInv, [Next]_vars, ~IAppStartTimer, NEW x \in XApps
    PROVE  /\ xIn'[x] = xIn[x] => Same(x, {0})
           /\ UNCHANGED ricVars => Same(x, {1})
           /\ UNCHANGED ricIn => Same(x, {2})
           /\ UNCHANGED agSubs => Same(x, {3})
           /\ UNCHANGED agIn => Same(x, {4})
           /\ UNCHANGED iappVars => Same(x, {5, 6})
           /\ UNCHANGED iappIn => Same(x, {7})
    BY StageKept DEF Same

\* Position 1 of ricIn moves to the RIC thread, and the others advance.
RicTakes(x) ==
    /\ Same(x, {0, 3, 4, 5, 6, 7})
    /\ \A t \in E2Answers, h \in Nat, n \in Nodes, i \in Nat :
         /\ MsgAt(x, t, h, 1, n, i)' <=> i = 0 /\ MsgAt(x, t, h, 2, n, 1)
         /\ MsgAt(x, t, h, 2, n, i)' <=> i > 0 /\ MsgAt(x, t, h, 2, n, i + 1)
         /\ ~MsgAt(x, t, h, 1, n, i)

\* The messages of ricIn advance; the first was no part of a request.
RicDrops(x) ==
    /\ Same(x, {0, 1, 3, 4, 5, 6, 7})
    /\ \A t \in E2Answers, h \in Nat, n \in Nodes, i \in Nat :
         /\ MsgAt(x, t, h, 2, n, i)' <=> i > 0 /\ MsgAt(x, t, h, 2, n, i + 1)
         /\ ~MsgAt(x, t, h, 2, n, 1)

\* The queue of the RIC thread after a receive.
LEMMA RicTail ==
    ASSUME TypeOK, RoutingInv, OwnersInv, [Next]_vars, ~IAppStartTimer, NEW x \in XApps,
           ricIn # <<>>, ricIn' = Tail(ricIn),
           NEW t \in E2Answers, NEW h \in Nat, NEW n \in Nodes, NEW i \in Nat
    PROVE  MsgAt(x, t, h, 2, n, i)' <=> i > 0 /\ MsgAt(x, t, h, 2, n, i + 1)
<1>n. \A g, m, rid : NamesAt(x, g, m, rid)' <=> NamesAt(x, g, m, rid)
    BY NamesKept
<1>1. ricIn \in Seq(ToRic)
    BY DEF TypeOK, TypeSockets
<1>2. /\ Len(ricIn) \in Nat \ {0}
      /\ DOMAIN ricIn = 1 .. Len(ricIn) /\ DOMAIN ricIn' = 1 .. Len(ricIn) - 1
      /\ \A k \in 1 .. Len(ricIn) - 1 : ricIn'[k] = ricIn[k + 1]
    BY <1>1, TailElements
<1>3. i \in DOMAIN ricIn' <=> i > 0 /\ i + 1 \in DOMAIN ricIn
    BY <1>2
<1>4. i \in DOMAIN ricIn' => ricIn'[i] = ricIn[i + 1]
    BY <1>2
<1>5. MsgAt(x, t, h, 2, n, i)' <=>
        i \in DOMAIN ricIn' /\ ricIn'[i].type = t /\ ricIn'[i].node = n
        /\ \E rid : rid = ricIn'[i].rid /\ NamesAt(x, h, n, rid)'
    BY DEF MsgAt
<1>6. MsgAt(x, t, h, 2, n, i + 1) <=>
        i + 1 \in DOMAIN ricIn /\ ricIn[i + 1].type = t /\ ricIn[i + 1].node = n
        /\ NamesAt(x, h, n, ricIn[i + 1].rid)
    BY DEF MsgAt
<1>. QED
    BY <1>n, <1>3, <1>4, <1>5, <1>6

LEMMA MoveRicTake ==
    ASSUME TypeOK, RoutingInv, OwnersInv, [Next]_vars, NEW x \in XApps,
           RicAnswer \/ RicIndication, ~\E why : Abort(why)
    PROVE  RicTakes(x)
<1>1. /\ rpc = "idle" /\ ricIn # <<>> /\ Head(ricIn).type \in E2Answers
      /\ ricIn' = Tail(ricIn) /\ rmsg' = Head(ricIn) /\ rpc' = "lookup"
      /\ UNCHANGED <<iappVars, iappIn, agIn, agSubs, xIn>>
    BY DEF RicAnswer, RicIndication, RicReceives, iappSock, agVars, xVars, E2Answers
<1>s. ~IAppStartTimer
    BY <1>1 DEF IAppStartTimer, ricVars
<1>n. \A g, m, rid : NamesAt(x, g, m, rid)' <=> NamesAt(x, g, m, rid)
    BY <1>s, NamesKept
<1>2. Same(x, {0, 3, 4, 5, 6, 7})
    BY <1>1, <1>s, SameStages DEF Same
<1>3. ASSUME NEW t \in E2Answers, NEW h \in Nat, NEW n \in Nodes, NEW i \in Nat
      PROVE  MsgAt(x, t, h, 1, n, i)' <=> i = 0 /\ MsgAt(x, t, h, 2, n, 1)
  <2>1. ricIn[1] = Head(ricIn) /\ 1 \in DOMAIN ricIn
    BY <1>1, TailElements DEF TypeOK, TypeSockets
  <2>2. MsgAt(x, t, h, 1, n, i)' <=> i = 0 /\ RicFor(x, h)' /\ rmsg'.type = t /\ rmsg'.node = n
    BY DEF MsgAt
  <2>3. RicFor(x, h)' <=> \E m, rid : m = rmsg'.node /\ rid = rmsg'.rid /\ NamesAt(x, h, m, rid)'
    BY <1>1 DEF RicFor
  <2>4. MsgAt(x, t, h, 2, n, 1) <=>
          ricIn[1].type = t /\ ricIn[1].node = n /\ NamesAt(x, h, n, ricIn[1].rid)
    BY <2>1 DEF MsgAt
  <2>. QED
    BY <1>1, <1>n, <2>1, <2>2, <2>3, <2>4
<1>4. ASSUME NEW t, NEW h, NEW n, NEW i PROVE ~MsgAt(x, t, h, 1, n, i)
    BY <1>1 DEF MsgAt, RicFor
<1>. QED
    BY <1>1, <1>s, <1>2, <1>3, <1>4, RicTail DEF RicTakes

LEMMA MoveRicDrop ==
    ASSUME TypeOK, RoutingInv, OwnersInv, [Next]_vars, NEW x \in XApps,
           RicSetupRequest \/ RicShutdown, ~\E why : Abort(why)
    PROVE  RicDrops(x)
<1>1. /\ rpc = "idle" /\ ricIn # <<>> /\ ricIn' = Tail(ricIn)
      /\ rpc' \in {"add_node", "erase_conn"}
      /\ UNCHANGED <<iappVars, iappIn, agIn, agSubs, xIn>>
    BY DEF RicSetupRequest, RicShutdown, RicReceives, iappSock, agVars, xVars
<1>s. ~IAppStartTimer
    BY <1>1 DEF IAppStartTimer, ricVars
<1>2. Same(x, {0, 3, 4, 5, 6, 7})
    BY <1>1, <1>s, SameStages DEF Same
<1>3. Same(x, {1})
    BY <1>1 DEF Same, MsgAt, RicFor
<1>4. ASSUME NEW t \in E2Answers, NEW h, NEW n PROVE ~MsgAt(x, t, h, 2, n, 1)
  <2>1. ricIn[1] = Head(ricIn)
    BY <1>1, TailElements DEF TypeOK, TypeSockets
  <2>2. Head(ricIn).type \notin E2Answers
    BY DEF RicSetupRequest, RicShutdown, RicReceives, E2Answers
  <2>. QED
    BY <2>1, <2>2 DEF MsgAt
<1>. QED
    BY <1>1, <1>s, <1>2, <1>3, <1>4, RicTail DEF RicDrops, Same

LEMMA MoveRicLookup ==
    ASSUME TypeOK, RoutingInv, OwnersInv, [Next]_vars, NEW x \in XApps,
           RicLookup, ~\E why : Abort(why)
    PROVE  Same(x, 0 .. 7)
<1>1. /\ rpc = "lookup" /\ rpc' = "notify" /\ mtx = "free" /\ rmsg' = rmsg
      /\ rto' \in mapRicId /\ rto'.rid = rmsg.rid
      /\ UNCHANGED <<iappVars, iappIn, agIn, agSubs, xIn, ricIn, xst, xid, xsad>>
    BY DEF RicLookup, shared, iappSock, agVars, xVars
<1>s. ~IAppStartTimer
    BY <1>1 DEF IAppStartTimer, ricVars
<1>2. Same(x, {0, 2, 3, 4, 5, 6, 7})
    BY <1>1, <1>s, SameStages DEF Same
<1>3. InFlight = {}
    BY <1>1 DEF InFlight, RoutingInv, MutexInv, TypeOK, TypeIApp
<1>4. \A e \in mapRicId : e.rid = rmsg.rid => e = rto'
    BY <1>1 DEF RoutingInv, MutexInv
<1>5. rto'.node = rmsg.node
  <2>1. Traced(rmsg.node, rmsg.rid, rmsg.rf, KindOf(rmsg.type))
    BY <1>1 DEF RoutingInv, TracedInv
  <2>2. \E e \in mapRicId : e.rid = rmsg.rid /\ e.node = rmsg.node
    BY <1>3, <2>1 DEF Traced, TracedIn
  <2>. QED
    BY <1>4, <2>2
<1>6. ASSUME NEW h PROVE RicFor(x, h)' <=> RicFor(x, h)
  <2>1. RicFor(x, h)' <=> Registered(x) /\ rto'.xid = xid[x] /\ rto'.h = h
    BY <1>1 DEF RicFor, Registered
  <2>2. RicFor(x, h) <=> NamesAt(x, h, rmsg.node, rmsg.rid)
    BY <1>1 DEF RicFor
  <2>3. NamesAt(x, h, rmsg.node, rmsg.rid) <=>
          Registered(x) /\ \E e \in mapRicId : e.rid = rmsg.rid /\ e.node = rmsg.node
                                               /\ e.xid = xid[x] /\ e.h = h
    BY <1>3 DEF NamesAt, Clash
  <2>. QED
    BY <1>1, <1>4, <1>5, <2>1, <2>2, <2>3
<1>7. Same(x, {1})
    BY <1>1, <1>6 DEF Same, MsgAt
<1>. QED
    BY <1>2, <1>7 DEF Same

\* The message of the RIC thread moves to the end of the queue of its xApp; one
\* for an xApp that died is lost.
RicTells(x) ==
    /\ Same(x, {2, 3, 4, 5, 6, 7})
    /\ Len(xIn[x]) \in Nat
    /\ \A t \in E2Answers, h \in Nat, n \in Nodes, i \in Nat :
         /\ ~MsgAt(x, t, h, 1, n, i)'
         /\ MsgAt(x, t, h, 0, n, i) => i \in 1 .. Len(xIn[x])
         /\ MsgAt(x, t, h, 1, n, i) => i = 0
         /\ MsgAt(x, t, h, 0, n, i)' =>
              MsgAt(x, t, h, 0, n, i) \/ (i = Len(xIn[x]) + 1 /\ MsgAt(x, t, h, 1, n, 0))
         /\ MsgAt(x, t, h, 0, n, i) => MsgAt(x, t, h, 0, n, i)'
         /\ xst[x] # "aborted" /\ i = Len(xIn[x]) + 1 /\ MsgAt(x, t, h, 1, n, 0) =>
              MsgAt(x, t, h, 0, n, i)'

LEMMA MoveRicNotify ==
    ASSUME TypeOK, RoutingInv, OwnersInv, [Next]_vars, NEW x \in XApps,
           RicNotify, ~\E why : Abort(why)
    PROVE  RicTells(x)
<1>. DEFINE m == [type |-> rmsg.type, h |-> rto.h, rf |-> rmsg.rf, node |-> rmsg.node]
<1>1. /\ rpc = "notify" /\ rpc' = "idle"
      /\ UNCHANGED <<iappVars, iappIn, agIn, agSubs, ricIn, xst, xid, xsad>>
      /\ \E r \in xsad : r.xid = rto.xid /\ SendToXApp(r.x, m)
    BY DEF RicNotify, shared, iappSock, agVars, xVars
<1>s. ~IAppStartTimer
    BY <1>1 DEF IAppStartTimer, ricVars
<1>2. Same(x, {2, 3, 4, 5, 6, 7})
    BY <1>1, <1>s, SameStages DEF Same
<1>3. PICK r \in xsad : r.xid = rto.xid /\ SendToXApp(r.x, m)
    BY <1>1
<1>4. r.x \in XApps /\ r = [xid |-> rto.xid, x |-> r.x]
    BY <1>3 DEF TypeOK, TypeShared, XAppRegs
<1>5. x = r.x <=> Registered(x) /\ rto.xid = xid[x]
  <2>1. PICK z \in XApps : Registered(z) /\ xid[z] = rto.xid
    BY <1>1 DEF OwnersInv, Known
  <2>2. [xid |-> rto.xid, x |-> z] = [xid |-> rto.xid, x |-> r.x]
    BY <1>3, <1>4, <2>1 DEF Registered, RoutingInv, XAppIdsInv
  <2>3. z = r.x
    BY <2>2
  <2>. QED
    BY <2>1, <2>3, IdsDiffer
<1>6. m \in ToXApp
    BY <1>1 DEF ToXApp, TypeOK, TypeRic, ToRic, E2Answers, MapEntries
<1>7. xIn[x] \in Seq(ToXApp) /\ xIn \in [XApps -> Seq(ToXApp)]
    BY DEF TypeOK, TypeXApps
<1>8. /\ Len(xIn[x]) \in Nat /\ DOMAIN xIn[x] = 1 .. Len(xIn[x])
      /\ DOMAIN Append(xIn[x], m) = 1 .. Len(xIn[x]) + 1
      /\ \A i \in 1 .. Len(xIn[x]) : Append(xIn[x], m)[i] = xIn[x][i]
      /\ Append(xIn[x], m)[Len(xIn[x]) + 1] = m
    BY <1>6, <1>7, AppendElements
<1>9. ASSUME NEW t \in E2Answers, NEW h \in Nat, NEW n \in Nodes, NEW i \in Nat
      PROVE  /\ ~MsgAt(x, t, h, 1, n, i)'
             /\ MsgAt(x, t, h, 1, n, i) <=> i = 0 /\ x = r.x /\ m.type = t /\ m.h = h /\ m.node = n
             /\ MsgAt(x, t, h, 0, n, i) <=> i \in DOMAIN xIn[x]
                  /\ xIn[x][i].type = t /\ xIn[x][i].h = h /\ xIn[x][i].node = n
             /\ MsgAt(x, t, h, 0, n, i)' <=> i \in DOMAIN xIn'[x]
                  /\ xIn'[x][i].type = t /\ xIn'[x][i].h = h /\ xIn'[x][i].node = n
  <2>1. ~MsgAt(x, t, h, 1, n, i)'
    BY <1>1 DEF MsgAt, RicFor
  <2>2. MsgAt(x, t, h, 1, n, i) <=> i = 0 /\ x = r.x /\ m.type = t /\ m.h = h /\ m.node = n
    BY <1>1, <1>5 DEF MsgAt, RicFor
  <2>3. /\ MsgAt(x, t, h, 0, n, i) <=> i \in DOMAIN xIn[x]
             /\ xIn[x][i].type = t /\ xIn[x][i].h = h /\ xIn[x][i].node = n
        /\ MsgAt(x, t, h, 0, n, i)' <=> i \in DOMAIN xIn'[x]
             /\ xIn'[x][i].type = t /\ xIn'[x][i].h = h /\ xIn'[x][i].node = n
    BY DEF MsgAt
  <2>. QED
    BY <2>1, <2>2, <2>3
<1>10. /\ x # r.x \/ xst[x] = "aborted" => xIn'[x] = xIn[x]
       /\ x = r.x /\ xst[x] # "aborted" => xIn'[x] = Append(xIn[x], m)
    BY <1>3, <1>4, <1>7 DEF SendToXApp
<1>. HIDE DEF m
<1>11. CASE x # r.x \/ xst[x] = "aborted"
    BY <1>2, <1>8, <1>9, <1>10, <1>11 DEF RicTells
<1>12. CASE x = r.x /\ xst[x] # "aborted"
  <2>. DEFINE L == Len(xIn[x])
  <2>0. /\ L \in Nat /\ DOMAIN xIn[x] = 1 .. L /\ DOMAIN xIn'[x] = 1 .. L + 1
        /\ \A i \in 1 .. L : xIn'[x][i] = xIn[x][i]
        /\ xIn'[x][L + 1] = m
    BY <1>8, <1>10, <1>12
  <2>1. \A i \in Nat : i \in 1 .. L + 1 <=> i \in 1 .. L \/ i = L + 1
    BY <2>0
  <2>2. \A i \in Nat : i \in 1 .. L => i # L + 1
    BY <2>0
  <2>3. L + 1 \in Nat
    BY <2>0
  <2>. HIDE DEF L
  <2>4. ASSUME NEW t \in E2Answers, NEW h \in Nat, NEW n \in Nodes, NEW i \in Nat
        PROVE  /\ MsgAt(x, t, h, 0, n, i) => i \in 1 .. L
               /\ MsgAt(x, t, h, 1, n, i) => i = 0
               /\ MsgAt(x, t, h, 0, n, i)' =>
                    MsgAt(x, t, h, 0, n, i) \/ (i = L + 1 /\ MsgAt(x, t, h, 1, n, 0))
               /\ MsgAt(x, t, h, 0, n, i) => MsgAt(x, t, h, 0, n, i)'
               /\ i = L + 1 /\ MsgAt(x, t, h, 1, n, 0) => MsgAt(x, t, h, 0, n, i)'
    <3>1. MsgAt(x, t, h, 1, n, 0) <=> m.type = t /\ m.h = h /\ m.node = n
      BY <1>9, <1>12
    <3>0. /\ MsgAt(x, t, h, 0, n, i) <=> i \in 1 .. L
               /\ xIn[x][i].type = t /\ xIn[x][i].h = h /\ xIn[x][i].node = n
          /\ MsgAt(x, t, h, 0, n, i)' <=> i \in 1 .. L + 1
               /\ xIn'[x][i].type = t /\ xIn'[x][i].h = h /\ xIn'[x][i].node = n
      BY <1>9, <2>0
    <3>2. i = L + 1 => (MsgAt(x, t, h, 0, n, i)' <=> m.type = t /\ m.h = h /\ m.node = n)
      BY <2>0, <2>1, <2>3, <3>0
    <3>3. i \in 1 .. L => (MsgAt(x, t, h, 0, n, i)' <=> MsgAt(x, t, h, 0, n, i))
      BY <2>0, <2>1, <3>0
    <3>4. MsgAt(x, t, h, 0, n, i) => i \in 1 .. L
      BY <3>0
    <3>5. MsgAt(x, t, h, 0, n, i)' => i \in 1 .. L \/ i = L + 1
      BY <2>1, <3>0
    <3>6. MsgAt(x, t, h, 1, n, i) => i = 0
      BY <1>9
    <3>. QED
      BY <3>1, <3>2, <3>3, <3>4, <3>5, <3>6
  <2>. QED
    BY <1>2, <1>9, <2>0, <2>4 DEF RicTells, L
<1>. QED
    BY <1>11, <1>12

\* A thread that holds no such message before or after the step.
LEMMA SameIdle ==
    ASSUME NEW x \in XApps
    PROVE  /\ rpc \notin {"lookup", "notify"} /\ rpc' \notin {"lookup", "notify"} => Same(x, {1})
           /\ ipc # "send" /\ ipc' # "send" => Same(x, {5})
           /\ ipc \notin {"lock", "timer", "del_timer"} /\ ipc' \notin {"lock", "timer", "del_timer"}
                => Same(x, {6})
    BY DEF Same, MsgAt, RicFor

\* Setup messages are no part of a request.
LEMMA SameSetup ==
    ASSUME TypeOK, RoutingInv, OwnersInv, [Next]_vars, ~IAppStartTimer, NEW x \in XApps
    PROVE  /\ (\E m \in ToXApp : m.type \notin E2Answers /\ xIn'[x] = Append(xIn[x], m)) =>
                Same(x, {0})
           /\ (\A n \in Nodes : \/ agIn'[n] = agIn[n]
                                \/ agIn'[n] = Append(agIn[n], [type |-> "SETUP_RESP"])) =>
                Same(x, {4})
<1>n. \A g, m, rid : NamesAt(x, g, m, rid)' <=> NamesAt(x, g, m, rid)
    BY NamesKept
<1>1. ASSUME NEW m \in ToXApp, m.type \notin E2Answers, xIn'[x] = Append(xIn[x], m),
             NEW t \in E2Answers, NEW h \in Nat, NEW n \in Nodes, NEW i \in Nat
      PROVE  MsgAt(x, t, h, 0, n, i)' <=> MsgAt(x, t, h, 0, n, i)
  <2>1. xIn[x] \in Seq(ToXApp)
    BY DEF TypeOK, TypeXApps
  <2>2. /\ Len(xIn[x]) \in Nat /\ DOMAIN xIn[x] = 1 .. Len(xIn[x])
        /\ DOMAIN xIn'[x] = 1 .. Len(xIn[x]) + 1
        /\ \A k \in 1 .. Len(xIn[x]) : xIn'[x][k] = xIn[x][k]
        /\ xIn'[x][Len(xIn[x]) + 1] = m
    BY <1>1, <2>1, AppendElements
  <2>3. i \in DOMAIN xIn'[x] <=> i \in DOMAIN xIn[x] \/ i = Len(xIn[x]) + 1
    BY <2>2
  <2>4. i \in DOMAIN xIn[x] => xIn'[x][i] = xIn[x][i] /\ i # Len(xIn[x]) + 1
    BY <2>2
  <2>5. i = Len(xIn[x]) + 1 => xIn'[x][i].type # t
    BY <1>1, <2>2
  <2>. QED
    BY <2>3, <2>4, <2>5 DEF MsgAt
<1>2. ASSUME NEW t \in E2Answers, NEW h \in Nat, NEW n \in Nodes, NEW i \in Nat,
             agIn'[n] = Append(agIn[n], [type |-> "SETUP_RESP"])
      PROVE  MsgAt(x, t, h, 4, n, i)' <=> MsgAt(x, t, h, 4, n, i)
  <2>1. agIn[n] \in Seq(ToAgent) /\ [type |-> "SETUP_RESP"] \in ToAgent
    BY DEF TypeOK, TypeAgents, ToAgent
  <2>2. /\ Len(agIn[n]) \in Nat /\ DOMAIN agIn[n] = 1 .. Len(agIn[n])
        /\ DOMAIN agIn'[n] = 1 .. Len(agIn[n]) + 1
        /\ \A k \in 1 .. Len(agIn[n]) : agIn'[n][k] = agIn[n][k]
        /\ agIn'[n][Len(agIn[n]) + 1] = [type |-> "SETUP_RESP"]
    BY <1>2, <2>1, AppendElements
  <2>3. i \in DOMAIN agIn'[n] <=> i \in DOMAIN agIn[n] \/ i = Len(agIn[n]) + 1
    BY <2>2
  <2>4. i \in DOMAIN agIn[n] => agIn'[n][i] = agIn[n][i] /\ i # Len(agIn[n]) + 1
    BY <2>2
  <2>5. i = Len(agIn[n]) + 1 => agIn'[n][i].type = "SETUP_RESP"
    BY <2>2
  <2>6. MsgAt(x, t, h, 4, n, i)' <=> i \in DOMAIN agIn'[n] /\ agIn'[n][i].type # "SETUP_RESP"
          /\ AnswerTo(agIn'[n][i].type) = t
          /\ \E rid : rid = agIn'[n][i].rid /\ NamesAt(x, h, n, rid)'
    BY DEF MsgAt
  <2>7. MsgAt(x, t, h, 4, n, i) <=> i \in DOMAIN agIn[n] /\ agIn[n][i].type # "SETUP_RESP"
          /\ AnswerTo(agIn[n][i].type) = t /\ NamesAt(x, h, n, agIn[n][i].rid)
    BY DEF MsgAt
  <2>. QED
    BY <1>n, <2>3, <2>4, <2>5, <2>6, <2>7
<1>. QED
    BY <1>1, <1>2, StageKept DEF Same

\* Position 1 of iappIn moves to the iApp thread, and the others advance.
IAppTakes(x) ==
    /\ Same(x, {0, 1, 2, 3, 4, 5})
    /\ \A t \in E2Answers, h \in Nat, n \in Nodes, i \in Nat :
         /\ MsgAt(x, t, h, 6, n, i)' <=> i = 0 /\ MsgAt(x, t, h, 7, n, 1)
         /\ MsgAt(x, t, h, 7, n, i)' <=> i > 0 /\ MsgAt(x, t, h, 7, n, i + 1)

\* The messages of iappIn advance.
IAppDrops(x) ==
    /\ Same(x, {0, 1, 2, 3, 4, 5, 6})
    /\ \A t \in E2Answers, h \in Nat, n \in Nodes, i \in Nat :
         MsgAt(x, t, h, 7, n, i)' <=> i > 0 /\ MsgAt(x, t, h, 7, n, i + 1)

LEMMA IAppTail ==
    ASSUME TypeOK, RoutingInv, OwnersInv, [Next]_vars, ~IAppStartTimer, NEW x \in XApps,
           iappIn # <<>>, IAppConsume,
           NEW t \in E2Answers, NEW h \in Nat, NEW n \in Nodes, NEW i \in Nat
    PROVE  MsgAt(x, t, h, 7, n, i)' <=> i > 0 /\ MsgAt(x, t, h, 7, n, i + 1)
<1>o. \A k : Known(k) => (Registered(x)' /\ k = xid'[x] <=> Registered(x) /\ k = xid[x])
    BY OwnersKept
<1>1. iappIn \in Seq(ToIApp) /\ iappIn' = Tail(iappIn)
    BY DEF TypeOK, TypeSockets, IAppConsume
<1>2. /\ Len(iappIn) \in Nat \ {0}
      /\ DOMAIN iappIn = 1 .. Len(iappIn) /\ DOMAIN iappIn' = 1 .. Len(iappIn) - 1
      /\ \A k \in 1 .. Len(iappIn) - 1 : iappIn'[k] = iappIn[k + 1]
    BY <1>1, TailElements
<1>3. i \in DOMAIN iappIn' <=> i > 0 /\ i + 1 \in DOMAIN iappIn
    BY <1>2
<1>4. i \in DOMAIN iappIn' => iappIn'[i] = iappIn[i + 1]
    BY <1>2
<1>5. \A k \in DOMAIN iappIn : iappIn[k].type # "E42_SETUP_REQ" => Known(iappIn[k].xid)
    BY DEF OwnersInv, Range
<1>6. MsgAt(x, t, h, 7, n, i)' <=>
        i \in DOMAIN iappIn' /\ iappIn'[i].type # "E42_SETUP_REQ" /\ Registered(x)'
        /\ AnswerTo(iappIn'[i].type) = t /\ iappIn'[i].xid = xid'[x] /\ iappIn'[i].h = h
        /\ iappIn'[i].node = n
    BY DEF MsgAt, AsksFor
<1>7. MsgAt(x, t, h, 7, n, i + 1) <=>
        i + 1 \in DOMAIN iappIn /\ iappIn[i + 1].type # "E42_SETUP_REQ" /\ Registered(x)
        /\ AnswerTo(iappIn[i + 1].type) = t /\ iappIn[i + 1].xid = xid[x] /\ iappIn[i + 1].h = h
        /\ iappIn[i + 1].node = n
    BY DEF MsgAt, AsksFor
<1>. QED
    BY <1>o, <1>3, <1>4, <1>5, <1>6, <1>7

\* The mapping that find_ric_req_map_ric_id returns names the node that the
\* subscription was sent to.
LEMMA DeletesAtItsNode ==
    ASSUME TypeOK, RoutingInv, NEW m \in Range(iappIn), m.type = "DEL_REQ",
           NEW e \in mapRicId, e.xid = m.xid, e.h = m.h
    PROVE  e.node = m.node
<1>1. Owned(m.xid, m.h, KindOf(m.type), m.node, m.rf)
    BY DEF RoutingInv, RequestsInv
<1>2. PICK kind : Owned(e.xid, e.h, kind, e.node, e.rf)
    BY DEF RoutingInv, MutexInv
<1>3. PICK r \in xsad : r.xid = m.xid /\ issued[r.x][m.h] =
        [kind |-> KindOf(m.type), node |-> m.node, rf |-> m.rf]
    BY <1>1 DEF Owned, OwnedIn
<1>4. PICK q \in xsad : q.xid = m.xid /\ issued[q.x][m.h] =
        [kind |-> kind, node |-> e.node, rf |-> e.rf]
    BY <1>2 DEF Owned, OwnedIn
<1>5. r = q
    BY <1>3, <1>4 DEF RoutingInv, XAppIdsInv
<1>. QED
    BY <1>3, <1>4, <1>5

LEMMA MoveIAppTake ==
    ASSUME TypeOK, RoutingInv, OwnersInv, [Next]_vars, NEW x \in XApps,
           IAppRequest \/ IAppDelete, ~\E why : Abort(why)
    PROVE  IAppTakes(x)
<1>1. /\ ipc = "idle" /\ iappIn # <<>> /\ Head(iappIn).type \in {"SUB_REQ", "DEL_REQ", "CTRL_REQ"}
      /\ IAppConsume /\ ipc' \in {"lock", "del_timer"}
      /\ UNCHANGED <<ricVars, ricIn, agIn, agSubs, xIn, xst, xid, xsad>>
    BY DEF IAppRequest, IAppDelete, IAppReceives, shared, agVars, xVars
<1>s. ~IAppStartTimer
    BY <1>1 DEF IAppStartTimer
<1>2. Head(iappIn) \in Range(iappIn) /\ Head(iappIn) = iappIn[1] /\ 1 \in DOMAIN iappIn
      /\ Head(iappIn) \in ToIApp
    BY <1>1, TailElements, ReceiveRange DEF TypeOK, TypeSockets
<1>3. imsg' = Head(iappIn)
  <2>1. CASE IAppRequest
    BY <2>1 DEF IAppRequest
  <2>2. CASE IAppDelete
    <3>1. PICK e \in mapRicId : /\ e.xid = Head(iappIn).xid /\ e.h = Head(iappIn).h
                                /\ imsg' = [Head(iappIn) EXCEPT !.node = e.node]
      BY <2>2 DEF IAppDelete
    <3>2. Head(iappIn).type = "DEL_REQ"
      BY <2>2 DEF IAppDelete, IAppReceives
    <3>3. e.node = Head(iappIn).node
      BY <1>2, <3>1, <3>2, DeletesAtItsNode
    <3>4. [Head(iappIn) EXCEPT !.node = Head(iappIn).node] = Head(iappIn)
      BY <1>1, <1>2 DEF ToIApp
    <3>. QED
      BY <3>1, <3>3, <3>4
  <2>. QED
    BY <2>1, <2>2
<1>4. Same(x, {0, 1, 2, 3, 4, 5})
    BY <1>1, <1>s, SameStages, SameIdle DEF Same
<1>5. ASSUME NEW t \in E2Answers, NEW h \in Nat, NEW n \in Nodes, NEW i \in Nat
      PROVE  MsgAt(x, t, h, 6, n, i)' <=> i = 0 /\ MsgAt(x, t, h, 7, n, 1)
  <2>1. MsgAt(x, t, h, 6, n, i)' <=> i = 0 /\ Registered(x)
          /\ AnswerTo(imsg'.type) = t /\ imsg'.xid = xid[x] /\ imsg'.h = h /\ imsg'.node = n
    BY <1>1 DEF MsgAt, AsksFor, Registered
  <2>2. MsgAt(x, t, h, 7, n, 1) <=> Registered(x)
          /\ AnswerTo(iappIn[1].type) = t /\ iappIn[1].xid = xid[x] /\ iappIn[1].h = h
          /\ iappIn[1].node = n
    BY <1>1, <1>2 DEF MsgAt, AsksFor
  <2>. QED
    BY <1>2, <1>3, <2>1, <2>2
<1>. QED
    BY <1>1, <1>s, <1>4, <1>5, IAppTail DEF IAppTakes

LEMMA MoveIAppDrop ==
    ASSUME TypeOK, RoutingInv, OwnersInv, [Next]_vars, NEW x \in XApps, IAppSetupRequest
    PROVE  IAppDrops(x)
<1>1. /\ ipc = "idle" /\ iappIn # <<>> /\ IAppConsume /\ ipc' = "reg_xapp"
      /\ UNCHANGED <<ricVars, ricIn, agIn, agSubs, xIn>>
    BY DEF IAppSetupRequest, IAppReceives, agVars, xVars
<1>s. ~IAppStartTimer
    BY <1>1 DEF IAppStartTimer
<1>2. Same(x, {0, 1, 2, 3, 4, 5, 6})
    BY <1>1, <1>s, SameStages, SameIdle DEF Same
<1>. QED
    BY <1>1, <1>s, <1>2, IAppTail DEF IAppDrops

\* The request of the iApp thread is armed.  When its id is still mapped, ids
\* have no meaning until the assert of add_map_ric_id fails.
IAppArms(x) ==
    /\ Same(x, {0, 7})
    /\ ~Clash' => Same(x, {1, 2, 3, 4})
    /\ \A t \in E2Answers, h \in Nat, n \in Nodes, i \in Nat :
         /\ MsgAt(x, t, h, 1, n, i)' => MsgAt(x, t, h, 1, n, i)
         /\ \A s \in {2, 3, 4, 5} : Clash' => ~MsgAt(x, t, h, s, n, i)'
         /\ MsgAt(x, t, h, 5, n, i)' => i = 0 /\ MsgAt(x, t, h, 6, n, 0)
         /\ ~MsgAt(x, t, h, 6, n, i)'

\* An id that was mapped before keeps its meaning, unless it is given out again.
LEMMA StartNames ==
    ASSUME TypeOK, RoutingInv, OwnersInv, [Next]_vars, IAppStartTimer, NEW x \in XApps,
           NEW e \in mapRicId
    PROVE  \A h, n, rid : rid = e.rid => (NamesAt(x, h, n, rid)' <=> NamesAt(x, h, n, rid) /\ ~Clash')
<1>. SUFFICES ASSUME NEW h, NEW n, NEW rid, rid = e.rid
              PROVE  NamesAt(x, h, n, rid)' <=> NamesAt(x, h, n, rid) /\ ~Clash'
    OBVIOUS
<1>. DEFINE d == [rid |-> irid', node |-> imsg.node, xid |-> imsg.xid, h |-> imsg.h,
                  rf |-> imsg.rf]
<1>1. /\ ipc = "timer" /\ ipc' = "send" /\ imsg' = imsg /\ mapRicId' = mapRicId
      /\ imsg.type \in {"SUB_REQ", "CTRL_REQ"} /\ UNCHANGED <<xst, xid, xsad>>
    BY DEF IAppStartTimer, TypeOK, TypeIApp, xVars
<1>2. InFlight = {} /\ InFlight' = {d}
    BY <1>1 DEF InFlight
<1>3. Registered(x)' <=> Registered(x)
    BY <1>1 DEF Registered
<1>4. ASSUME NamesAt(x, h, n, rid)' PROVE NamesAt(x, h, n, rid) /\ ~Clash'
  <2>1. ~Clash'
    BY <1>4 DEF NamesAt
  <2>2. rid # irid'
    BY <1>1, <1>2, <2>1 DEF Clash
  <2>. QED
    BY <1>4, <2>1, <2>2, NamesAdded
<1>5. ASSUME NamesAt(x, h, n, rid), ~Clash' PROVE NamesAt(x, h, n, rid)'
  <2>1. PICK a \in mapRicId : a.rid = rid /\ a.node = n /\ a.xid = xid[x] /\ a.h = h
    BY <1>2, <1>5 DEF NamesAt
  <2>. QED
    BY <1>1, <1>3, <1>5, <2>1 DEF NamesAt
<1>. QED
    BY <1>4, <1>5

LEMMA MoveStartTimer ==
    ASSUME TypeOK, RoutingInv, OwnersInv, [Next]_vars, NEW x \in XApps, IAppStartTimer
    PROVE  IAppArms(x)
<1>1. /\ ipc = "timer" /\ ipc' = "send" /\ imsg' = imsg
      /\ imsg.type \in {"SUB_REQ", "CTRL_REQ"}
      /\ UNCHANGED <<rpc, rmsg, rto, ricIn, iappIn, agIn, agSubs, xIn, xst, xid, xsad>>
    BY DEF IAppStartTimer, TypeOK, TypeIApp, xVars, agVars, iappSock, ricVars
<1>2. Same(x, {0, 7})
    BY <1>1 DEF Same, MsgAt, AsksFor, Registered
<1>3. \A n, rid, f, kind : Traced(n, rid, f, kind) =>
        \A h, m : NamesAt(x, h, m, rid)' <=> NamesAt(x, h, m, rid) /\ ~Clash'
  <2>1. InFlight = {}
    BY <1>1 DEF InFlight
  <2>. QED
    BY <2>1, StartNames DEF Traced, TracedIn
<1>r. Registered(x)' <=> Registered(x)
    BY <1>1 DEF Registered
<1>4. ASSUME NEW t \in E2Answers, NEW h \in Nat, NEW n \in Nodes, NEW i \in Nat
      PROVE  /\ MsgAt(x, t, h, 1, n, i)' <=> MsgAt(x, t, h, 1, n, i) /\ (~Clash' \/ rpc = "notify")
             /\ MsgAt(x, t, h, 2, n, i)' <=> MsgAt(x, t, h, 2, n, i) /\ ~Clash'
             /\ MsgAt(x, t, h, 3, n, i)' <=> MsgAt(x, t, h, 3, n, i) /\ ~Clash'
             /\ MsgAt(x, t, h, 4, n, i)' <=> MsgAt(x, t, h, 4, n, i) /\ ~Clash'
  <2>1. MsgAt(x, t, h, 1, n, i)' <=> MsgAt(x, t, h, 1, n, i) /\ (~Clash' \/ rpc = "notify")
    <3>1. MsgAt(x, t, h, 1, n, i)' <=>
            i = 0 /\ rmsg.type = t /\ rmsg.node = n
            /\ \/ rpc = "lookup" /\ \E rid : rid = rmsg.rid /\ NamesAt(x, h, n, rid)'
               \/ rpc = "notify" /\ Registered(x)' /\ rto.xid = xid'[x] /\ rto.h = h
      BY <1>1 DEF MsgAt, RicFor
    <3>2. MsgAt(x, t, h, 1, n, i) <=>
            i = 0 /\ rmsg.type = t /\ rmsg.node = n
            /\ \/ rpc = "lookup" /\ NamesAt(x, h, n, rmsg.rid)
               \/ rpc = "notify" /\ Registered(x) /\ rto.xid = xid[x] /\ rto.h = h
      BY DEF MsgAt, RicFor
    <3>3. CASE rpc = "lookup"
      <4>1. Traced(rmsg.node, rmsg.rid, rmsg.rf, KindOf(rmsg.type))
        BY <3>3 DEF RoutingInv, TracedInv
      <4>2. \A rid : rid = rmsg.rid => (NamesAt(x, h, n, rid)' <=> NamesAt(x, h, n, rid) /\ ~Clash')
        BY <1>3, <4>1
      <4>. QED
        BY <3>1, <3>2, <3>3, <4>2
    <3>4. CASE rpc # "lookup"
      BY <1>1, <1>r, <3>1, <3>2, <3>4
    <3>. QED
      BY <3>3, <3>4
  <2>2. MsgAt(x, t, h, 2, n, i)' <=> MsgAt(x, t, h, 2, n, i) /\ ~Clash'
    <3>1. MsgAt(x, t, h, 2, n, i)' <=> i \in DOMAIN ricIn /\ ricIn[i].type = t
            /\ ricIn[i].node = n /\ \E rid : rid = ricIn[i].rid /\ NamesAt(x, h, n, rid)'
      BY <1>1 DEF MsgAt
    <3>2. i \in DOMAIN ricIn /\ ricIn[i].type = t =>
            \E f, k, m : Traced(m, ricIn[i].rid, f, k)
      BY DEF RoutingInv, TracedInv, Range
    <3>3. i \in DOMAIN ricIn /\ ricIn[i].type = t => \A rid : rid = ricIn[i].rid =>
            (NamesAt(x, h, n, rid)' <=> NamesAt(x, h, n, rid) /\ ~Clash')
      BY <1>3, <3>2
    <3>. QED
      BY <3>1, <3>3 DEF MsgAt
  <2>3. MsgAt(x, t, h, 3, n, i)' <=> MsgAt(x, t, h, 3, n, i) /\ ~Clash'
    <3>1. MsgAt(x, t, h, 3, n, i)' <=> i = 0 /\ t = "IND"
            /\ \E q \in agSubs[n] : \E rid : rid = q.rid /\ NamesAt(x, h, n, rid)'
      BY <1>1 DEF MsgAt
    <3>2. \A q \in agSubs[n] : \E f, k, m : Traced(m, q.rid, f, k)
      BY DEF RoutingInv, TracedInv
    <3>3. \A q \in agSubs[n] : \A rid : rid = q.rid =>
            (NamesAt(x, h, n, rid)' <=> NamesAt(x, h, n, rid) /\ ~Clash')
      BY <1>3, <3>2
    <3>. QED
      BY <3>1, <3>3 DEF MsgAt
  <2>4. MsgAt(x, t, h, 4, n, i)' <=> MsgAt(x, t, h, 4, n, i) /\ ~Clash'
    <3>1. MsgAt(x, t, h, 4, n, i)' <=> i \in DOMAIN agIn[n] /\ agIn[n][i].type # "SETUP_RESP"
            /\ AnswerTo(agIn[n][i].type) = t
            /\ \E rid : rid = agIn[n][i].rid /\ NamesAt(x, h, n, rid)'
      BY <1>1 DEF MsgAt
    <3>2. i \in DOMAIN agIn[n] /\ agIn[n][i].type # "SETUP_RESP" =>
            \E f, k, m : Traced(m, agIn[n][i].rid, f, k)
      BY DEF RoutingInv, TracedInv, Range
    <3>3. i \in DOMAIN agIn[n] /\ agIn[n][i].type # "SETUP_RESP" => \A rid : rid = agIn[n][i].rid =>
            (NamesAt(x, h, n, rid)' <=> NamesAt(x, h, n, rid) /\ ~Clash')
      BY <1>3, <3>2
    <3>. QED
      BY <3>1, <3>3 DEF MsgAt
  <2>. QED
    BY <2>1, <2>2, <2>3, <2>4
<1>5. ASSUME NEW t \in E2Answers, NEW h \in Nat, NEW n \in Nodes, NEW i \in Nat
      PROVE  /\ MsgAt(x, t, h, 5, n, i)' => i = 0 /\ MsgAt(x, t, h, 6, n, 0) /\ ~Clash'
             /\ ~MsgAt(x, t, h, 6, n, i)'
  <2>1. ASSUME MsgAt(x, t, h, 5, n, i)' PROVE i = 0 /\ MsgAt(x, t, h, 6, n, 0) /\ ~Clash'
    <3>1. i = 0 /\ AnswerTo(imsg.type) = t /\ imsg.node = n
          /\ \E rid : rid = irid' /\ NamesAt(x, h, n, rid)'
      BY <1>1, <2>1 DEF MsgAt
    <3>2. ~Clash'
      BY <3>1 DEF NamesAt
    <3>3. h = imsg.h /\ Registered(x) /\ xid[x] = imsg.xid
      BY <3>1, NamesAdded
    <3>. QED
      BY <1>1, <3>1, <3>2, <3>3 DEF MsgAt, AsksFor
  <2>2. ~MsgAt(x, t, h, 6, n, i)'
    BY <1>1 DEF MsgAt
  <2>. QED
    BY <2>1, <2>2
<1>. QED
    BY <1>2, <1>4, <1>5 DEF IAppArms, Same

LEMMA MoveDeleteTimer ==
    ASSUME TypeOK, RoutingInv, OwnersInv, [Next]_vars, NEW x \in XApps, IAppDeleteTimer
    PROVE  IAppArms(x) /\ ~Clash'
<1>1. /\ ipc = "del_timer" /\ ipc' = "send" /\ imsg' = imsg /\ irid' = irid
      /\ imsg.type = "DEL_REQ"
      /\ UNCHANGED <<ricVars, ricIn, iappIn, agIn, agSubs, xIn, xst, xid, xsad, mapRicId>>
    BY DEF IAppDeleteTimer, TypeOK, TypeIApp, xVars, agVars, iappSock
<1>s. ~IAppStartTimer
    BY <1>1 DEF IAppStartTimer
<1>2. Same(x, {0, 1, 2, 3, 4, 7})
    BY <1>1, <1>s, SameStages DEF Same
<1>3. InFlight = {} /\ InFlight' = {}
    BY <1>1 DEF InFlight
<1>4. PICK e \in mapRicId : e.rid = irid /\ e.node = imsg.node /\ e.xid = imsg.xid /\ e.h = imsg.h
    BY <1>1 DEF OwnersInv
<1>5. ASSUME NEW t \in E2Answers, NEW h \in Nat, NEW n \in Nodes, NEW i \in Nat
      PROVE  /\ MsgAt(x, t, h, 5, n, i)' => i = 0 /\ MsgAt(x, t, h, 6, n, 0)
             /\ ~MsgAt(x, t, h, 6, n, i)'
  <2>1. ASSUME MsgAt(x, t, h, 5, n, i)' PROVE i = 0 /\ MsgAt(x, t, h, 6, n, 0)
    <3>1. i = 0 /\ AnswerTo(imsg.type) = t /\ imsg.node = n
          /\ \E rid : rid = irid' /\ NamesAt(x, h, n, rid)'
      BY <1>1, <2>1 DEF MsgAt
    <3>2. Registered(x) /\ \E a \in mapRicId : a.rid = irid /\ a.xid = xid[x] /\ a.h = h
      BY <1>1, <1>3, <3>1 DEF NamesAt, Registered
    <3>3. \A a \in mapRicId : a.rid = irid => a = e
      BY <1>4 DEF RoutingInv, MutexInv
    <3>. QED
      BY <1>1, <1>4, <3>1, <3>2, <3>3 DEF MsgAt, AsksFor
  <2>2. ~MsgAt(x, t, h, 6, n, i)'
    BY <1>1 DEF MsgAt
  <2>. QED
    BY <2>1, <2>2
<1>6. ~Clash'
    BY <1>3 DEF Clash
<1>. QED
    BY <1>2, <1>5, <1>6 DEF IAppArms, Same

\* The request of the iApp thread moves to the end of the queue of its node, or
\* is lost.
IAppSends(x) ==
    /\ Same(x, {0, 1, 2, 3, 6, 7})
    /\ \A n \in Nodes : Len(agIn[n]) \in Nat
    /\ \A t \in E2Answers, h \in Nat, n \in Nodes, i \in Nat :
         /\ MsgAt(x, t, h, 4, n, i) => i \in 1 .. Len(agIn[n])
         /\ MsgAt(x, t, h, 4, n, i)' =>
              MsgAt(x, t, h, 4, n, i) \/ (i = Len(agIn[n]) + 1 /\ MsgAt(x, t, h, 5, n, 0))
         /\ ~MsgAt(x, t, h, 5, n, i)'

LEMMA MoveIAppForward ==
    ASSUME TypeOK, RoutingInv, OwnersInv, [Next]_vars, NEW x \in XApps,
           IAppForward, ~\E why : Abort(why)
    PROVE  IAppSends(x)
<1>. DEFINE m == [type |-> imsg.type, rid |-> irid, rf |-> imsg.rf]
<1>1. /\ ipc = "send" /\ ipc' \in {"idle", "add_map"} /\ SendToNode(imsg.node, m)
      /\ UNCHANGED <<ricVars, ricIn, iappIn, agSubs, xIn>>
    BY DEF IAppForward, xVars, iappSock
<1>s. ~IAppStartTimer
    BY <1>1 DEF IAppStartTimer
<1>n. \A g, k, rid : NamesAt(x, g, k, rid)' <=> NamesAt(x, g, k, rid)
    BY <1>s, NamesKept
<1>2. Same(x, {0, 1, 2, 3, 6, 7})
    BY <1>1, <1>s, SameStages, SameIdle DEF Same
<1>3. m \in ToAgent /\ imsg.node \in Nodes /\ m.type # "SETUP_RESP"
    BY <1>1 DEF TypeOK, TypeIApp, ToIApp, ToAgent
<1>4. \A n \in Nodes : agIn[n] \in Seq(ToAgent)
    BY DEF TypeOK, TypeAgents
<1>5. \A n \in Nodes : agIn'[n] = agIn[n] \/ (n = imsg.node /\ agIn'[n] = Append(agIn[n], m))
    BY <1>1, <1>3 DEF SendToNode, TypeOK, TypeAgents
<1>6. ASSUME NEW t \in E2Answers, NEW h \in Nat, NEW n \in Nodes, NEW i \in Nat
      PROVE  /\ MsgAt(x, t, h, 4, n, i) => i \in 1 .. Len(agIn[n])
             /\ MsgAt(x, t, h, 4, n, i)' =>
                  MsgAt(x, t, h, 4, n, i) \/ (i = Len(agIn[n]) + 1 /\ MsgAt(x, t, h, 5, n, 0))
             /\ ~MsgAt(x, t, h, 5, n, i)'
  <2>1. /\ Len(agIn[n]) \in Nat /\ DOMAIN agIn[n] = 1 .. Len(agIn[n])
        /\ DOMAIN Append(agIn[n], m) = 1 .. Len(agIn[n]) + 1
        /\ \A k \in 1 .. Len(agIn[n]) : Append(agIn[n], m)[k] = agIn[n][k]
        /\ Append(agIn[n], m)[Len(agIn[n]) + 1] = m
    BY <1>3, <1>4, AppendElements
  <2>2. MsgAt(x, t, h, 4, n, i) => i \in 1 .. Len(agIn[n])
    BY <2>1 DEF MsgAt
  <2>3. ~MsgAt(x, t, h, 5, n, i)'
    BY <1>1 DEF MsgAt
  <2>4. ASSUME MsgAt(x, t, h, 4, n, i)', agIn'[n] # agIn[n]
        PROVE  MsgAt(x, t, h, 4, n, i) \/ (i = Len(agIn[n]) + 1 /\ MsgAt(x, t, h, 5, n, 0))
    <3>0. n = imsg.node /\ agIn'[n] = Append(agIn[n], m)
      BY <1>5, <2>4
    <3>1. i \in DOMAIN agIn'[n] /\ agIn'[n][i].type # "SETUP_RESP"
          /\ AnswerTo(agIn'[n][i].type) = t
          /\ \E rid : rid = agIn'[n][i].rid /\ NamesAt(x, h, n, rid)'
      BY <2>4 DEF MsgAt
    <3>2. i \in DOMAIN agIn[n] \/ i = Len(agIn[n]) + 1
      BY <2>1, <3>0, <3>1
    <3>3. CASE i \in DOMAIN agIn[n]
      <4>1. agIn'[n][i] = agIn[n][i]
        BY <2>1, <3>0, <3>3
      <4>. QED
        BY <1>n, <3>1, <3>3, <4>1 DEF MsgAt
    <3>4. CASE i = Len(agIn[n]) + 1
      <4>1. agIn'[n][i] = m
        BY <2>1, <3>0, <3>4
      <4>2. AnswerTo(imsg.type) = t /\ NamesAt(x, h, n, irid)
        BY <1>n, <3>1, <4>1
      <4>. QED
        BY <1>1, <3>0, <3>4, <4>2 DEF MsgAt
    <3>. QED
      BY <3>2, <3>3, <3>4
  <2>5. agIn'[n] = agIn[n] => (MsgAt(x, t, h, 4, n, i)' <=> MsgAt(x, t, h, 4, n, i))
    BY <1>s, StageKept
  <2>. QED
    BY <2>2, <2>3, <2>4, <2>5
<1>7. \A n \in Nodes : Len(agIn[n]) \in Nat
    BY <1>4
<1>. QED
    BY <1>2, <1>6, <1>7 DEF IAppSends

\* The other actions of the near-RT RIC move no message of a request.
LEMMA MoveRicNothing ==
    ASSUME TypeOK, RoutingInv, OwnersInv, [Next]_vars, NEW x \in XApps,
           \/ \E why : Abort(why)
           \/ RicAddNode \/ RicAcceptNode \/ RicEraseConn \/ RicRmNode \/ RicTimeout
           \/ IAppRegXApp \/ IAppSetupResponse \/ IAppLock \/ IAppAddMap
           \/ UNCHANGED vars
    PROVE  Same(x, 0 .. 7)
<1>u. ASSUME UNCHANGED <<ricVars, iappVars, ricIn, iappIn, agIn, agSubs, xIn>>, ~IAppStartTimer
      PROVE  Same(x, 0 .. 7)
  <2>1. Same(x, {0}) /\ Same(x, {1}) /\ Same(x, {2}) /\ Same(x, {3}) /\ Same(x, {4})
        /\ Same(x, {5, 6}) /\ Same(x, {7})
    BY <1>u, SameStages
  <2>. QED
    BY <2>1 DEF Same
<1>a. ASSUME NEW why, Abort(why) PROVE Same(x, 0 .. 7)
  <2>1. UNCHANGED <<ricVars, iappVars, ricIn, iappIn, agIn, agSubs, xIn>>
    BY <1>a DEF Abort, iappSock, agVars, xVars
  <2>2. ~IAppStartTimer
    BY <1>a DEF IAppStartTimer, Abort, iappVars
  <2>. QED
    BY <1>u, <2>1, <2>2
<1>0. SUFFICES ASSUME ~\E why : Abort(why) PROVE Same(x, 0 .. 7)
    BY <1>a
<1>1. CASE RicAddNode \/ RicEraseConn \/ RicRmNode
  <2>1. /\ rpc \notin {"lookup", "notify"} /\ rpc' \notin {"lookup", "notify"}
        /\ UNCHANGED <<iappVars, ricIn, iappIn, agIn, agSubs, xIn>>
    BY <1>0, <1>1 DEF RicAddNode, RicEraseConn, RicRmNode, iappSock, agVars, xVars
  <2>2. ~IAppStartTimer
    BY <2>1 DEF IAppStartTimer, iappVars
  <2>. QED
    BY <2>1, <2>2, SameStages, SameIdle DEF Same
<1>2. CASE RicAcceptNode
  <2>1. /\ rpc \notin {"lookup", "notify"} /\ rpc' \notin {"lookup", "notify"}
        /\ SendToNode(rmsg.node, [type |-> "SETUP_RESP"]) /\ rmsg.node \in Nodes
        /\ UNCHANGED <<iappVars, ricIn, iappIn, agSubs, xIn>>
    BY <1>2 DEF RicAcceptNode, iappSock, xVars, TypeOK, TypeRic, ToRic
  <2>2. ~IAppStartTimer
    BY <2>1 DEF IAppStartTimer, iappVars
  <2>3. \A n \in Nodes : \/ agIn'[n] = agIn[n]
                         \/ agIn'[n] = Append(agIn[n], [type |-> "SETUP_RESP"])
    BY <2>1 DEF SendToNode, TypeOK, TypeAgents
  <2>4. Same(x, {4})
    BY <2>2, <2>3, SameSetup
  <2>. QED
    BY <2>1, <2>2, <2>4, SameStages, SameIdle DEF Same
<1>3. CASE RicTimeout \/ UNCHANGED vars
  <2>1. UNCHANGED vars
    BY <1>0, <1>3 DEF RicTimeout
  <2>2. ~IAppStartTimer
    BY <2>1 DEF IAppStartTimer, vars, iappVars
  <2>. QED
    BY <1>u, <2>1, <2>2 DEF vars, iappSock, agVars, xVars
<1>4. CASE IAppRegXApp \/ IAppAddMap
  <2>1. /\ ipc \in {"reg_xapp", "add_map"} /\ ipc' \in {"send_setup", "idle"}
        /\ UNCHANGED <<ricVars, ricIn, iappIn, agIn, agSubs, xIn>>
    BY <1>0, <1>4 DEF IAppRegXApp, IAppAddMap, iappSock, agVars, xVars
  <2>2. ~IAppStartTimer
    BY <2>1 DEF IAppStartTimer
  <2>. QED
    BY <2>1, <2>2, SameStages, SameIdle DEF Same
<1>5. CASE IAppSetupResponse
  <2>1. /\ ipc = "send_setup" /\ ipc' = "idle"
        /\ SendToXApp(imsg.x, [type |-> "E42_SETUP_RESP", xid |-> imsg.xid, nodes |-> imsg.nodes])
        /\ UNCHANGED <<ricVars, ricIn, iappIn, agIn, agSubs>>
    BY <1>5 DEF IAppSetupResponse, iappSock, agVars
  <2>2. ~IAppStartTimer
    BY <2>1 DEF IAppStartTimer
  <2>3. [type |-> "E42_SETUP_RESP", xid |-> imsg.xid, nodes |-> imsg.nodes] \in ToXApp
        /\ imsg.x \in XApps /\ "E42_SETUP_RESP" \notin E2Answers
    BY <2>1 DEF TypeOK, TypeIApp, SetupReplies, ToXApp, E2Answers
  <2>4. \/ xIn'[x] = xIn[x]
        \/ xIn'[x] = Append(xIn[x], [type |-> "E42_SETUP_RESP", xid |-> imsg.xid,
                                     nodes |-> imsg.nodes])
    BY <2>1, <2>3 DEF SendToXApp, TypeOK, TypeXApps
  <2>5. Same(x, {0})
    BY <2>2, <2>3, <2>4, SameSetup, SameStages
  <2>6. Same(x, {1}) /\ Same(x, {2}) /\ Same(x, {3}) /\ Same(x, {4}) /\ Same(x, {7})
    BY <2>1, <2>2, SameStages
  <2>7. Same(x, {5}) /\ Same(x, {6})
    BY <2>1, SameIdle
  <2>. QED
    BY <2>5, <2>6, <2>7 DEF Same
<1>6. CASE IAppLock
  <2>1. /\ ipc = "lock" /\ ipc' = "timer" /\ imsg' = imsg
        /\ UNCHANGED <<ricVars, ricIn, iappIn, agIn, agSubs, xIn, xst, xid, xsad>>
    BY <1>6 DEF IAppLock, iappSock, agVars, xVars
  <2>2. ~IAppStartTimer
    BY <2>1 DEF IAppStartTimer
  <2>3. Same(x, {6})
    BY <2>1 DEF Same, MsgAt, AsksFor, Registered
  <2>. QED
    BY <2>1, <2>2, <2>3, SameStages, SameIdle DEF Same
<1>. QED
    BY <1>0, <1>1, <1>2, <1>3, <1>4, <1>5, <1>6

\* A message at the end of the RIC's queue.
LEMMA RicGets ==
    ASSUME TypeOK, RoutingInv, OwnersInv, [Next]_vars, ~IAppStartTimer, NEW x \in XApps,
           NEW m \in ToRic, ricIn' = Append(ricIn, m),
           NEW t \in E2Answers, NEW h \in Nat, NEW n \in Nodes, NEW i \in Nat
    PROVE  /\ Len(ricIn) \in Nat
           /\ MsgAt(x, t, h, 2, n, i) => i \in 1 .. Len(ricIn)
           /\ MsgAt(x, t, h, 2, n, i)' <=>
                \/ MsgAt(x, t, h, 2, n, i)
                \/ i = Len(ricIn) + 1 /\ m.type = t /\ m.node = n /\ NamesAt(x, h, n, m.rid)
<1>n. \A g, k, rid : NamesAt(x, g, k, rid)' <=> NamesAt(x, g, k, rid)
    BY NamesKept
<1>1. ricIn \in Seq(ToRic)
    BY DEF TypeOK, TypeSockets
<1>2. /\ Len(ricIn) \in Nat /\ DOMAIN ricIn = 1 .. Len(ricIn)
      /\ DOMAIN ricIn' = 1 .. Len(ricIn) + 1
      /\ \A k \in 1 .. Len(ricIn) : ricIn'[k] = ricIn[k]
      /\ ricIn'[Len(ricIn) + 1] = m
    BY <1>1, AppendElements
<1>3. i \in DOMAIN ricIn' <=> i \in DOMAIN ricIn \/ i = Len(ricIn) + 1
    BY <1>2
<1>4. i \in DOMAIN ricIn => ricIn'[i] = ricIn[i] /\ i # Len(ricIn) + 1
    BY <1>2
<1>5. i = Len(ricIn) + 1 => ricIn'[i] = m
    BY <1>2
<1>6. MsgAt(x, t, h, 2, n, i)' <=> i \in DOMAIN ricIn' /\ ricIn'[i].type = t /\ ricIn'[i].node = n
        /\ \E rid : rid = ricIn'[i].rid /\ NamesAt(x, h, n, rid)'
    BY DEF MsgAt
<1>7. MsgAt(x, t, h, 2, n, i) <=> i \in DOMAIN ricIn /\ ricIn[i].type = t /\ ricIn[i].node = n
        /\ NamesAt(x, h, n, ricIn[i].rid)
    BY DEF MsgAt
<1>8. MsgAt(x, t, h, 2, n, i) => i \in 1 .. Len(ricIn)
    BY <1>2, <1>7
<1>. QED
    BY <1>n, <1>2, <1>3, <1>4, <1>5, <1>6, <1>7, <1>8

\* The queue of node k after the agent has read a message.
LEMMA AgTail ==
    ASSUME TypeOK, RoutingInv, OwnersInv, [Next]_vars, ~IAppStartTimer, NEW x \in XApps,
           NEW k \in Nodes, agIn[k] # <<>>, AgConsume(k),
           NEW t \in E2Answers, NEW h \in Nat, NEW n \in Nodes, NEW i \in Nat
    PROVE  MsgAt(x, t, h, 4, n, i)' <=>
             IF n = k THEN i > 0 /\ MsgAt(x, t, h, 4, n, i + 1) ELSE MsgAt(x, t, h, 4, n, i)
<1>n. \A g, c, rid : NamesAt(x, g, c, rid)' <=> NamesAt(x, g, c, rid)
    BY NamesKept
<1>1. agIn[k] \in Seq(ToAgent) /\ agIn'[k] = Tail(agIn[k]) /\ (n # k => agIn'[n] = agIn[n])
    BY DEF TypeOK, TypeAgents, AgConsume
<1>2. /\ Len(agIn[k]) \in Nat \ {0}
      /\ DOMAIN agIn[k] = 1 .. Len(agIn[k]) /\ DOMAIN agIn'[k] = 1 .. Len(agIn[k]) - 1
      /\ \A j \in 1 .. Len(agIn[k]) - 1 : agIn'[k][j] = agIn[k][j + 1]
    BY <1>1, TailElements
<1>3. i \in DOMAIN agIn'[k] <=> i > 0 /\ i + 1 \in DOMAIN agIn[k]
    BY <1>2
<1>4. i \in DOMAIN agIn'[k] => agIn'[k][i] = agIn[k][i + 1]
    BY <1>2
<1>5. MsgAt(x, t, h, 4, k, i)' <=> i \in DOMAIN agIn'[k] /\ agIn'[k][i].type # "SETUP_RESP"
        /\ AnswerTo(agIn'[k][i].type) = t
        /\ \E rid : rid = agIn'[k][i].rid /\ NamesAt(x, h, k, rid)'
    BY DEF MsgAt
<1>6. MsgAt(x, t, h, 4, k, i + 1) <=>
        i + 1 \in DOMAIN agIn[k] /\ agIn[k][i + 1].type # "SETUP_RESP"
        /\ AnswerTo(agIn[k][i + 1].type) = t /\ NamesAt(x, h, k, agIn[k][i + 1].rid)
    BY DEF MsgAt
<1>7. MsgAt(x, t, h, 4, k, i)' <=> i > 0 /\ MsgAt(x, t, h, 4, k, i + 1)
    BY <1>n, <1>3, <1>4, <1>5, <1>6
<1>8. n # k => (MsgAt(x, t, h, 4, n, i)' <=> MsgAt(x, t, h, 4, n, i))
    BY <1>1, StageKept
<1>. QED
    BY <1>7, <1>8

\* Node k answers the first request of its queue; a subscription starts
\* its indications, a deletion ends them.
AgAnswers(x, k) ==
    /\ Same(x, {0, 1, 5, 6, 7})
    /\ Len(ricIn) \in Nat
    /\ \A t \in E2Answers, h \in Nat, n \in Nodes, i \in Nat :
         /\ MsgAt(x, t, h, 2, n, i) => i \in 1 .. Len(ricIn)
         /\ MsgAt(x, t, h, 2, n, i)' <=>
              \/ MsgAt(x, t, h, 2, n, i)
              \/ n = k /\ i = Len(ricIn) + 1 /\ MsgAt(x, t, h, 4, k, 1)
         /\ MsgAt(x, t, h, 4, n, i)' <=>
              IF n = k THEN i > 0 /\ MsgAt(x, t, h, 4, n, i + 1) ELSE MsgAt(x, t, h, 4, n, i)
         /\ MsgAt(x, t, h, 3, n, i)' =>
              \/ MsgAt(x, t, h, 3, n, i)
              \/ i = 0 /\ t = "IND" /\ n = k /\ MsgAt(x, "SUB_RESP", h, 4, k, 1)
         /\ MsgAt(x, "DEL_RESP", h, 4, k, 1) => ~MsgAt(x, "IND", h, 3, k, i)'

\* A request id stands for a request to one RAN function.
LEMMA NamesOneFunction ==
    ASSUME TypeOK, RoutingInv, NEW x \in XApps, NEW h, NEW n, NEW rid,
           NamesAt(x, h, n, rid), NEW f, NEW g, NEW a, NEW b,
           Traced(n, rid, f, a), Traced(n, rid, g, b)
    PROVE  f = g
<1>1. PICK e \in Entries : e.rid = rid /\ e.rf = f
    BY DEF Traced, TracedIn, Entries
<1>2. PICK d \in Entries : d.rid = rid /\ d.rf = g
    BY DEF Traced, TracedIn, Entries
<1>3. \A c1 \in mapRicId, c2 \in InFlight : c1.rid # c2.rid
    BY DEF NamesAt, Clash
<1>4. \A c1, c2 \in mapRicId : c1.rid = c2.rid => c1 = c2
    BY DEF RoutingInv, MutexInv
<1>5. \A c1, c2 \in InFlight : c1 = c2
    BY DEF InFlight
<1>. QED
    BY <1>1, <1>2, <1>3, <1>4, <1>5 DEF Entries

LEMMA MoveAgAnswer ==
    ASSUME TypeOK, RoutingInv, OwnersInv, [Next]_vars, NEW x \in XApps, NEW k \in Nodes,
           AgSubscription(k) \/ AgDelete(k) \/ AgControl(k), ~AgAbort(k)
    PROVE  AgAnswers(x, k)
<1>. DEFINE m == Head(agIn[k])
            r == [type |-> AnswerTo(m.type), node |-> k, rid |-> m.rid, rf |-> m.rf]
            q == [rid |-> m.rid, rf |-> m.rf]
<1>1. /\ agIn[k] # <<>> /\ AgConsume(k) /\ ricIn' = Append(ricIn, r)
      /\ m.type \in {"SUB_REQ", "DEL_REQ", "CTRL_REQ"}
      /\ UNCHANGED <<ricVars, iappVars, iappIn, xIn, reqId>>
    BY DEF AgSubscription, AgDelete, AgControl, AgReceives, AgAnswer, AgSend, iappSock, xVars, shared
<1>2. /\ agSubs'[k] = IF m.type = "SUB_REQ" THEN agSubs[k] \cup {q}
                      ELSE IF m.type = "DEL_REQ" THEN agSubs[k] \ {q} ELSE agSubs[k]
      /\ \A n \in Nodes \ {k} : agSubs'[n] = agSubs[n]
  <2>1. CASE AgSubscription(k)
    BY <2>1 DEF AgSubscription, AgReceives, TypeOK, TypeAgents
  <2>2. CASE AgDelete(k)
    BY <2>2 DEF AgDelete, AgReceives, TypeOK, TypeAgents
  <2>3. CASE AgControl(k)
    BY <2>3 DEF AgControl, AgReceives, TypeOK, TypeAgents
  <2>. QED
    BY <2>1, <2>2, <2>3
<1>s. ~IAppStartTimer
    BY <1>1 DEF IAppStartTimer, TypeOK, TypeShared
<1>n. \A g, c, rid : NamesAt(x, g, c, rid)' <=> NamesAt(x, g, c, rid)
    BY <1>s, NamesKept
<1>3. m \in ToAgent /\ m.rid \in ReqIds /\ m.rf \in RanFuncs /\ m = agIn[k][1] /\ 1 \in DOMAIN agIn[k]
      /\ m \in Range(agIn[k])
  <2>1. agIn[k] \in Seq(ToAgent)
    BY DEF TypeOK, TypeAgents
  <2>2. m \in ToAgent /\ m = agIn[k][1] /\ 1 \in DOMAIN agIn[k]
    BY <1>1, <2>1, TailElements
  <2>. QED
    BY <1>1, <2>2 DEF ToAgent, Range
<1>4. r \in ToRic /\ AnswerTo(m.type) \in AnswerTypes
    BY <1>1, <1>3 DEF ToRic, AnswerTo, E2Answers, AnswerTypes
<1>5. \A t, h : MsgAt(x, t, h, 4, k, 1) <=> AnswerTo(m.type) = t /\ NamesAt(x, h, k, m.rid)
    BY <1>1, <1>3 DEF MsgAt
<1>6. Same(x, {0, 1, 5, 6, 7})
    BY <1>1, <1>s, SameStages DEF Same
<1>. HIDE DEF m, r, q
<1>7. ASSUME NEW t \in E2Answers, NEW h \in Nat, NEW n \in Nodes, NEW i \in Nat
      PROVE  /\ Len(ricIn) \in Nat
             /\ MsgAt(x, t, h, 2, n, i) => i \in 1 .. Len(ricIn)
             /\ MsgAt(x, t, h, 2, n, i)' <=>
                  \/ MsgAt(x, t, h, 2, n, i)
                  \/ n = k /\ i = Len(ricIn) + 1 /\ MsgAt(x, t, h, 4, k, 1)
  <2>1. /\ Len(ricIn) \in Nat
        /\ MsgAt(x, t, h, 2, n, i) => i \in 1 .. Len(ricIn)
        /\ MsgAt(x, t, h, 2, n, i)' <=>
             \/ MsgAt(x, t, h, 2, n, i)
             \/ i = Len(ricIn) + 1 /\ r.type = t /\ r.node = n /\ NamesAt(x, h, n, r.rid)
    BY <1>1, <1>4, <1>s, RicGets
  <2>2. r.type = AnswerTo(m.type) /\ r.node = k /\ r.rid = m.rid
    BY DEF r
  <2>. QED
    BY <1>5, <2>1, <2>2
<1>8. ASSUME NEW t \in E2Answers, NEW h \in Nat, NEW n \in Nodes, NEW i \in Nat
      PROVE  MsgAt(x, t, h, 4, n, i)' <=>
              IF n = k THEN i > 0 /\ MsgAt(x, t, h, 4, n, i + 1) ELSE MsgAt(x, t, h, 4, n, i)
    BY <1>1, <1>s, AgTail
<1>9. ASSUME NEW t \in E2Answers, NEW h \in Nat, NEW n \in Nodes, NEW i \in Nat,
             MsgAt(x, t, h, 3, n, i)'
      PROVE  \/ MsgAt(x, t, h, 3, n, i)
             \/ i = 0 /\ t = "IND" /\ n = k /\ MsgAt(x, "SUB_RESP", h, 4, k, 1)
  <2>1. i = 0 /\ t = "IND" /\ \E c \in agSubs'[n] : \E rid : rid = c.rid /\ NamesAt(x, h, n, rid)'
    BY <1>9 DEF MsgAt
  <2>2. PICK c \in agSubs'[n] : NamesAt(x, h, n, c.rid)
    BY <1>n, <2>1
  <2>3. CASE c \in agSubs[n]
    BY <2>1, <2>2, <2>3 DEF MsgAt
  <2>4. CASE c \notin agSubs[n]
    <3>1. n = k /\ m.type = "SUB_REQ" /\ c = q
      BY <1>2, <2>2, <2>4
    <3>2. c.rid = m.rid /\ AnswerTo(m.type) = "SUB_RESP"
      BY <3>1 DEF q, AnswerTo
    <3>. QED
      BY <1>5, <2>1, <2>2, <3>1, <3>2
  <2>. QED
    BY <2>3, <2>4
<1>10. ASSUME NEW h \in Nat, NEW i \in Nat, MsgAt(x, "DEL_RESP", h, 4, k, 1),
              MsgAt(x, "IND", h, 3, k, i)'
       PROVE  FALSE
  <2>1. m.type = "DEL_REQ" /\ NamesAt(x, h, k, m.rid)
    BY <1>1, <1>5, <1>10 DEF AnswerTo
  <2>2. \E c \in agSubs'[k] : \E rid : rid = c.rid /\ NamesAt(x, h, k, rid)'
    BY <1>10 DEF MsgAt
  <2>3. PICK c \in agSubs[k] : NamesAt(x, h, k, c.rid) /\ c # q
    BY <1>n, <1>2, <2>1, <2>2
  <2>4. c.rid = m.rid
    BY <2>1, <2>3, NamesUnique
  <2>5. Traced(k, c.rid, c.rf, "SUB_REQ") /\ Traced(k, m.rid, m.rf, KindOf(m.type))
    BY <1>1, <1>3, <2>3 DEF RoutingInv, TracedInv
  <2>6. c.rf = m.rf
    BY <2>1, <2>4, <2>5, NamesOneFunction
  <2>7. c \in [rid : ReqIds, rf : RanFuncs]
    BY <2>3 DEF TypeOK, TypeAgents
  <2>. QED
    BY <2>3, <2>4, <2>6, <2>7 DEF q
<1>. QED
    BY <1>6, <1>7, <1>8, <1>9, <1>10 DEF AgAnswers

\* The queue of node k advances, or it and the node's subscriptions are lost.
AgReads(x, k) ==
    /\ Same(x, {0, 1, 2, 3, 5, 6, 7})
    /\ \A t \in E2Answers, h \in Nat, n \in Nodes, i \in Nat :
         MsgAt(x, t, h, 4, n, i)' <=>
           IF n = k THEN i > 0 /\ MsgAt(x, t, h, 4, n, i + 1) ELSE MsgAt(x, t, h, 4, n, i)

AgLoses(x) ==
    /\ Same(x, {0, 1, 2, 5, 6, 7})
    /\ \A t \in E2Answers, h \in Nat, n \in Nodes, i \in Nat, s \in {3, 4} :
         MsgAt(x, t, h, s, n, i)' => MsgAt(x, t, h, s, n, i)

\* Setups and shutdowns are no part of a request.
LEMMA SameLink ==
    ASSUME TypeOK, RoutingInv, OwnersInv, [Next]_vars, ~IAppStartTimer, NEW x \in XApps,
           NEW m \in ToRic, m.type \notin E2Answers, ricIn' = Append(ricIn, m)
    PROVE  Same(x, {2})
<1>. SUFFICES ASSUME NEW t \in E2Answers, NEW h \in Nat, NEW n \in Nodes, NEW i \in Nat
              PROVE  MsgAt(x, t, h, 2, n, i)' <=> MsgAt(x, t, h, 2, n, i)
    BY DEF Same
<1>. QED
    BY RicGets

LEMMA MoveAgRead ==
    ASSUME TypeOK, RoutingInv, OwnersInv, [Next]_vars, NEW x \in XApps, NEW k \in Nodes,
           AgSetupResponse(k), ~AgAbort(k)
    PROVE  AgReads(x, k)
<1>1. /\ agIn[k] # <<>> /\ AgConsume(k)
      /\ UNCHANGED <<ricVars, iappVars, ricIn, iappIn, xIn, agSubs, reqId>>
    BY DEF AgSetupResponse, AgReceives, iappSock, xVars, shared
<1>s. ~IAppStartTimer
    BY <1>1 DEF IAppStartTimer, TypeOK, TypeShared
<1>2. Same(x, {0, 1, 2, 3, 5, 6, 7})
    BY <1>1, <1>s, SameStages DEF Same
<1>. QED
    BY <1>1, <1>2, <1>s, AgTail DEF AgReads

LEMMA MoveAgLose ==
    ASSUME TypeOK, RoutingInv, OwnersInv, [Next]_vars, NEW x \in XApps, NEW k \in Nodes,
           AgAbort(k) \/ AgStop(k)
    PROVE  AgLoses(x)
<1>. DEFINE m == [type |-> "SHUTDOWN", node |-> k, assoc |-> assoc[k]]
<1>1. /\ ricIn' = Append(ricIn, m) \/ UNCHANGED ricIn
      /\ agIn' = [agIn EXCEPT ![k] = <<>>] /\ agSubs' = [agSubs EXCEPT ![k] = {}]
      /\ UNCHANGED <<ricVars, iappVars, iappIn, xIn, reqId>>
    BY DEF AgAbort, AgStop, AgClose, AgSend, iappSock, xVars, shared
<1>s. ~IAppStartTimer
    BY <1>1 DEF IAppStartTimer, TypeOK, TypeShared
<1>2. Same(x, {0, 1, 5, 6, 7})
    BY <1>1, <1>s, SameStages DEF Same
<1>3. m \in ToRic /\ m.type \notin E2Answers
    BY DEF ToRic, E2Answers, TypeOK, TypeAgents
<1>4. Same(x, {2})
    BY <1>1, <1>3, <1>s, SameLink, SameStages
<1>5. ASSUME NEW t \in E2Answers, NEW h \in Nat, NEW n \in Nodes, NEW i \in Nat
      PROVE  /\ MsgAt(x, t, h, 3, n, i)' => MsgAt(x, t, h, 3, n, i)
             /\ MsgAt(x, t, h, 4, n, i)' => MsgAt(x, t, h, 4, n, i)
  <2>1. CASE n = k
    <3>1. agIn'[n] = <<>> /\ agSubs'[n] = {}
      BY <1>1, <2>1 DEF TypeOK, TypeAgents
    <3>. QED
      BY <3>1 DEF MsgAt
  <2>2. CASE n # k
    <3>1. agIn'[n] = agIn[n] /\ agSubs'[n] = agSubs[n]
      BY <1>1, <2>2 DEF TypeOK, TypeAgents
    <3>. QED
      BY <1>s, <3>1, StageKept
  <2>. QED
    BY <2>1, <2>2
<1>. QED
    BY <1>2, <1>4, <1>5 DEF AgLoses, Same

\* Node k sends an indication of one of its subscriptions.
AgIndicates(x) ==
    /\ Same(x, {0, 1, 3, 4, 5, 6, 7})
    /\ \A t \in E2Answers, h \in Nat, n \in Nodes, i \in Nat :
         /\ MsgAt(x, t, h, 2, n, i) => i \in 1 .. Len(ricIn) /\ Len(ricIn) \in Nat
         /\ MsgAt(x, t, h, 2, n, i) => MsgAt(x, t, h, 2, n, i)'
         /\ MsgAt(x, t, h, 2, n, i)' =>
              \/ MsgAt(x, t, h, 2, n, i)
              \/ /\ t = "IND" /\ MsgAt(x, t, h, 3, n, 0)
                 /\ i = Len(ricIn) + 1 /\ Len(ricIn) \in Nat

LEMMA MoveAgIndication ==
    ASSUME TypeOK, RoutingInv, OwnersInv, [Next]_vars, NEW x \in XApps, NEW k \in Nodes,
           AgIndication(k)
    PROVE  AgIndicates(x)
<1>1. UNCHANGED <<ricVars, iappVars, iappIn, xIn, agIn, agSubs, reqId>>
    BY DEF AgIndication, iappSock, xVars, shared
<1>2. PICK c \in agSubs[k] :
        ricIn' = Append(ricIn, [type |-> "IND", node |-> k, rid |-> c.rid, rf |-> c.rf])
    BY DEF AgIndication, AgSend
<1>s. ~IAppStartTimer
    BY <1>1 DEF IAppStartTimer, TypeOK, TypeShared
<1>3. Same(x, {0, 1, 3, 4, 5, 6, 7})
    BY <1>1, <1>s, SameStages DEF Same
<1>. DEFINE m == [type |-> "IND", node |-> k, rid |-> c.rid, rf |-> c.rf]
<1>4. m \in ToRic
    BY <1>2 DEF ToRic, E2Answers, TypeOK, TypeAgents
<1>5. m.type = "IND" /\ m.node = k /\ m.rid = c.rid
    OBVIOUS
<1>6. ricIn' = Append(ricIn, m)
    BY <1>2
<1>. HIDE DEF m
<1>7. ASSUME NEW t \in E2Answers, NEW h \in Nat, NEW n \in Nodes, NEW i \in Nat
      PROVE  /\ MsgAt(x, t, h, 2, n, i) => i \in 1 .. Len(ricIn) /\ Len(ricIn) \in Nat
             /\ MsgAt(x, t, h, 2, n, i) => MsgAt(x, t, h, 2, n, i)'
             /\ MsgAt(x, t, h, 2, n, i)' =>
                  \/ MsgAt(x, t, h, 2, n, i)
                  \/ /\ t = "IND" /\ MsgAt(x, t, h, 3, n, 0)
                     /\ i = Len(ricIn) + 1 /\ Len(ricIn) \in Nat
  <2>1. /\ Len(ricIn) \in Nat
        /\ MsgAt(x, t, h, 2, n, i) => i \in 1 .. Len(ricIn)
        /\ MsgAt(x, t, h, 2, n, i)' <=>
             \/ MsgAt(x, t, h, 2, n, i)
             \/ i = Len(ricIn) + 1 /\ m.type = t /\ m.node = n /\ NamesAt(x, h, n, m.rid)
    BY <1>4, <1>6, <1>s, RicGets
  <2>2. m.type = t /\ m.node = n /\ NamesAt(x, h, n, m.rid) => t = "IND" /\ MsgAt(x, t, h, 3, n, 0)
    BY <1>2, <1>5 DEF MsgAt
  <2>. QED
    BY <2>1, <2>2
<1>. QED
    BY <1>3, <1>7 DEF AgIndicates

LEMMA MoveAgNothing ==
    ASSUME TypeOK, RoutingInv, OwnersInv, [Next]_vars, NEW x \in XApps, NEW k \in Nodes,
           AgStart(k) \/ AgResendSetup(k)
    PROVE  Same(x, 0 .. 7)
<1>1. UNCHANGED <<ricVars, iappVars, iappIn, xIn, agIn, agSubs, reqId>>
    BY DEF AgStart, AgResendSetup, iappSock, xVars, shared
<1>2. \E m \in ToRic : m.type \notin E2Answers /\ ricIn' = Append(ricIn, m)
  <2>1. \A a \in Nat : SetupRequest(k, a) \in ToRic /\ SetupRequest(k, a).type \notin E2Answers
    BY DEF SetupRequest, ToRic, E2Answers
  <2>2. assoc[k] \in Nat /\ assoc[k] + 1 \in Nat
    BY DEF TypeOK, TypeAgents
  <2>3. ricIn' = Append(ricIn, SetupRequest(k, assoc[k]))
        \/ ricIn' = Append(ricIn, SetupRequest(k, assoc[k] + 1))
    BY DEF AgStart, AgResendSetup, AgSend
  <2>. QED
    BY <2>1, <2>2, <2>3
<1>s. ~IAppStartTimer
    BY <1>1 DEF IAppStartTimer, TypeOK, TypeShared
<1>3. Same(x, {0, 1, 3, 4, 5, 6, 7})
    BY <1>1, <1>s, SameStages DEF Same
<1>4. Same(x, {2})
    BY <1>2, <1>s, SameLink
<1>. QED
    BY <1>3, <1>4 DEF Same

\* A message at the end of the iApp's queue.
LEMMA IAppGets ==
    ASSUME TypeOK, RoutingInv, OwnersInv, [Next]_vars, ~IAppStartTimer, NEW x \in XApps,
           NEW m \in ToIApp, iappIn' = Append(iappIn, m),
           m.type # "E42_SETUP_REQ" => Known(m.xid),
           NEW t \in E2Answers, NEW h \in Nat, NEW n \in Nodes, NEW i \in Nat
    PROVE  /\ Len(iappIn) \in Nat
           /\ MsgAt(x, t, h, 7, n, i) => i \in 1 .. Len(iappIn)
           /\ MsgAt(x, t, h, 7, n, i)' <=>
                \/ MsgAt(x, t, h, 7, n, i)
                \/ i = Len(iappIn) + 1 /\ m.type # "E42_SETUP_REQ" /\ AsksFor(m, x, t, h, n)
<1>o. \A k : Known(k) => (Registered(x)' /\ k = xid'[x] <=> Registered(x) /\ k = xid[x])
    BY OwnersKept
<1>1. iappIn \in Seq(ToIApp)
    BY DEF TypeOK, TypeSockets
<1>2. /\ Len(iappIn) \in Nat /\ DOMAIN iappIn = 1 .. Len(iappIn)
      /\ DOMAIN iappIn' = 1 .. Len(iappIn) + 1
      /\ \A k \in 1 .. Len(iappIn) : iappIn'[k] = iappIn[k]
      /\ iappIn'[Len(iappIn) + 1] = m
    BY <1>1, AppendElements
<1>3. i \in DOMAIN iappIn' <=> i \in DOMAIN iappIn \/ i = Len(iappIn) + 1
    BY <1>2
<1>4. i \in DOMAIN iappIn => iappIn'[i] = iappIn[i] /\ i # Len(iappIn) + 1
    BY <1>2
<1>5. i = Len(iappIn) + 1 => iappIn'[i] = m
    BY <1>2
<1>6. MsgAt(x, t, h, 7, n, i)' <=>
        i \in DOMAIN iappIn' /\ iappIn'[i].type # "E42_SETUP_REQ" /\ Registered(x)'
        /\ AnswerTo(iappIn'[i].type) = t /\ iappIn'[i].xid = xid'[x] /\ iappIn'[i].h = h
        /\ iappIn'[i].node = n
    BY DEF MsgAt, AsksFor
<1>7. MsgAt(x, t, h, 7, n, i) <=>
        i \in DOMAIN iappIn /\ iappIn[i].type # "E42_SETUP_REQ" /\ Registered(x)
        /\ AnswerTo(iappIn[i].type) = t /\ iappIn[i].xid = xid[x] /\ iappIn[i].h = h
        /\ iappIn[i].node = n
    BY DEF MsgAt, AsksFor
<1>8. AsksFor(m, x, t, h, n) <=>
        Registered(x) /\ AnswerTo(m.type) = t /\ m.xid = xid[x] /\ m.h = h /\ m.node = n
    BY DEF AsksFor
<1>9. \A k \in DOMAIN iappIn : iappIn[k].type # "E42_SETUP_REQ" => Known(iappIn[k].xid)
    BY DEF OwnersInv, Range
<1>10. MsgAt(x, t, h, 7, n, i) => i \in 1 .. Len(iappIn)
    BY <1>2, <1>7
<1>11. CASE i \in DOMAIN iappIn
    BY <1>o, <1>2, <1>3, <1>4, <1>6, <1>7, <1>9, <1>10, <1>11
<1>12. CASE i = Len(iappIn) + 1
  <2>1. i \notin DOMAIN iappIn
    BY <1>4, <1>12
  <2>. QED
    BY <1>o, <1>2, <1>3, <1>5, <1>6, <1>7, <1>8, <1>10, <1>12, <2>1
<1>13. CASE i \notin DOMAIN iappIn /\ i # Len(iappIn) + 1
    BY <1>2, <1>3, <1>6, <1>7, <1>10, <1>13
<1>. QED
    BY <1>11, <1>12, <1>13

\* xApp x reads a message, or loses them.
XReads(x) ==
    /\ Same(x, 1 .. 7)
    /\ \A t \in E2Answers, h \in Nat, n \in Nodes, i \in Nat :
         MsgAt(x, t, h, 0, n, i)' <=> i > 0 /\ MsgAt(x, t, h, 0, n, i + 1)

XLoses(x) ==
    /\ Same(x, 1 .. 7)
    /\ \A t \in E2Answers, h \in Nat, n \in Nodes, i \in Nat : ~MsgAt(x, t, h, 0, n, i)'

\* xApp x sends request h for node k, to be answered by a.
XAsks(x, a, g, k) ==
    /\ Same(x, 0 .. 6)
    /\ Len(iappIn) \in Nat
    /\ \A t \in E2Answers, h \in Nat, n \in Nodes, i \in Nat :
         /\ MsgAt(x, t, h, 7, n, i) => i \in 1 .. Len(iappIn)
         /\ MsgAt(x, t, h, 7, n, i)' <=>
              \/ MsgAt(x, t, h, 7, n, i)
              \/ i = Len(iappIn) + 1 /\ t = a /\ h = g /\ n = k

LEMMA MoveXLose ==
    ASSUME TypeOK, RoutingInv, OwnersInv, [Next]_vars, NEW x \in XApps, NEW y \in XApps,
           XAppAbort(y)
    PROVE  IF x = y THEN XLoses(x) ELSE Same(x, 0 .. 7)
<1>1. /\ xIn' = [xIn EXCEPT ![y] = <<>>]
      /\ UNCHANGED <<ricVars, iappVars, ricIn, iappIn, agIn, agSubs, reqId>>
    BY DEF XAppAbort, iappSock, agVars, shared
<1>s. ~IAppStartTimer
    BY <1>1 DEF IAppStartTimer, TypeOK, TypeShared
<1>2. Same(x, 1 .. 7)
    BY <1>1, <1>s, SameStages DEF Same
<1>3. CASE x = y
  <2>1. xIn'[x] = <<>>
    BY <1>1, <1>3 DEF TypeOK, TypeXApps
  <2>. QED
    BY <1>2, <1>3, <2>1 DEF XLoses, MsgAt
<1>4. CASE x # y
  <2>1. xIn'[x] = xIn[x]
    BY <1>1, <1>4 DEF TypeOK, TypeXApps
  <2>2. Same(x, {0})
    BY <1>s, <2>1, SameStages
  <2>. QED
    BY <1>2, <1>4, <2>2 DEF Same
<1>. QED
    BY <1>3, <1>4

LEMMA MoveXRead ==
    ASSUME TypeOK, RoutingInv, OwnersInv, [Next]_vars, NEW x \in XApps, NEW y \in XApps,
           XAppSetupResponse(y) \/ XAppAnswer(y) \/ XAppIndication(y), ~XAppAbort(y)
    PROVE  IF x = y THEN XReads(x) ELSE Same(x, 0 .. 7)
<1>1. /\ xIn[y] # <<>> /\ xIn' = [xIn EXCEPT ![y] = Tail(@)]
      /\ UNCHANGED <<ricVars, iappVars, ricIn, iappIn, agIn, agSubs, reqId>>
    BY DEF XAppSetupResponse, XAppAnswer, XAppIndication, XReceives, XConsume, iappSock, agVars, shared
<1>s. ~IAppStartTimer
    BY <1>1 DEF IAppStartTimer, TypeOK, TypeShared
<1>2. Same(x, 1 .. 7)
    BY <1>1, <1>s, SameStages DEF Same
<1>3. CASE x = y
  <2>1. xIn[x] \in Seq(ToXApp) /\ xIn[x] # <<>> /\ xIn'[x] = Tail(xIn[x])
    BY <1>1, <1>3 DEF TypeOK, TypeXApps
  <2>2. /\ Len(xIn[x]) \in Nat \ {0}
        /\ DOMAIN xIn[x] = 1 .. Len(xIn[x]) /\ DOMAIN xIn'[x] = 1 .. Len(xIn[x]) - 1
        /\ \A k \in 1 .. Len(xIn[x]) - 1 : xIn'[x][k] = xIn[x][k + 1]
    BY <2>1, TailElements
  <2>3. ASSUME NEW t \in E2Answers, NEW h \in Nat, NEW n \in Nodes, NEW i \in Nat
        PROVE  MsgAt(x, t, h, 0, n, i)' <=> i > 0 /\ MsgAt(x, t, h, 0, n, i + 1)
    <3>1. i \in DOMAIN xIn'[x] <=> i > 0 /\ i + 1 \in DOMAIN xIn[x]
      BY <2>2
    <3>2. i \in DOMAIN xIn'[x] => xIn'[x][i] = xIn[x][i + 1]
      BY <2>2
    <3>3. MsgAt(x, t, h, 0, n, i)' <=> i \in DOMAIN xIn'[x] /\ xIn'[x][i].type = t
            /\ xIn'[x][i].h = h /\ xIn'[x][i].node = n
      BY DEF MsgAt
    <3>4. MsgAt(x, t, h, 0, n, i + 1) <=> i + 1 \in DOMAIN xIn[x] /\ xIn[x][i + 1].type = t
            /\ xIn[x][i + 1].h = h /\ xIn[x][i + 1].node = n
      BY DEF MsgAt
    <3>. QED
      BY <3>1, <3>2, <3>3, <3>4
  <2>. QED
    BY <1>2, <1>3, <2>3 DEF XReads
<1>4. CASE x # y
  <2>1. xIn'[x] = xIn[x]
    BY <1>1, <1>4 DEF TypeOK, TypeXApps
  <2>2. Same(x, {0})
    BY <1>s, <2>1, SameStages
  <2>. QED
    BY <1>2, <1>4, <2>2 DEF Same
<1>. QED
    BY <1>3, <1>4

LEMMA MoveXNothing ==
    ASSUME TypeOK, RoutingInv, OwnersInv, [Next]_vars, NEW x \in XApps, NEW y \in XApps,
           XAppStart(y) \/ XAppResendSetup(y)
    PROVE  Same(x, 0 .. 7)
<1>. DEFINE m == [type |-> "E42_SETUP_REQ", x |-> y]
<1>1. /\ iappIn' = Append(iappIn, m)
      /\ UNCHANGED <<ricVars, iappVars, ricIn, xIn, agIn, agSubs, reqId>>
    BY DEF XAppStart, XAppResendSetup, SendToIApp, agVars, shared
<1>s. ~IAppStartTimer
    BY <1>1 DEF IAppStartTimer, TypeOK, TypeShared
<1>2. Same(x, 0 .. 6)
    BY <1>1, <1>s, SameStages DEF Same
<1>3. m \in ToIApp /\ m.type = "E42_SETUP_REQ"
    BY DEF ToIApp
<1>. HIDE DEF m
<1>4. Same(x, {7})
  <2>. SUFFICES ASSUME NEW t \in E2Answers, NEW h \in Nat, NEW n \in Nodes, NEW i \in Nat
                PROVE  MsgAt(x, t, h, 7, n, i)' <=> MsgAt(x, t, h, 7, n, i)
    BY DEF Same
  <2>. QED
    BY <1>1, <1>3, <1>s, IAppGets
<1>. QED
    BY <1>2, <1>4 DEF Same

LEMMA MoveXAsk ==
    ASSUME TypeOK, RoutingInv, OwnersInv, WaitsInv, [Next]_vars, NEW x \in XApps, NEW y \in XApps,
           NEW c \in {"SUB_REQ", "DEL_REQ", "CTRL_REQ"}, NEW g \in Nat, NEW k \in Nodes,
           NEW f \in RanFuncs, xst[y] = "idle",
           iappIn' = Append(iappIn, [type |-> c, xid |-> xid[y], h |-> g, node |-> k, rf |-> f]),
           UNCHANGED <<ricVars, iappVars, ricIn, xIn, agIn, agSubs, reqId>>
    PROVE  IF x = y THEN XAsks(x, AnswerTo(c), g, k) ELSE Same(x, 0 .. 7)
<1>. DEFINE m == [type |-> c, xid |-> xid[y], h |-> g, node |-> k, rf |-> f]
<1>s. ~IAppStartTimer
    BY DEF IAppStartTimer, TypeOK, TypeShared
<1>1. Same(x, 0 .. 6)
  <2>1. Same(x, {0}) /\ Same(x, {1}) /\ Same(x, {2}) /\ Same(x, {3}) /\ Same(x, {4})
        /\ Same(x, {5, 6})
    BY <1>s, SameStages
  <2>. QED
    BY <2>1 DEF Same
<1>2. Registered(y) /\ Known(xid[y])
    BY DEF WaitsInv, Known
<1>3. m \in ToIApp /\ m.type # "E42_SETUP_REQ" /\ Known(m.xid) /\ m.xid = xid[y] /\ m.type = c
      /\ m.h = g /\ m.node = k
    BY <1>2 DEF ToIApp, TypeOK, TypeXApps
<1>4. iappIn' = Append(iappIn, m)
    OBVIOUS
<1>. HIDE DEF m
<1>5. ASSUME NEW t \in E2Answers, NEW h \in Nat, NEW n \in Nodes, NEW i \in Nat
      PROVE  /\ Len(iappIn) \in Nat
             /\ MsgAt(x, t, h, 7, n, i) => i \in 1 .. Len(iappIn)
             /\ MsgAt(x, t, h, 7, n, i)' <=>
                  \/ MsgAt(x, t, h, 7, n, i)
                  \/ i = Len(iappIn) + 1 /\ x = y /\ t = AnswerTo(c) /\ h = g /\ n = k
  <2>1. /\ Len(iappIn) \in Nat
        /\ MsgAt(x, t, h, 7, n, i) => i \in 1 .. Len(iappIn)
        /\ MsgAt(x, t, h, 7, n, i)' <=>
             \/ MsgAt(x, t, h, 7, n, i)
             \/ i = Len(iappIn) + 1 /\ AsksFor(m, x, t, h, n)
    BY <1>3, <1>4, <1>s, IAppGets
  <2>2. AsksFor(m, x, t, h, n) <=> x = y /\ t = AnswerTo(c) /\ h = g /\ n = k
    BY <1>2, <1>3, IdsDiffer DEF AsksFor
  <2>. QED
    BY <2>1, <2>2
<1>6. CASE x = y
    BY <1>1, <1>5, <1>6 DEF XAsks, E2Answers
<1>7. CASE x # y
    BY <1>1, <1>5, <1>7 DEF Same
<1>. QED
    BY <1>6, <1>7

-----------------------------------------------------------------------------
(* Tokens: a request, or the answer to it *)

\* A token comes from the same stage or from the one before it.
CameFrom(s0, s) ==
    /\ s = 0 => s0 = 0 \/ (s0 = 1 /\ rpc = "notify")
    /\ s = 1 => s0 = 1 \/ (s0 = 2 /\ rpc' = "lookup")
    /\ s = 6 => s0 \in {6, 7}
    /\ s = 7 => s0 = 7

Follow(x) ==
    /\ \A t \in AnswerTypes, h \in Nat, s \in 0 .. 7, n \in Nodes, i \in Nat :
         MsgAt(x, t, h, s, n, i)' =>
           \E s0 \in 0 .. 7, i0 \in Nat : MsgAt(x, t, h, s0, n, i0) /\ CameFrom(s0, s)
    /\ Unique(x)'

LEMMA OnlyToken ==
    ASSUME NEW x \in XApps, Unique(x), NEW t \in AnswerTypes, NEW h \in Nat,
           NEW s \in 0 .. 7, NEW n \in Nodes, NEW i \in Nat, MsgAt(x, t, h, s, n, i),
           NEW s2 \in 0 .. 7, NEW n2 \in Nodes, NEW i2 \in Nat, MsgAt(x, t, h, s2, n2, i2)
    PROVE  s = s2 /\ n = n2 /\ i = i2
<1>1. \A j, j2 \in 0 .. 7, m, m2 \in Nodes, l, l2 \in Nat :
        MsgAt(x, t, h, j, m, l) /\ MsgAt(x, t, h, j2, m2, l2) => j2 = j /\ m2 = m /\ l2 = l
    BY Zenon DEF Unique
<1>. QED
    BY <1>1

LEMMA FollowSame ==
    ASSUME NEW x \in XApps, Unique(x), Same(x, 0 .. 7)
    PROVE  Follow(x)
<1>. SUFFICES ASSUME NEW t \in AnswerTypes, NEW h \in Nat
     PROVE  /\ \A s \in 0 .. 7, n \in Nodes, i \in Nat : MsgAt(x, t, h, s, n, i)' =>
                 \E s0 \in 0 .. 7, i0 \in Nat : MsgAt(x, t, h, s0, n, i0) /\ CameFrom(s0, s)
            /\ \A s, s2 \in 0 .. 7, n, n2 \in Nodes, i, i2 \in Nat :
                 MsgAt(x, t, h, s, n, i)' /\ MsgAt(x, t, h, s2, n2, i2)'
                   => s2 = s /\ n2 = n /\ i2 = i
    BY DEF Follow, Unique
<1>. DEFINE K(s0, i0, n, s, i) ==
                     s0 = s /\ i0 = i
<1>1. t \in E2Answers /\ t # "IND"
    BY DEF AnswerTypes
<1>2. ASSUME NEW s \in 0 .. 7, NEW n \in Nodes, NEW i \in Nat, MsgAt(x, t, h, s, n, i)'
      PROVE  \E s0 \in 0 .. 7, i0 \in Nat : MsgAt(x, t, h, s0, n, i0) /\ K(s0, i0, n, s, i)
    BY <1>1, <1>2 DEF Same
<1>. HIDE DEF K
<1>3. ASSUME NEW s \in 0 .. 7, NEW n \in Nodes, NEW i \in Nat, MsgAt(x, t, h, s, n, i)'
      PROVE  \E s0 \in 0 .. 7, i0 \in Nat : MsgAt(x, t, h, s0, n, i0) /\ CameFrom(s0, s)
  <2>1. PICK s0 \in 0 .. 7, i0 \in Nat : MsgAt(x, t, h, s0, n, i0) /\ K(s0, i0, n, s, i)
    BY <1>2, <1>3
  <2>2. CameFrom(s0, s)
    BY <2>1 DEF CameFrom, K
  <2>. QED
    BY <2>1, <2>2
<1>4. ASSUME NEW s \in 0 .. 7, NEW n \in Nodes, NEW i \in Nat, MsgAt(x, t, h, s, n, i)',
             NEW s2 \in 0 .. 7, NEW n2 \in Nodes, NEW i2 \in Nat, MsgAt(x, t, h, s2, n2, i2)'
      PROVE  s2 = s /\ n2 = n /\ i2 = i
  <2>1. PICK s0 \in 0 .. 7, i0 \in Nat : MsgAt(x, t, h, s0, n, i0) /\ K(s0, i0, n, s, i)
    BY <1>2, <1>4
  <2>2. PICK s3 \in 0 .. 7, i3 \in Nat : MsgAt(x, t, h, s3, n2, i3) /\ K(s3, i3, n2, s2, i2)
    BY <1>2, <1>4
  <2>3. s0 = s3 /\ n = n2 /\ i0 = i3
    BY <2>1, <2>2, OnlyToken
  <2>. QED
    BY <2>1, <2>2, <2>3 DEF K
<1>5. \A s \in 0 .. 7, n \in Nodes, i \in Nat : MsgAt(x, t, h, s, n, i)' =>
        \E s0 \in 0 .. 7, i0 \in Nat : MsgAt(x, t, h, s0, n, i0) /\ CameFrom(s0, s)
    BY <1>3, Zenon
<1>6. \A s, s2 \in 0 .. 7, n, n2 \in Nodes, i, i2 \in Nat :
        MsgAt(x, t, h, s, n, i)' /\ MsgAt(x, t, h, s2, n2, i2)' => s2 = s /\ n2 = n /\ i2 = i
    BY <1>4
<1>. QED
    BY <1>5, <1>6, Zenon

LEMMA FollowRicTakes ==
    ASSUME NEW x \in XApps, Unique(x), RicTakes(x), rpc' = "lookup"
    PROVE  Follow(x)
<1>. SUFFICES ASSUME NEW t \in AnswerTypes, NEW h \in Nat
     PROVE  /\ \A s \in 0 .. 7, n \in Nodes, i \in Nat : MsgAt(x, t, h, s, n, i)' =>
                 \E s0 \in 0 .. 7, i0 \in Nat : MsgAt(x, t, h, s0, n, i0) /\ CameFrom(s0, s)
            /\ \A s, s2 \in 0 .. 7, n, n2 \in Nodes, i, i2 \in Nat :
                 MsgAt(x, t, h, s, n, i)' /\ MsgAt(x, t, h, s2, n2, i2)'
                   => s2 = s /\ n2 = n /\ i2 = i
    BY DEF Follow, Unique
<1>. DEFINE K(s0, i0, n, s, i) ==
                     \/ s \notin {1, 2} /\ s0 = s /\ i0 = i
                     \/ s = 1 /\ i = 0 /\ s0 = 2 /\ i0 = 1
                     \/ s = 2 /\ i > 0 /\ s0 = 2 /\ i0 = i + 1
<1>1. t \in E2Answers /\ t # "IND"
    BY DEF AnswerTypes
<1>2. ASSUME NEW s \in 0 .. 7, NEW n \in Nodes, NEW i \in Nat, MsgAt(x, t, h, s, n, i)'
      PROVE  \E s0 \in 0 .. 7, i0 \in Nat : MsgAt(x, t, h, s0, n, i0) /\ K(s0, i0, n, s, i)
  <2>1. CASE s \in {0, 3, 4, 5, 6, 7}
    BY <1>1, <1>2, <2>1 DEF RicTakes, Same
  <2>2. CASE s = 1
    BY <1>1, <1>2, <2>2 DEF RicTakes
  <2>3. CASE s = 2
    BY <1>1, <1>2, <2>3 DEF RicTakes
  <2>. QED
    BY <2>1, <2>2, <2>3
<1>. HIDE DEF K
<1>3. ASSUME NEW s \in 0 .. 7, NEW n \in Nodes, NEW i \in Nat, MsgAt(x, t, h, s, n, i)'
      PROVE  \E s0 \in 0 .. 7, i0 \in Nat : MsgAt(x, t, h, s0, n, i0) /\ CameFrom(s0, s)
  <2>1. PICK s0 \in 0 .. 7, i0 \in Nat : MsgAt(x, t, h, s0, n, i0) /\ K(s0, i0, n, s, i)
    BY <1>2, <1>3
  <2>2. CameFrom(s0, s)
    BY <2>1 DEF CameFrom, K
  <2>. QED
    BY <2>1, <2>2
<1>4. ASSUME NEW s \in 0 .. 7, NEW n \in Nodes, NEW i \in Nat, MsgAt(x, t, h, s, n, i)',
             NEW s2 \in 0 .. 7, NEW n2 \in Nodes, NEW i2 \in Nat, MsgAt(x, t, h, s2, n2, i2)'
      PROVE  s2 = s /\ n2 = n /\ i2 = i
  <2>1. PICK s0 \in 0 .. 7, i0 \in Nat : MsgAt(x, t, h, s0, n, i0) /\ K(s0, i0, n, s, i)
    BY <1>2, <1>4
  <2>2. PICK s3 \in 0 .. 7, i3 \in Nat : MsgAt(x, t, h, s3, n2, i3) /\ K(s3, i3, n2, s2, i2)
    BY <1>2, <1>4
  <2>3. s0 = s3 /\ n = n2 /\ i0 = i3
    BY <2>1, <2>2, OnlyToken
  <2>. QED
    BY <2>1, <2>2, <2>3 DEF K
<1>5. \A s \in 0 .. 7, n \in Nodes, i \in Nat : MsgAt(x, t, h, s, n, i)' =>
        \E s0 \in 0 .. 7, i0 \in Nat : MsgAt(x, t, h, s0, n, i0) /\ CameFrom(s0, s)
    BY <1>3, Zenon
<1>6. \A s, s2 \in 0 .. 7, n, n2 \in Nodes, i, i2 \in Nat :
        MsgAt(x, t, h, s, n, i)' /\ MsgAt(x, t, h, s2, n2, i2)' => s2 = s /\ n2 = n /\ i2 = i
    BY <1>4
<1>. QED
    BY <1>5, <1>6, Zenon

LEMMA FollowRicDrops ==
    ASSUME NEW x \in XApps, Unique(x), RicDrops(x)
    PROVE  Follow(x)
<1>. SUFFICES ASSUME NEW t \in AnswerTypes, NEW h \in Nat
     PROVE  /\ \A s \in 0 .. 7, n \in Nodes, i \in Nat : MsgAt(x, t, h, s, n, i)' =>
                 \E s0 \in 0 .. 7, i0 \in Nat : MsgAt(x, t, h, s0, n, i0) /\ CameFrom(s0, s)
            /\ \A s, s2 \in 0 .. 7, n, n2 \in Nodes, i, i2 \in Nat :
                 MsgAt(x, t, h, s, n, i)' /\ MsgAt(x, t, h, s2, n2, i2)'
                   => s2 = s /\ n2 = n /\ i2 = i
    BY DEF Follow, Unique
<1>. DEFINE K(s0, i0, n, s, i) ==
                     \/ s # 2 /\ s0 = s /\ i0 = i
                     \/ s = 2 /\ i > 0 /\ s0 = 2 /\ i0 = i + 1
<1>1. t \in E2Answers /\ t # "IND"
    BY DEF AnswerTypes
<1>2. ASSUME NEW s \in 0 .. 7, NEW n \in Nodes, NEW i \in Nat, MsgAt(x, t, h, s, n, i)'
      PROVE  \E s0 \in 0 .. 7, i0 \in Nat : MsgAt(x, t, h, s0, n, i0) /\ K(s0, i0, n, s, i)
  <2>1. CASE s \in {0, 1, 3, 4, 5, 6, 7}
    BY <1>1, <1>2, <2>1 DEF RicDrops, Same
  <2>2. CASE s = 2
    BY <1>1, <1>2, <2>2 DEF RicDrops
  <2>. QED
    BY <2>1, <2>2
<1>. HIDE DEF K
<1>3. ASSUME NEW s \in 0 .. 7, NEW n \in Nodes, NEW i \in Nat, MsgAt(x, t, h, s, n, i)'
      PROVE  \E s0 \in 0 .. 7, i0 \in Nat : MsgAt(x, t, h, s0, n, i0) /\ CameFrom(s0, s)
  <2>1. PICK s0 \in 0 .. 7, i0 \in Nat : MsgAt(x, t, h, s0, n, i0) /\ K(s0, i0, n, s, i)
    BY <1>2, <1>3
  <2>2. CameFrom(s0, s)
    BY <2>1 DEF CameFrom, K
  <2>. QED
    BY <2>1, <2>2
<1>4. ASSUME NEW s \in 0 .. 7, NEW n \in Nodes, NEW i \in Nat, MsgAt(x, t, h, s, n, i)',
             NEW s2 \in 0 .. 7, NEW n2 \in Nodes, NEW i2 \in Nat, MsgAt(x, t, h, s2, n2, i2)'
      PROVE  s2 = s /\ n2 = n /\ i2 = i
  <2>1. PICK s0 \in 0 .. 7, i0 \in Nat : MsgAt(x, t, h, s0, n, i0) /\ K(s0, i0, n, s, i)
    BY <1>2, <1>4
  <2>2. PICK s3 \in 0 .. 7, i3 \in Nat : MsgAt(x, t, h, s3, n2, i3) /\ K(s3, i3, n2, s2, i2)
    BY <1>2, <1>4
  <2>3. s0 = s3 /\ n = n2 /\ i0 = i3
    BY <2>1, <2>2, OnlyToken
  <2>. QED
    BY <2>1, <2>2, <2>3 DEF K
<1>5. \A s \in 0 .. 7, n \in Nodes, i \in Nat : MsgAt(x, t, h, s, n, i)' =>
        \E s0 \in 0 .. 7, i0 \in Nat : MsgAt(x, t, h, s0, n, i0) /\ CameFrom(s0, s)
    BY <1>3, Zenon
<1>6. \A s, s2 \in 0 .. 7, n, n2 \in Nodes, i, i2 \in Nat :
        MsgAt(x, t, h, s, n, i)' /\ MsgAt(x, t, h, s2, n2, i2)' => s2 = s /\ n2 = n /\ i2 = i
    BY <1>4
<1>. QED
    BY <1>5, <1>6, Zenon

LEMMA FollowRicTells ==
    ASSUME NEW x \in XApps, Unique(x), RicTells(x), rpc = "notify"
    PROVE  Follow(x)
<1>. SUFFICES ASSUME NEW t \in AnswerTypes, NEW h \in Nat
     PROVE  /\ \A s \in 0 .. 7, n \in Nodes, i \in Nat : MsgAt(x, t, h, s, n, i)' =>
                 \E s0 \in 0 .. 7, i0 \in Nat : MsgAt(x, t, h, s0, n, i0) /\ CameFrom(s0, s)
            /\ \A s, s2 \in 0 .. 7, n, n2 \in Nodes, i, i2 \in Nat :
                 MsgAt(x, t, h, s, n, i)' /\ MsgAt(x, t, h, s2, n2, i2)'
                   => s2 = s /\ n2 = n /\ i2 = i
    BY DEF Follow, Unique
<1>. DEFINE K(s0, i0, n, s, i) ==
                     \/ s # 1 /\ s0 = s /\ i0 = i /\ (s = 0 => i # Len(xIn[x]) + 1)
                     \/ s = 0 /\ i = Len(xIn[x]) + 1 /\ s0 = 1 /\ i0 = 0
<1>1. t \in E2Answers /\ t # "IND"
    BY DEF AnswerTypes
<1>2. ASSUME NEW s \in 0 .. 7, NEW n \in Nodes, NEW i \in Nat, MsgAt(x, t, h, s, n, i)'
      PROVE  \E s0 \in 0 .. 7, i0 \in Nat : MsgAt(x, t, h, s0, n, i0) /\ K(s0, i0, n, s, i)
  <2>1. CASE s \in {2, 3, 4, 5, 6, 7}
    BY <1>1, <1>2, <2>1 DEF RicTells, Same
  <2>2. CASE s = 0
    BY <1>1, <1>2, <2>2 DEF RicTells
  <2>3. CASE s = 1
    BY <1>1, <1>2, <2>3 DEF RicTells
  <2>. QED
    BY <2>1, <2>2, <2>3
<1>. HIDE DEF K
<1>3. ASSUME NEW s \in 0 .. 7, NEW n \in Nodes, NEW i \in Nat, MsgAt(x, t, h, s, n, i)'
      PROVE  \E s0 \in 0 .. 7, i0 \in Nat : MsgAt(x, t, h, s0, n, i0) /\ CameFrom(s0, s)
  <2>1. PICK s0 \in 0 .. 7, i0 \in Nat : MsgAt(x, t, h, s0, n, i0) /\ K(s0, i0, n, s, i)
    BY <1>2, <1>3
  <2>2. CameFrom(s0, s)
    BY <2>1 DEF CameFrom, K
  <2>. QED
    BY <2>1, <2>2
<1>4. ASSUME NEW s \in 0 .. 7, NEW n \in Nodes, NEW i \in Nat, MsgAt(x, t, h, s, n, i)',
             NEW s2 \in 0 .. 7, NEW n2 \in Nodes, NEW i2 \in Nat, MsgAt(x, t, h, s2, n2, i2)'
      PROVE  s2 = s /\ n2 = n /\ i2 = i
  <2>1. PICK s0 \in 0 .. 7, i0 \in Nat : MsgAt(x, t, h, s0, n, i0) /\ K(s0, i0, n, s, i)
    BY <1>2, <1>4
  <2>2. PICK s3 \in 0 .. 7, i3 \in Nat : MsgAt(x, t, h, s3, n2, i3) /\ K(s3, i3, n2, s2, i2)
    BY <1>2, <1>4
  <2>3. s0 = s3 /\ n = n2 /\ i0 = i3
    BY <2>1, <2>2, OnlyToken
  <2>. QED
    BY <2>1, <2>2, <2>3 DEF K
<1>5. \A s \in 0 .. 7, n \in Nodes, i \in Nat : MsgAt(x, t, h, s, n, i)' =>
        \E s0 \in 0 .. 7, i0 \in Nat : MsgAt(x, t, h, s0, n, i0) /\ CameFrom(s0, s)
    BY <1>3, Zenon
<1>6. \A s, s2 \in 0 .. 7, n, n2 \in Nodes, i, i2 \in Nat :
        MsgAt(x, t, h, s, n, i)' /\ MsgAt(x, t, h, s2, n2, i2)' => s2 = s /\ n2 = n /\ i2 = i
    BY <1>4
<1>. QED
    BY <1>5, <1>6, Zenon

LEMMA FollowIAppTakes ==
    ASSUME NEW x \in XApps, Unique(x), IAppTakes(x)
    PROVE  Follow(x)
<1>. SUFFICES ASSUME NEW t \in AnswerTypes, NEW h \in Nat
     PROVE  /\ \A s \in 0 .. 7, n \in Nodes, i \in Nat : MsgAt(x, t, h, s, n, i)' =>
                 \E s0 \in 0 .. 7, i0 \in Nat : MsgAt(x, t, h, s0, n, i0) /\ CameFrom(s0, s)
            /\ \A s, s2 \in 0 .. 7, n, n2 \in Nodes, i, i2 \in Nat :
                 MsgAt(x, t, h, s, n, i)' /\ MsgAt(x, t, h, s2, n2, i2)'
                   => s2 = s /\ n2 = n /\ i2 = i
    BY DEF Follow, Unique
<1>. DEFINE K(s0, i0, n, s, i) ==
                     \/ s \notin {6, 7} /\ s0 = s /\ i0 = i
                     \/ s = 6 /\ i = 0 /\ s0 = 7 /\ i0 = 1
                     \/ s = 7 /\ i > 0 /\ s0 = 7 /\ i0 = i + 1
<1>1. t \in E2Answers /\ t # "IND"
    BY DEF AnswerTypes
<1>2. ASSUME NEW s \in 0 .. 7, NEW n \in Nodes, NEW i \in Nat, MsgAt(x, t, h, s, n, i)'
      PROVE  \E s0 \in 0 .. 7, i0 \in Nat : MsgAt(x, t, h, s0, n, i0) /\ K(s0, i0, n, s, i)
  <2>1. CASE s \in {0, 1, 2, 3, 4, 5}
    BY <1>1, <1>2, <2>1 DEF IAppTakes, Same
  <2>2. CASE s = 6
    BY <1>1, <1>2, <2>2 DEF IAppTakes
  <2>3. CASE s = 7
    BY <1>1, <1>2, <2>3 DEF IAppTakes
  <2>. QED
    BY <2>1, <2>2, <2>3
<1>. HIDE DEF K
<1>3. ASSUME NEW s \in 0 .. 7, NEW n \in Nodes, NEW i \in Nat, MsgAt(x, t, h, s, n, i)'
      PROVE  \E s0 \in 0 .. 7, i0 \in Nat : MsgAt(x, t, h, s0, n, i0) /\ CameFrom(s0, s)
  <2>1. PICK s0 \in 0 .. 7, i0 \in Nat : MsgAt(x, t, h, s0, n, i0) /\ K(s0, i0, n, s, i)
    BY <1>2, <1>3
  <2>2. CameFrom(s0, s)
    BY <2>1 DEF CameFrom, K
  <2>. QED
    BY <2>1, <2>2
<1>4. ASSUME NEW s \in 0 .. 7, NEW n \in Nodes, NEW i \in Nat, MsgAt(x, t, h, s, n, i)',
             NEW s2 \in 0 .. 7, NEW n2 \in Nodes, NEW i2 \in Nat, MsgAt(x, t, h, s2, n2, i2)'
      PROVE  s2 = s /\ n2 = n /\ i2 = i
  <2>1. PICK s0 \in 0 .. 7, i0 \in Nat : MsgAt(x, t, h, s0, n, i0) /\ K(s0, i0, n, s, i)
    BY <1>2, <1>4
  <2>2. PICK s3 \in 0 .. 7, i3 \in Nat : MsgAt(x, t, h, s3, n2, i3) /\ K(s3, i3, n2, s2, i2)
    BY <1>2, <1>4
  <2>3. s0 = s3 /\ n = n2 /\ i0 = i3
    BY <2>1, <2>2, OnlyToken
  <2>. QED
    BY <2>1, <2>2, <2>3 DEF K
<1>5. \A s \in 0 .. 7, n \in Nodes, i \in Nat : MsgAt(x, t, h, s, n, i)' =>
        \E s0 \in 0 .. 7, i0 \in Nat : MsgAt(x, t, h, s0, n, i0) /\ CameFrom(s0, s)
    BY <1>3, Zenon
<1>6. \A s, s2 \in 0 .. 7, n, n2 \in Nodes, i, i2 \in Nat :
        MsgAt(x, t, h, s, n, i)' /\ MsgAt(x, t, h, s2, n2, i2)' => s2 = s /\ n2 = n /\ i2 = i
    BY <1>4
<1>. QED
    BY <1>5, <1>6, Zenon

LEMMA FollowIAppDrops ==
    ASSUME NEW x \in XApps, Unique(x), IAppDrops(x)
    PROVE  Follow(x)
<1>. SUFFICES ASSUME NEW t \in AnswerTypes, NEW h \in Nat
     PROVE  /\ \A s \in 0 .. 7, n \in Nodes, i \in Nat : MsgAt(x, t, h, s, n, i)' =>
                 \E s0 \in 0 .. 7, i0 \in Nat : MsgAt(x, t, h, s0, n, i0) /\ CameFrom(s0, s)
            /\ \A s, s2 \in 0 .. 7, n, n2 \in Nodes, i, i2 \in Nat :
                 MsgAt(x, t, h, s, n, i)' /\ MsgAt(x, t, h, s2, n2, i2)'
                   => s2 = s /\ n2 = n /\ i2 = i
    BY DEF Follow, Unique
<1>. DEFINE K(s0, i0, n, s, i) ==
                     \/ s # 7 /\ s0 = s /\ i0 = i
                     \/ s = 7 /\ i > 0 /\ s0 = 7 /\ i0 = i + 1
<1>1. t \in E2Answers /\ t # "IND"
    BY DEF AnswerTypes
<1>2. ASSUME NEW s \in 0 .. 7, NEW n \in Nodes, NEW i \in Nat, MsgAt(x, t, h, s, n, i)'
      PROVE  \E s0 \in 0 .. 7, i0 \in Nat : MsgAt(x, t, h, s0, n, i0) /\ K(s0, i0, n, s, i)
  <2>1. CASE s \in {0, 1, 2, 3, 4, 5, 6}
    BY <1>1, <1>2, <2>1 DEF IAppDrops, Same
  <2>2. CASE s = 7
    BY <1>1, <1>2, <2>2 DEF IAppDrops
  <2>. QED
    BY <2>1, <2>2
<1>. HIDE DEF K
<1>3. ASSUME NEW s \in 0 .. 7, NEW n \in Nodes, NEW i \in Nat, MsgAt(x, t, h, s, n, i)'
      PROVE  \E s0 \in 0 .. 7, i0 \in Nat : MsgAt(x, t, h, s0, n, i0) /\ CameFrom(s0, s)
  <2>1. PICK s0 \in 0 .. 7, i0 \in Nat : MsgAt(x, t, h, s0, n, i0) /\ K(s0, i0, n, s, i)
    BY <1>2, <1>3
  <2>2. CameFrom(s0, s)
    BY <2>1 DEF CameFrom, K
  <2>. QED
    BY <2>1, <2>2
<1>4. ASSUME NEW s \in 0 .. 7, NEW n \in Nodes, NEW i \in Nat, MsgAt(x, t, h, s, n, i)',
             NEW s2 \in 0 .. 7, NEW n2 \in Nodes, NEW i2 \in Nat, MsgAt(x, t, h, s2, n2, i2)'
      PROVE  s2 = s /\ n2 = n /\ i2 = i
  <2>1. PICK s0 \in 0 .. 7, i0 \in Nat : MsgAt(x, t, h, s0, n, i0) /\ K(s0, i0, n, s, i)
    BY <1>2, <1>4
  <2>2. PICK s3 \in 0 .. 7, i3 \in Nat : MsgAt(x, t, h, s3, n2, i3) /\ K(s3, i3, n2, s2, i2)
    BY <1>2, <1>4
  <2>3. s0 = s3 /\ n = n2 /\ i0 = i3
    BY <2>1, <2>2, OnlyToken
  <2>. QED
    BY <2>1, <2>2, <2>3 DEF K
<1>5. \A s \in 0 .. 7, n \in Nodes, i \in Nat : MsgAt(x, t, h, s, n, i)' =>
        \E s0 \in 0 .. 7, i0 \in Nat : MsgAt(x, t, h, s0, n, i0) /\ CameFrom(s0, s)
    BY <1>3, Zenon
<1>6. \A s, s2 \in 0 .. 7, n, n2 \in Nodes, i, i2 \in Nat :
        MsgAt(x, t, h, s, n, i)' /\ MsgAt(x, t, h, s2, n2, i2)' => s2 = s /\ n2 = n /\ i2 = i
    BY <1>4
<1>. QED
    BY <1>5, <1>6, Zenon

LEMMA FollowIAppArms ==
    ASSUME NEW x \in XApps, Unique(x), IAppArms(x)
    PROVE  Follow(x)
<1>. SUFFICES ASSUME NEW t \in AnswerTypes, NEW h \in Nat
     PROVE  /\ \A s \in 0 .. 7, n \in Nodes, i \in Nat : MsgAt(x, t, h, s, n, i)' =>
                 \E s0 \in 0 .. 7, i0 \in Nat : MsgAt(x, t, h, s0, n, i0) /\ CameFrom(s0, s)
            /\ \A s, s2 \in 0 .. 7, n, n2 \in Nodes, i, i2 \in Nat :
                 MsgAt(x, t, h, s, n, i)' /\ MsgAt(x, t, h, s2, n2, i2)'
                   => s2 = s /\ n2 = n /\ i2 = i
    BY DEF Follow, Unique
<1>. DEFINE K(s0, i0, n, s, i) ==
                     \/ s \notin {5, 6} /\ s0 = s /\ i0 = i
                     \/ s = 5 /\ i = 0 /\ s0 = 6 /\ i0 = 0
<1>1. t \in E2Answers /\ t # "IND"
    BY DEF AnswerTypes
<1>2. ASSUME NEW s \in 0 .. 7, NEW n \in Nodes, NEW i \in Nat, MsgAt(x, t, h, s, n, i)'
      PROVE  \E s0 \in 0 .. 7, i0 \in Nat : MsgAt(x, t, h, s0, n, i0) /\ K(s0, i0, n, s, i)
  <2>1. CASE s \in {0, 7}
    BY <1>1, <1>2, <2>1 DEF IAppArms, Same
  <2>2. CASE s = 1
    BY <1>1, <1>2, <2>2 DEF IAppArms
  <2>3. CASE s \in {2, 3, 4}
    BY <1>1, <1>2, <2>3 DEF IAppArms, Same
  <2>4. CASE s \in {5, 6}
    BY <1>1, <1>2, <2>4 DEF IAppArms
  <2>. QED
    BY <2>1, <2>2, <2>3, <2>4
<1>. HIDE DEF K
<1>3. ASSUME NEW s \in 0 .. 7, NEW n \in Nodes, NEW i \in Nat, MsgAt(x, t, h, s, n, i)'
      PROVE  \E s0 \in 0 .. 7, i0 \in Nat : MsgAt(x, t, h, s0, n, i0) /\ CameFrom(s0, s)
  <2>1. PICK s0 \in 0 .. 7, i0 \in Nat : MsgAt(x, t, h, s0, n, i0) /\ K(s0, i0, n, s, i)
    BY <1>2, <1>3
  <2>2. CameFrom(s0, s)
    BY <2>1 DEF CameFrom, K
  <2>. QED
    BY <2>1, <2>2
<1>4. ASSUME NEW s \in 0 .. 7, NEW n \in Nodes, NEW i \in Nat, MsgAt(x, t, h, s, n, i)',
             NEW s2 \in 0 .. 7, NEW n2 \in Nodes, NEW i2 \in Nat, MsgAt(x, t, h, s2, n2, i2)'
      PROVE  s2 = s /\ n2 = n /\ i2 = i
  <2>1. PICK s0 \in 0 .. 7, i0 \in Nat : MsgAt(x, t, h, s0, n, i0) /\ K(s0, i0, n, s, i)
    BY <1>2, <1>4
  <2>2. PICK s3 \in 0 .. 7, i3 \in Nat : MsgAt(x, t, h, s3, n2, i3) /\ K(s3, i3, n2, s2, i2)
    BY <1>2, <1>4
  <2>3. s0 = s3 /\ n = n2 /\ i0 = i3
    BY <2>1, <2>2, OnlyToken
  <2>. QED
    BY <2>1, <2>2, <2>3 DEF K
<1>5. \A s \in 0 .. 7, n \in Nodes, i \in Nat : MsgAt(x, t, h, s, n, i)' =>
        \E s0 \in 0 .. 7, i0 \in Nat : MsgAt(x, t, h, s0, n, i0) /\ CameFrom(s0, s)
    BY <1>3, Zenon
<1>6. \A s, s2 \in 0 .. 7, n, n2 \in Nodes, i, i2 \in Nat :
        MsgAt(x, t, h, s, n, i)' /\ MsgAt(x, t, h, s2, n2, i2)' => s2 = s /\ n2 = n /\ i2 = i
    BY <1>4
<1>. QED
    BY <1>5, <1>6, Zenon

LEMMA FollowIAppSends ==
    ASSUME NEW x \in XApps, Unique(x), IAppSends(x)
    PROVE  Follow(x)
<1>. SUFFICES ASSUME NEW t \in AnswerTypes, NEW h \in Nat
     PROVE  /\ \A s \in 0 .. 7, n \in Nodes, i \in Nat : MsgAt(x, t, h, s, n, i)' =>
                 \E s0 \in 0 .. 7, i0 \in Nat : MsgAt(x, t, h, s0, n, i0) /\ CameFrom(s0, s)
            /\ \A s, s2 \in 0 .. 7, n, n2 \in Nodes, i, i2 \in Nat :
                 MsgAt(x, t, h, s, n, i)' /\ MsgAt(x, t, h, s2, n2, i2)'
                   => s2 = s /\ n2 = n /\ i2 = i
    BY DEF Follow, Unique
<1>. DEFINE K(s0, i0, n, s, i) ==
                     \/ s # 5 /\ s0 = s /\ i0 = i /\ (s = 4 => i # Len(agIn[n]) + 1)
                     \/ s = 4 /\ i = Len(agIn[n]) + 1 /\ s0 = 5 /\ i0 = 0
<1>1. t \in E2Answers /\ t # "IND"
    BY DEF AnswerTypes
<1>2. ASSUME NEW s \in 0 .. 7, NEW n \in Nodes, NEW i \in Nat, MsgAt(x, t, h, s, n, i)'
      PROVE  \E s0 \in 0 .. 7, i0 \in Nat : MsgAt(x, t, h, s0, n, i0) /\ K(s0, i0, n, s, i)
  <2>1. CASE s \in {0, 1, 2, 3, 6, 7}
    BY <1>1, <1>2, <2>1 DEF IAppSends, Same
  <2>2. CASE s = 4
    BY <1>1, <1>2, <2>2 DEF IAppSends
  <2>3. CASE s = 5
    BY <1>1, <1>2, <2>3 DEF IAppSends
  <2>. QED
    BY <2>1, <2>2, <2>3
<1>. HIDE DEF K
<1>3. ASSUME NEW s \in 0 .. 7, NEW n \in Nodes, NEW i \in Nat, MsgAt(x, t, h, s, n, i)'
      PROVE  \E s0 \in 0 .. 7, i0 \in Nat : MsgAt(x, t, h, s0, n, i0) /\ CameFrom(s0, s)
  <2>1. PICK s0 \in 0 .. 7, i0 \in Nat : MsgAt(x, t, h, s0, n, i0) /\ K(s0, i0, n, s, i)
    BY <1>2, <1>3
  <2>2. CameFrom(s0, s)
    BY <2>1 DEF CameFrom, K
  <2>. QED
    BY <2>1, <2>2
<1>4. ASSUME NEW s \in 0 .. 7, NEW n \in Nodes, NEW i \in Nat, MsgAt(x, t, h, s, n, i)',
             NEW s2 \in 0 .. 7, NEW n2 \in Nodes, NEW i2 \in Nat, MsgAt(x, t, h, s2, n2, i2)'
      PROVE  s2 = s /\ n2 = n /\ i2 = i
  <2>1. PICK s0 \in 0 .. 7, i0 \in Nat : MsgAt(x, t, h, s0, n, i0) /\ K(s0, i0, n, s, i)
    BY <1>2, <1>4
  <2>2. PICK s3 \in 0 .. 7, i3 \in Nat : MsgAt(x, t, h, s3, n2, i3) /\ K(s3, i3, n2, s2, i2)
    BY <1>2, <1>4
  <2>3. s0 = s3 /\ n = n2 /\ i0 = i3
    BY <2>1, <2>2, OnlyToken
  <2>. QED
    BY <2>1, <2>2, <2>3 DEF K
<1>5. \A s \in 0 .. 7, n \in Nodes, i \in Nat : MsgAt(x, t, h, s, n, i)' =>
        \E s0 \in 0 .. 7, i0 \in Nat : MsgAt(x, t, h, s0, n, i0) /\ CameFrom(s0, s)
    BY <1>3, Zenon
<1>6. \A s, s2 \in 0 .. 7, n, n2 \in Nodes, i, i2 \in Nat :
        MsgAt(x, t, h, s, n, i)' /\ MsgAt(x, t, h, s2, n2, i2)' => s2 = s /\ n2 = n /\ i2 = i
    BY <1>4
<1>. QED
    BY <1>5, <1>6, Zenon

LEMMA FollowAgAnswers ==
    ASSUME NEW x \in XApps, Unique(x), NEW k \in Nodes, AgAnswers(x, k)
    PROVE  Follow(x)
<1>. SUFFICES ASSUME NEW t \in AnswerTypes, NEW h \in Nat
     PROVE  /\ \A s \in 0 .. 7, n \in Nodes, i \in Nat : MsgAt(x, t, h, s, n, i)' =>
                 \E s0 \in 0 .. 7, i0 \in Nat : MsgAt(x, t, h, s0, n, i0) /\ CameFrom(s0, s)
            /\ \A s, s2 \in 0 .. 7, n, n2 \in Nodes, i, i2 \in Nat :
                 MsgAt(x, t, h, s, n, i)' /\ MsgAt(x, t, h, s2, n2, i2)'
                   => s2 = s /\ n2 = n /\ i2 = i
    BY DEF Follow, Unique
<1>. DEFINE K(s0, i0, n, s, i) ==
                     \/ s \notin {2, 4} /\ s0 = s /\ i0 = i
                     \/ s = 2 /\ s0 = 2 /\ i0 = i /\ i # Len(ricIn) + 1
                     \/ s = 2 /\ i = Len(ricIn) + 1 /\ s0 = 4 /\ i0 = 1 /\ n = k
                     \/ s = 4 /\ n = k /\ i > 0 /\ s0 = 4 /\ i0 = i + 1
                     \/ s = 4 /\ n # k /\ s0 = 4 /\ i0 = i
<1>1. t \in E2Answers /\ t # "IND"
    BY DEF AnswerTypes
<1>2. ASSUME NEW s \in 0 .. 7, NEW n \in Nodes, NEW i \in Nat, MsgAt(x, t, h, s, n, i)'
      PROVE  \E s0 \in 0 .. 7, i0 \in Nat : MsgAt(x, t, h, s0, n, i0) /\ K(s0, i0, n, s, i)
  <2>1. CASE s \in {0, 1, 5, 6, 7}
    BY <1>1, <1>2, <2>1 DEF AgAnswers, Same
  <2>2. CASE s = 2
    BY <1>1, <1>2, <2>2 DEF AgAnswers
  <2>3. CASE s = 3
    BY <1>1, <1>2, <2>3 DEF AgAnswers, AnswerTypes
  <2>4. CASE s = 4
    BY <1>1, <1>2, <2>4 DEF AgAnswers
  <2>. QED
    BY <2>1, <2>2, <2>3, <2>4
<1>. HIDE DEF K
<1>3. ASSUME NEW s \in 0 .. 7, NEW n \in Nodes, NEW i \in Nat, MsgAt(x, t, h, s, n, i)'
      PROVE  \E s0 \in 0 .. 7, i0 \in Nat : MsgAt(x, t, h, s0, n, i0) /\ CameFrom(s0, s)
  <2>1. PICK s0 \in 0 .. 7, i0 \in Nat : MsgAt(x, t, h, s0, n, i0) /\ K(s0, i0, n, s, i)
    BY <1>2, <1>3
  <2>2. CameFrom(s0, s)
    BY <2>1 DEF CameFrom, K
  <2>. QED
    BY <2>1, <2>2
<1>4. ASSUME NEW s \in 0 .. 7, NEW n \in Nodes, NEW i \in Nat, MsgAt(x, t, h, s, n, i)',
             NEW s2 \in 0 .. 7, NEW n2 \in Nodes, NEW i2 \in Nat, MsgAt(x, t, h, s2, n2, i2)'
      PROVE  s2 = s /\ n2 = n /\ i2 = i
  <2>1. PICK s0 \in 0 .. 7, i0 \in Nat : MsgAt(x, t, h, s0, n, i0) /\ K(s0, i0, n, s, i)
    BY <1>2, <1>4
  <2>2. PICK s3 \in 0 .. 7, i3 \in Nat : MsgAt(x, t, h, s3, n2, i3) /\ K(s3, i3, n2, s2, i2)
    BY <1>2, <1>4
  <2>3. s0 = s3 /\ n = n2 /\ i0 = i3
    BY <2>1, <2>2, OnlyToken
  <2>. QED
    BY <2>1, <2>2, <2>3 DEF K
<1>5. \A s \in 0 .. 7, n \in Nodes, i \in Nat : MsgAt(x, t, h, s, n, i)' =>
        \E s0 \in 0 .. 7, i0 \in Nat : MsgAt(x, t, h, s0, n, i0) /\ CameFrom(s0, s)
    BY <1>3, Zenon
<1>6. \A s, s2 \in 0 .. 7, n, n2 \in Nodes, i, i2 \in Nat :
        MsgAt(x, t, h, s, n, i)' /\ MsgAt(x, t, h, s2, n2, i2)' => s2 = s /\ n2 = n /\ i2 = i
    BY <1>4
<1>. QED
    BY <1>5, <1>6, Zenon

LEMMA FollowAgReads ==
    ASSUME NEW x \in XApps, Unique(x), NEW k \in Nodes, AgReads(x, k)
    PROVE  Follow(x)
<1>. SUFFICES ASSUME NEW t \in AnswerTypes, NEW h \in Nat
     PROVE  /\ \A s \in 0 .. 7, n \in Nodes, i \in Nat : MsgAt(x, t, h, s, n, i)' =>
                 \E s0 \in 0 .. 7, i0 \in Nat : MsgAt(x, t, h, s0, n, i0) /\ CameFrom(s0, s)
            /\ \A s, s2 \in 0 .. 7, n, n2 \in Nodes, i, i2 \in Nat :
                 MsgAt(x, t, h, s, n, i)' /\ MsgAt(x, t, h, s2, n2, i2)'
                   => s2 = s /\ n2 = n /\ i2 = i
    BY DEF Follow, Unique
<1>. DEFINE K(s0, i0, n, s, i) ==
                     \/ s # 4 /\ s0 = s /\ i0 = i
                     \/ s = 4 /\ n = k /\ i > 0 /\ s0 = 4 /\ i0 = i + 1
                     \/ s = 4 /\ n # k /\ s0 = 4 /\ i0 = i
<1>1. t \in E2Answers /\ t # "IND"
    BY DEF AnswerTypes
<1>2. ASSUME NEW s \in 0 .. 7, NEW n \in Nodes, NEW i \in Nat, MsgAt(x, t, h, s, n, i)'
      PROVE  \E s0 \in 0 .. 7, i0 \in Nat : MsgAt(x, t, h, s0, n, i0) /\ K(s0, i0, n, s, i)
  <2>1. CASE s \in {0, 1, 2, 3, 5, 6, 7}
    BY <1>1, <1>2, <2>1 DEF AgReads, Same
  <2>2. CASE s = 4
    BY <1>1, <1>2, <2>2 DEF AgReads
  <2>. QED
    BY <2>1, <2>2
<1>. HIDE DEF K
<1>3. ASSUME NEW s \in 0 .. 7, NEW n \in Nodes, NEW i \in Nat, MsgAt(x, t, h, s, n, i)'
      PROVE  \E s0 \in 0 .. 7, i0 \in Nat : MsgAt(x, t, h, s0, n, i0) /\ CameFrom(s0, s)
  <2>1. PICK s0 \in 0 .. 7, i0 \in Nat : MsgAt(x, t, h, s0, n, i0) /\ K(s0, i0, n, s, i)
    BY <1>2, <1>3
  <2>2. CameFrom(s0, s)
    BY <2>1 DEF CameFrom, K
  <2>. QED
    BY <2>1, <2>2
<1>4. ASSUME NEW s \in 0 .. 7, NEW n \in Nodes, NEW i \in Nat, MsgAt(x, t, h, s, n, i)',
             NEW s2 \in 0 .. 7, NEW n2 \in Nodes, NEW i2 \in Nat, MsgAt(x, t, h, s2, n2, i2)'
      PROVE  s2 = s /\ n2 = n /\ i2 = i
  <2>1. PICK s0 \in 0 .. 7, i0 \in Nat : MsgAt(x, t, h, s0, n, i0) /\ K(s0, i0, n, s, i)
    BY <1>2, <1>4
  <2>2. PICK s3 \in 0 .. 7, i3 \in Nat : MsgAt(x, t, h, s3, n2, i3) /\ K(s3, i3, n2, s2, i2)
    BY <1>2, <1>4
  <2>3. s0 = s3 /\ n = n2 /\ i0 = i3
    BY <2>1, <2>2, OnlyToken
  <2>. QED
    BY <2>1, <2>2, <2>3 DEF K
<1>5. \A s \in 0 .. 7, n \in Nodes, i \in Nat : MsgAt(x, t, h, s, n, i)' =>
        \E s0 \in 0 .. 7, i0 \in Nat : MsgAt(x, t, h, s0, n, i0) /\ CameFrom(s0, s)
    BY <1>3, Zenon
<1>6. \A s, s2 \in 0 .. 7, n, n2 \in Nodes, i, i2 \in Nat :
        MsgAt(x, t, h, s, n, i)' /\ MsgAt(x, t, h, s2, n2, i2)' => s2 = s /\ n2 = n /\ i2 = i
    BY <1>4
<1>. QED
    BY <1>5, <1>6, Zenon

LEMMA FollowAgLoses ==
    ASSUME NEW x \in XApps, Unique(x), AgLoses(x)
    PROVE  Follow(x)
<1>. SUFFICES ASSUME NEW t \in AnswerTypes, NEW h \in Nat
     PROVE  /\ \A s \in 0 .. 7, n \in Nodes, i \in Nat : MsgAt(x, t, h, s, n, i)' =>
                 \E s0 \in 0 .. 7, i0 \in Nat : MsgAt(x, t, h, s0, n, i0) /\ CameFrom(s0, s)
            /\ \A s, s2 \in 0 .. 7, n, n2 \in Nodes, i, i2 \in Nat :
                 MsgAt(x, t, h, s, n, i)' /\ MsgAt(x, t, h, s2, n2, i2)'
                   => s2 = s /\ n2 = n /\ i2 = i
    BY DEF Follow, Unique
<1>. DEFINE K(s0, i0, n, s, i) ==
                     s0 = s /\ i0 = i
<1>1. t \in E2Answers /\ t # "IND"
    BY DEF AnswerTypes
<1>2. ASSUME NEW s \in 0 .. 7, NEW n \in Nodes, NEW i \in Nat, MsgAt(x, t, h, s, n, i)'
      PROVE  \E s0 \in 0 .. 7, i0 \in Nat : MsgAt(x, t, h, s0, n, i0) /\ K(s0, i0, n, s, i)
  <2>1. CASE s \in {0, 1, 2, 5, 6, 7}
    BY <1>1, <1>2, <2>1 DEF AgLoses, Same
  <2>2. CASE s \in {3, 4}
    BY <1>1, <1>2, <2>2 DEF AgLoses
  <2>. QED
    BY <2>1, <2>2
<1>. HIDE DEF K
<1>3. ASSUME NEW s \in 0 .. 7, NEW n \in Nodes, NEW i \in Nat, MsgAt(x, t, h, s, n, i)'
      PROVE  \E s0 \in 0 .. 7, i0 \in Nat : MsgAt(x, t, h, s0, n, i0) /\ CameFrom(s0, s)
  <2>1. PICK s0 \in 0 .. 7, i0 \in Nat : MsgAt(x, t, h, s0, n, i0) /\ K(s0, i0, n, s, i)
    BY <1>2, <1>3
  <2>2. CameFrom(s0, s)
    BY <2>1 DEF CameFrom, K
  <2>. QED
    BY <2>1, <2>2
<1>4. ASSUME NEW s \in 0 .. 7, NEW n \in Nodes, NEW i \in Nat, MsgAt(x, t, h, s, n, i)',
             NEW s2 \in 0 .. 7, NEW n2 \in Nodes, NEW i2 \in Nat, MsgAt(x, t, h, s2, n2, i2)'
      PROVE  s2 = s /\ n2 = n /\ i2 = i
  <2>1. PICK s0 \in 0 .. 7, i0 \in Nat : MsgAt(x, t, h, s0, n, i0) /\ K(s0, i0, n, s, i)
    BY <1>2, <1>4
  <2>2. PICK s3 \in 0 .. 7, i3 \in Nat : MsgAt(x, t, h, s3, n2, i3) /\ K(s3, i3, n2, s2, i2)
    BY <1>2, <1>4
  <2>3. s0 = s3 /\ n = n2 /\ i0 = i3
    BY <2>1, <2>2, OnlyToken
  <2>. QED
    BY <2>1, <2>2, <2>3 DEF K
<1>5. \A s \in 0 .. 7, n \in Nodes, i \in Nat : MsgAt(x, t, h, s, n, i)' =>
        \E s0 \in 0 .. 7, i0 \in Nat : MsgAt(x, t, h, s0, n, i0) /\ CameFrom(s0, s)
    BY <1>3, Zenon
<1>6. \A s, s2 \in 0 .. 7, n, n2 \in Nodes, i, i2 \in Nat :
        MsgAt(x, t, h, s, n, i)' /\ MsgAt(x, t, h, s2, n2, i2)' => s2 = s /\ n2 = n /\ i2 = i
    BY <1>4
<1>. QED
    BY <1>5, <1>6, Zenon

LEMMA FollowAgIndicates ==
    ASSUME NEW x \in XApps, Unique(x), AgIndicates(x)
    PROVE  Follow(x)
<1>. SUFFICES ASSUME NEW t \in AnswerTypes, NEW h \in Nat
     PROVE  /\ \A s \in 0 .. 7, n \in Nodes, i \in Nat : MsgAt(x, t, h, s, n, i)' =>
                 \E s0 \in 0 .. 7, i0 \in Nat : MsgAt(x, t, h, s0, n, i0) /\ CameFrom(s0, s)
            /\ \A s, s2 \in 0 .. 7, n, n2 \in Nodes, i, i2 \in Nat :
                 MsgAt(x, t, h, s, n, i)' /\ MsgAt(x, t, h, s2, n2, i2)'
                   => s2 = s /\ n2 = n /\ i2 = i
    BY DEF Follow, Unique
<1>. DEFINE K(s0, i0, n, s, i) ==
                     s0 = s /\ i0 = i
<1>1. t \in E2Answers /\ t # "IND"
    BY DEF AnswerTypes
<1>2. ASSUME NEW s \in 0 .. 7, NEW n \in Nodes, NEW i \in Nat, MsgAt(x, t, h, s, n, i)'
      PROVE  \E s0 \in 0 .. 7, i0 \in Nat : MsgAt(x, t, h, s0, n, i0) /\ K(s0, i0, n, s, i)
  <2>1. CASE s \in {0, 1, 3, 4, 5, 6, 7}
    BY <1>1, <1>2, <2>1 DEF AgIndicates, Same
  <2>2. CASE s = 2
    BY <1>1, <1>2, <2>2 DEF AgIndicates, AnswerTypes
  <2>. QED
    BY <2>1, <2>2
<1>. HIDE DEF K
<1>3. ASSUME NEW s \in 0 .. 7, NEW n \in Nodes, NEW i \in Nat, MsgAt(x, t, h, s, n, i)'
      PROVE  \E s0 \in 0 .. 7, i0 \in Nat : MsgAt(x, t, h, s0, n, i0) /\ CameFrom(s0, s)
  <2>1. PICK s0 \in 0 .. 7, i0 \in Nat : MsgAt(x, t, h, s0, n, i0) /\ K(s0, i0, n, s, i)
    BY <1>2, <1>3
  <2>2. CameFrom(s0, s)
    BY <2>1 DEF CameFrom, K
  <2>. QED
    BY <2>1, <2>2
<1>4. ASSUME NEW s \in 0 .. 7, NEW n \in Nodes, NEW i \in Nat, MsgAt(x, t, h, s, n, i)',
             NEW s2 \in 0 .. 7, NEW n2 \in Nodes, NEW i2 \in Nat, MsgAt(x, t, h, s2, n2, i2)'
      PROVE  s2 = s /\ n2 = n /\ i2 = i
  <2>1. PICK s0 \in 0 .. 7, i0 \in Nat : MsgAt(x, t, h, s0, n, i0) /\ K(s0, i0, n, s, i)
    BY <1>2, <1>4
  <2>2. PICK s3 \in 0 .. 7, i3 \in Nat : MsgAt(x, t, h, s3, n2, i3) /\ K(s3, i3, n2, s2, i2)
    BY <1>2, <1>4
  <2>3. s0 = s3 /\ n = n2 /\ i0 = i3
    BY <2>1, <2>2, OnlyToken
  <2>. QED
    BY <2>1, <2>2, <2>3 DEF K
<1>5. \A s \in 0 .. 7, n \in Nodes, i \in Nat : MsgAt(x, t, h, s, n, i)' =>
        \E s0 \in 0 .. 7, i0 \in Nat : MsgAt(x, t, h, s0, n, i0) /\ CameFrom(s0, s)
    BY <1>3, Zenon
<1>6. \A s, s2 \in 0 .. 7, n, n2 \in Nodes, i, i2 \in Nat :
        MsgAt(x, t, h, s, n, i)' /\ MsgAt(x, t, h, s2, n2, i2)' => s2 = s /\ n2 = n /\ i2 = i
    BY <1>4
<1>. QED
    BY <1>5, <1>6, Zenon

LEMMA FollowXReads ==
    ASSUME NEW x \in XApps, Unique(x), XReads(x)
    PROVE  Follow(x)
<1>. SUFFICES ASSUME NEW t \in AnswerTypes, NEW h \in Nat
     PROVE  /\ \A s \in 0 .. 7, n \in Nodes, i \in Nat : MsgAt(x, t, h, s, n, i)' =>
                 \E s0 \in 0 .. 7, i0 \in Nat : MsgAt(x, t, h, s0, n, i0) /\ CameFrom(s0, s)
            /\ \A s, s2 \in 0 .. 7, n, n2 \in Nodes, i, i2 \in Nat :
                 MsgAt(x, t, h, s, n, i)' /\ MsgAt(x, t, h, s2, n2, i2)'
                   => s2 = s /\ n2 = n /\ i2 = i
    BY DEF Follow, Unique
<1>. DEFINE K(s0, i0, n, s, i) ==
                     \/ s # 0 /\ s0 = s /\ i0 = i
                     \/ s = 0 /\ i > 0 /\ s0 = 0 /\ i0 = i + 1
<1>1. t \in E2Answers /\ t # "IND"
    BY DEF AnswerTypes
<1>2. ASSUME NEW s \in 0 .. 7, NEW n \in Nodes, NEW i \in Nat, MsgAt(x, t, h, s, n, i)'
      PROVE  \E s0 \in 0 .. 7, i0 \in Nat : MsgAt(x, t, h, s0, n, i0) /\ K(s0, i0, n, s, i)
  <2>1. CASE s \in 1 .. 7
    BY <1>1, <1>2, <2>1 DEF XReads, Same
  <2>2. CASE s = 0
    BY <1>1, <1>2, <2>2 DEF XReads
  <2>. QED
    BY <2>1, <2>2
<1>. HIDE DEF K
<1>3. ASSUME NEW s \in 0 .. 7, NEW n \in Nodes, NEW i \in Nat, MsgAt(x, t, h, s, n, i)'
      PROVE  \E s0 \in 0 .. 7, i0 \in Nat : MsgAt(x, t, h, s0, n, i0) /\ CameFrom(s0, s)
  <2>1. PICK s0 \in 0 .. 7, i0 \in Nat : MsgAt(x, t, h, s0, n, i0) /\ K(s0, i0, n, s, i)
    BY <1>2, <1>3
  <2>2. CameFrom(s0, s)
    BY <2>1 DEF CameFrom, K
  <2>. QED
    BY <2>1, <2>2
<1>4. ASSUME NEW s \in 0 .. 7, NEW n \in Nodes, NEW i \in Nat, MsgAt(x, t, h, s, n, i)',
             NEW s2 \in 0 .. 7, NEW n2 \in Nodes, NEW i2 \in Nat, MsgAt(x, t, h, s2, n2, i2)'
      PROVE  s2 = s /\ n2 = n /\ i2 = i
  <2>1. PICK s0 \in 0 .. 7, i0 \in Nat : MsgAt(x, t, h, s0, n, i0) /\ K(s0, i0, n, s, i)
    BY <1>2, <1>4
  <2>2. PICK s3 \in 0 .. 7, i3 \in Nat : MsgAt(x, t, h, s3, n2, i3) /\ K(s3, i3, n2, s2, i2)
    BY <1>2, <1>4
  <2>3. s0 = s3 /\ n = n2 /\ i0 = i3
    BY <2>1, <2>2, OnlyToken
  <2>. QED
    BY <2>1, <2>2, <2>3 DEF K
<1>5. \A s \in 0 .. 7, n \in Nodes, i \in Nat : MsgAt(x, t, h, s, n, i)' =>
        \E s0 \in 0 .. 7, i0 \in Nat : MsgAt(x, t, h, s0, n, i0) /\ CameFrom(s0, s)
    BY <1>3, Zenon
<1>6. \A s, s2 \in 0 .. 7, n, n2 \in Nodes, i, i2 \in Nat :
        MsgAt(x, t, h, s, n, i)' /\ MsgAt(x, t, h, s2, n2, i2)' => s2 = s /\ n2 = n /\ i2 = i
    BY <1>4
<1>. QED
    BY <1>5, <1>6, Zenon

LEMMA FollowXLoses ==
    ASSUME NEW x \in XApps, Unique(x), XLoses(x)
    PROVE  Follow(x)
<1>. SUFFICES ASSUME NEW t \in AnswerTypes, NEW h \in Nat
     PROVE  /\ \A s \in 0 .. 7, n \in Nodes, i \in Nat : MsgAt(x, t, h, s, n, i)' =>
                 \E s0 \in 0 .. 7, i0 \in Nat : MsgAt(x, t, h, s0, n, i0) /\ CameFrom(s0, s)
            /\ \A s, s2 \in 0 .. 7, n, n2 \in Nodes, i, i2 \in Nat :
                 MsgAt(x, t, h, s, n, i)' /\ MsgAt(x, t, h, s2, n2, i2)'
                   => s2 = s /\ n2 = n /\ i2 = i
    BY DEF Follow, Unique
<1>. DEFINE K(s0, i0, n, s, i) ==
                     s # 0 /\ s0 = s /\ i0 = i
<1>1. t \in E2Answers /\ t # "IND"
    BY DEF AnswerTypes
<1>2. ASSUME NEW s \in 0 .. 7, NEW n \in Nodes, NEW i \in Nat, MsgAt(x, t, h, s, n, i)'
      PROVE  \E s0 \in 0 .. 7, i0 \in Nat : MsgAt(x, t, h, s0, n, i0) /\ K(s0, i0, n, s, i)
  <2>1. CASE s \in 1 .. 7
    BY <1>1, <1>2, <2>1 DEF XLoses, Same
  <2>2. CASE s = 0
    BY <1>1, <1>2, <2>2 DEF XLoses
  <2>. QED
    BY <2>1, <2>2
<1>. HIDE DEF K
<1>3. ASSUME NEW s \in 0 .. 7, NEW n \in Nodes, NEW i \in Nat, MsgAt(x, t, h, s, n, i)'
      PROVE  \E s0 \in 0 .. 7, i0 \in Nat : MsgAt(x, t, h, s0, n, i0) /\ CameFrom(s0, s)
  <2>1. PICK s0 \in 0 .. 7, i0 \in Nat : MsgAt(x, t, h, s0, n, i0) /\ K(s0, i0, n, s, i)
    BY <1>2, <1>3
  <2>2. CameFrom(s0, s)
    BY <2>1 DEF CameFrom, K
  <2>. QED
    BY <2>1, <2>2
<1>4. ASSUME NEW s \in 0 .. 7, NEW n \in Nodes, NEW i \in Nat, MsgAt(x, t, h, s, n, i)',
             NEW s2 \in 0 .. 7, NEW n2 \in Nodes, NEW i2 \in Nat, MsgAt(x, t, h, s2, n2, i2)'
      PROVE  s2 = s /\ n2 = n /\ i2 = i
  <2>1. PICK s0 \in 0 .. 7, i0 \in Nat : MsgAt(x, t, h, s0, n, i0) /\ K(s0, i0, n, s, i)
    BY <1>2, <1>4
  <2>2. PICK s3 \in 0 .. 7, i3 \in Nat : MsgAt(x, t, h, s3, n2, i3) /\ K(s3, i3, n2, s2, i2)
    BY <1>2, <1>4
  <2>3. s0 = s3 /\ n = n2 /\ i0 = i3
    BY <2>1, <2>2, OnlyToken
  <2>. QED
    BY <2>1, <2>2, <2>3 DEF K
<1>5. \A s \in 0 .. 7, n \in Nodes, i \in Nat : MsgAt(x, t, h, s, n, i)' =>
        \E s0 \in 0 .. 7, i0 \in Nat : MsgAt(x, t, h, s0, n, i0) /\ CameFrom(s0, s)
    BY <1>3, Zenon
<1>6. \A s, s2 \in 0 .. 7, n, n2 \in Nodes, i, i2 \in Nat :
        MsgAt(x, t, h, s, n, i)' /\ MsgAt(x, t, h, s2, n2, i2)' => s2 = s /\ n2 = n /\ i2 = i
    BY <1>4
<1>. QED
    BY <1>5, <1>6, Zenon

\* x sends a new request: it had no token, and now has the one it sent.
NewToken(x) ==
    \E a \in AnswerTypes, g \in Nat, k \in Nodes :
        /\ XAsks(x, a, g, k) /\ xst[x] = "idle" /\ xop'[x] = [ans |-> a, h |-> g]
        /\ IF a = "DEL_RESP" THEN g \in active[x] ELSE g = Len(issued[x]) + 1

\* A failed assert of the RIC is one of its threads' steps and moves nothing.
LEMMA AbortMovesNothing ==
    ASSUME TypeOK, RoutingInv, OwnersInv, [Next]_vars, NEW x \in XApps, NEW why, Abort(why)
    PROVE  Same(x, 0 .. 7)
BY MoveRicNothing

\* Each step moves the tokens of x forward, or x sends one.
LEMMA FollowStep ==
    ASSUME TypeOK, RoutingInv, OwnersInv, WaitsInv, [Next]_vars, NEW x \in XApps, Unique(x)
    PROVE  Follow(x) \/ NewToken(x)
<1>a. CASE \E why : Abort(why)
    BY <1>a, MoveRicNothing, FollowSame
<1>0. SUFFICES ASSUME ~\E why : Abort(why) PROVE Follow(x) \/ NewToken(x)
    BY <1>a
<1>1. CASE \/ RicAddNode \/ RicAcceptNode \/ RicEraseConn \/ RicRmNode \/ RicTimeout
           \/ IAppRegXApp \/ IAppSetupResponse \/ IAppLock \/ IAppAddMap \/ UNCHANGED vars
    BY <1>1, MoveRicNothing, FollowSame
<1>2. CASE RicSetupRequest \/ RicShutdown
    BY <1>0, <1>2, MoveRicDrop, FollowRicDrops
<1>3. CASE RicAnswer \/ RicIndication
  <2>1. rpc' = "lookup"
    BY <1>0, <1>3 DEF RicAnswer, RicIndication
  <2>. QED
    BY <1>0, <1>3, <2>1, MoveRicTake, FollowRicTakes
<1>4. CASE RicLookup
    BY <1>0, <1>4, MoveRicLookup, FollowSame
<1>5. CASE RicNotify
  <2>1. rpc = "notify"
    BY <1>5 DEF RicNotify
  <2>. QED
    BY <1>0, <1>5, <2>1, MoveRicNotify, FollowRicTells
<1>6. CASE IAppSetupRequest
    BY <1>6, MoveIAppDrop, FollowIAppDrops
<1>7. CASE IAppRequest \/ IAppDelete
    BY <1>0, <1>7, MoveIAppTake, FollowIAppTakes
<1>8. CASE IAppStartTimer \/ IAppDeleteTimer
    BY <1>8, MoveStartTimer, MoveDeleteTimer, FollowIAppArms
<1>9. CASE IAppForward
    BY <1>0, <1>9, MoveIAppForward, FollowIAppSends
<1>10. ASSUME NEW k \in Nodes, AgStart(k) \/ AgResendSetup(k) PROVE Follow(x)
    BY <1>10, MoveAgNothing, FollowSame
<1>11. ASSUME NEW k \in Nodes, AgAbort(k) \/ AgStop(k) PROVE Follow(x)
    BY <1>11, MoveAgLose, FollowAgLoses
<1>12. ASSUME NEW k \in Nodes, AgSetupResponse(k) PROVE Follow(x)
    BY <1>11, <1>12, MoveAgRead, FollowAgReads
<1>13. ASSUME NEW k \in Nodes, AgSubscription(k) \/ AgDelete(k) \/ AgControl(k) PROVE Follow(x)
    BY <1>11, <1>13, MoveAgAnswer, FollowAgAnswers
<1>14. ASSUME NEW k \in Nodes, AgIndication(k) PROVE Follow(x)
    BY <1>14, MoveAgIndication, FollowAgIndicates
<1>15. ASSUME NEW y \in XApps, XAppStart(y) \/ XAppResendSetup(y) PROVE Follow(x)
    BY <1>15, MoveXNothing, FollowSame
<1>16. ASSUME NEW y \in XApps, XAppAbort(y) PROVE Follow(x)
    BY <1>16, MoveXLose, FollowXLoses, FollowSame
<1>17. ASSUME NEW y \in XApps, XAppLoop(y) PROVE Follow(x)
    BY <1>16, <1>17, MoveXRead, FollowXReads, FollowSame DEF XAppLoop, XAppTimeout
<1>18. ASSUME NEW y \in XApps, NEW c \in {"SUB_REQ", "DEL_REQ", "CTRL_REQ"}, NEW g \in Nat,
              NEW k \in Nodes, NEW f \in RanFuncs, xst[y] = "idle",
              iappIn' = Append(iappIn, [type |-> c, xid |-> xid[y], h |-> g, node |-> k, rf |-> f]),
              UNCHANGED <<ricVars, iappVars, ricIn, xIn, agIn, agSubs, reqId>>,
              xop'[y] = [ans |-> AnswerTo(c), h |-> g],
              IF AnswerTo(c) = "DEL_RESP" THEN g \in active[y] ELSE g = Len(issued[y]) + 1
       PROVE  Follow(x) \/ NewToken(x)
  <2>1. IF x = y THEN XAsks(x, AnswerTo(c), g, k) ELSE Same(x, 0 .. 7)
    BY <1>18, MoveXAsk
  <2>2. AnswerTo(c) \in AnswerTypes
    BY DEF AnswerTo, AnswerTypes, E2Answers
  <2>. QED
    BY <1>18, <2>1, <2>2, FollowSame DEF NewToken
<1>19. ASSUME NEW y \in XApps, XAppUnsubscribe(y) PROVE Follow(x) \/ NewToken(x)
  <2>1. PICK h \in active[y] :
          /\ iappIn' = Append(iappIn, [type |-> "DEL_REQ", xid |-> xid[y], h |-> h,
                                       node |-> issued[y][h].node, rf |-> issued[y][h].rf])
          /\ xop' = [xop EXCEPT ![y] = [ans |-> "DEL_RESP", h |-> h]]
    BY <1>19 DEF XAppUnsubscribe, SendToIApp
  <2>2. h \in Nat /\ issued[y][h].node \in Nodes /\ issued[y][h].rf \in RanFuncs
    <3>1. issued[y] \in Seq(Requests) /\ h \in DOMAIN issued[y]
      BY <2>1 DEF TypeOK, TypeXApps
    <3>2. issued[y][h] \in Requests /\ h \in Nat
      BY <3>1
    <3>. QED
      BY <3>2 DEF Requests
  <2>3. UNCHANGED <<ricVars, iappVars, ricIn, xIn, agIn, agSubs, reqId>> /\ xst[y] = "idle"
    BY <1>19 DEF XAppUnsubscribe, agVars, shared
  <2>4. xop'[y] = [ans |-> AnswerTo("DEL_REQ"), h |-> h] /\ AnswerTo("DEL_REQ") = "DEL_RESP"
    BY <2>1 DEF AnswerTo, TypeOK, TypeXApps
  <2>. QED
    BY <1>18, <2>1, <2>2, <2>3, <2>4
<1>20. ASSUME NEW y \in XApps, NEW c \in {"SUB_REQ", "CTRL_REQ"}, NEW k \in Nodes,
              NEW f \in RanFuncs, XAppRequest(y, c, k, f)
       PROVE  Follow(x) \/ NewToken(x)
  <2>. DEFINE h == Len(issued[y]) + 1
  <2>1. /\ iappIn' = Append(iappIn, [type |-> c, xid |-> xid[y], h |-> h, node |-> k, rf |-> f])
        /\ xop' = [xop EXCEPT ![y] = [ans |-> AnswerTo(c), h |-> h]]
        /\ xst[y] = "idle"
        /\ UNCHANGED <<ricVars, iappVars, ricIn, xIn, agIn, agSubs, reqId>>
    BY <1>20 DEF XAppRequest, SendToIApp, agVars, shared
  <2>2. h \in Nat /\ xop'[y] = [ans |-> AnswerTo(c), h |-> h]
    BY <2>1 DEF TypeOK, TypeXApps
  <2>3. AnswerTo(c) # "DEL_RESP"
    BY <1>20 DEF AnswerTo
  <2>4. h = Len(issued[y]) + 1
    OBVIOUS
  <2>. HIDE DEF h
  <2>. QED
    BY <1>18, <1>20, <2>1, <2>2, <2>3, <2>4
<1>. QED
    BY <1>1, <1>2, <1>3, <1>4, <1>5, <1>6, <1>7, <1>8, <1>9, <1>10, <1>11, <1>12, <1>13, <1>14,
       <1>15, <1>17, <1>19, <1>20 DEF Next, RicThread, IAppThread, AgentLoop

\* What an xApp waits for changes when it sends a request and when it is answered.
LEMMA WaitKept ==
    ASSUME TypeOK, [Next]_vars, NEW x \in XApps
    PROVE  \/ xop'[x] = xop[x]
           \/ xst[x] = "idle" /\ xst'[x] = "waiting"
           \/ XAppAnswer(x) /\ ~XAppAbort(x) /\ xop'[x] = NoOp
<1>1. ASSUME NEW y \in XApps, XAppLoop(y)
      PROVE  xop'[x] = xop[x] \/ (XAppAnswer(x) /\ ~XAppAbort(x) /\ xop'[x] = NoOp)
  <2>1. CASE XAppAbort(y)
    BY <2>1 DEF XAppAbort
  <2>2. CASE XAppAnswer(y) /\ ~XAppAbort(y)
    BY <2>2 DEF XAppAnswer, TypeOK, TypeXApps
  <2>3. CASE (XAppSetupResponse(y) /\ ~XAppAbort(y)) \/ XAppIndication(y)
    BY <2>3 DEF XAppSetupResponse, XAppIndication
  <2>. QED
    BY <1>1, <2>1, <2>2, <2>3 DEF XAppLoop, XAppTimeout
<1>2. ASSUME NEW y \in XApps, XAppUnsubscribe(y)
      PROVE  xop'[x] = xop[x] \/ (xst[x] = "idle" /\ xst'[x] = "waiting")
    BY <1>2 DEF XAppUnsubscribe, TypeOK, TypeXApps
<1>3. ASSUME NEW y \in XApps, NEW c \in {"SUB_REQ", "CTRL_REQ"}, NEW k \in Nodes,
             NEW f \in RanFuncs, XAppRequest(y, c, k, f)
      PROVE  xop'[x] = xop[x] \/ (xst[x] = "idle" /\ xst'[x] = "waiting")
    BY <1>3 DEF XAppRequest, TypeOK, TypeXApps
<1>4. ASSUME RicThread \/ RicTimeout \/ IAppThread \/ UNCHANGED vars PROVE xop'[x] = xop[x]
    BY <1>4 DEF RicThread, RicTimeout, IAppThread, vars, xVars, Abort, RicSetupRequest, RicAddNode,
         RicAcceptNode, RicAnswer, RicIndication, RicLookup, RicNotify, RicShutdown,
         RicEraseConn, RicRmNode, IAppSetupRequest, IAppRegXApp, IAppSetupResponse, IAppRequest,
         IAppLock, IAppStartTimer, IAppForward, IAppAddMap, IAppDelete, IAppDeleteTimer
<1>5. ASSUME NEW k \in Nodes, AgStart(k) \/ AgResendSetup(k) \/ AgentLoop(k) \/ AgIndication(k)
                              \/ AgStop(k)
      PROVE  xop'[x] = xop[x]
    BY <1>5 DEF AgStart, AgResendSetup, AgentLoop, AgIndication, AgStop, AgSetupResponse,
         AgSubscription, AgDelete, AgControl, AgAbort, xVars
<1>6. ASSUME NEW y \in XApps, XAppStart(y) \/ XAppResendSetup(y) PROVE xop'[x] = xop[x]
    BY <1>6 DEF XAppStart, XAppResendSetup
<1>. QED
    BY <1>1, <1>2, <1>3, <1>4, <1>5, <1>6 DEF Next

-----------------------------------------------------------------------------
(* Where tokens are, and what is mapped *)

\* Whoever has a token is connected and waits, or has died waiting.
LEMMA TokenOwner ==
    ASSUME TypeOK, OneTokenInv, WaitsInv, NEW x \in XApps, NEW t \in AnswerTypes, NEW h \in Nat,
           NEW s \in 0 .. 7, NEW n \in Nodes, NEW i \in Nat, MsgAt(x, t, h, s, n, i)
    PROVE  /\ xop[x] = [ans |-> t, h |-> h] /\ xop[x] # NoOp /\ xst[x] \in {"waiting", "aborted"}
           /\ Registered(x) /\ h \in active[x] /\ h \in DOMAIN issued[x]
<1>1. xop[x] = [ans |-> t, h |-> h]
    BY DEF OneTokenInv
<1>2. t # "NONE"
    BY DEF AnswerTypes, E2Answers
<1>3. xop[x] # NoOp /\ xop[x].h = h
    BY <1>1, <1>2 DEF NoOp
<1>4. xst[x] \in {"waiting", "aborted"} /\ h \in active[x] /\ Registered(x)
    BY <1>3 DEF WaitsInv
<1>. QED
    BY <1>1, <1>3, <1>4 DEF TypeOK, TypeXApps

\* A connected xApp that does not wait has no token.
LEMMA IdleNoToken ==
    ASSUME TypeOK, OneTokenInv, WaitsInv, NEW x \in XApps, xst[x] = "idle", NEW t \in AnswerTypes,
           NEW h \in Nat, NEW s \in 0 .. 7, NEW n \in Nodes, NEW i \in Nat
    PROVE  ~MsgAt(x, t, h, s, n, i)
BY TokenOwner

\* The answer that an xApp handles is its only token.
LEMMA AnswerIsLast ==
    ASSUME TypeOK, RoutingInv, OwnersInv, OneTokenInv, WaitsInv, [Next]_vars, NEW x \in XApps,
           XAppAnswer(x), ~XAppAbort(x), NEW t \in AnswerTypes,
           NEW h \in Nat, NEW s \in 0 .. 7, NEW n \in Nodes, NEW i \in Nat
    PROVE  ~MsgAt(x, t, h, s, n, i)'
<1>. DEFINE m == Head(xIn[x])
<1>1. XReads(x)
    BY MoveXRead
<1>2. xIn[x] \in Seq(ToXApp) /\ xIn[x] # <<>> /\ m.type \in {"SUB_RESP", "DEL_RESP", "CTRL_ACK"}
    BY DEF XAppAnswer, XReceives, TypeOK, TypeXApps
<1>3. m = xIn[x][1] /\ 1 \in DOMAIN xIn[x] /\ m \in ToXApp
    BY <1>2, TailElements
<1>4. m.h \in Nat /\ m.node \in Nodes /\ m.type \in AnswerTypes
    BY <1>2, <1>3 DEF ToXApp, AnswerTypes, E2Answers
<1>5. MsgAt(x, m.type, m.h, 0, m.node, 1)
    BY <1>3 DEF MsgAt
<1>. HIDE DEF m
<1>6. xop[x] = [ans |-> m.type, h |-> m.h] /\ Unique(x)
    BY <1>4, <1>5 DEF OneTokenInv
<1>7. SUFFICES ASSUME MsgAt(x, t, h, s, n, i)' PROVE FALSE
    OBVIOUS
<1>8. t \in E2Answers
    BY DEF AnswerTypes
<1>9. PICK i0 \in Nat : MsgAt(x, t, h, s, n, i0) /\ (s = 0 => i0 # 1)
  <2>1. CASE s = 0
    <3>1. i > 0 /\ MsgAt(x, t, h, 0, n, i + 1)
      BY <1>1, <1>7, <1>8, <2>1 DEF XReads
    <3>. QED
      BY <2>1, <3>1
  <2>2. CASE s \in 1 .. 7
    BY <1>1, <1>7, <1>8, <2>2 DEF XReads, Same
  <2>. QED
    BY <2>1, <2>2
<1>10. xop[x] = [ans |-> t, h |-> h]
    BY <1>9 DEF OneTokenInv
<1>11. t = m.type /\ h = m.h
    BY <1>6, <1>10
<1>12. s = 0 /\ i0 = 1
    BY <1>4, <1>5, <1>6, <1>9, <1>11, OnlyToken
<1>. QED
    BY <1>9, <1>12

LEMMA OneTokenStep ==
    ASSUME TypeOK, RoutingInv, OwnersInv, WaitsInv, OneTokenInv, [Next]_vars
    PROVE  OneTokenInv'
<1>. SUFFICES ASSUME NEW x \in XApps
     PROVE  /\ Unique(x)'
            /\ \A t \in AnswerTypes, h \in Nat, s \in 0 .. 7, n \in Nodes, i \in Nat :
                 MsgAt(x, t, h, s, n, i)' => xop'[x] = [ans |-> t, h |-> h]
    BY DEF OneTokenInv
<1>1. Unique(x)
    BY DEF OneTokenInv
<1>2. CASE Follow(x)
  <2>1. ASSUME NEW t \in AnswerTypes, NEW h \in Nat, NEW s \in 0 .. 7, NEW n \in Nodes,
               NEW i \in Nat, MsgAt(x, t, h, s, n, i)'
        PROVE  xop'[x] = [ans |-> t, h |-> h]
    <3>1. PICK s0 \in 0 .. 7, i0 \in Nat : MsgAt(x, t, h, s0, n, i0)
      BY <1>2, <2>1 DEF Follow
    <3>2. xop[x] = [ans |-> t, h |-> h] /\ xst[x] # "idle"
      BY <3>1, TokenOwner
    <3>3. ~(XAppAnswer(x) /\ ~XAppAbort(x))
      BY <2>1, AnswerIsLast
    <3>. QED
      BY <3>2, <3>3, WaitKept
  <2>. QED
    BY <1>2, <2>1 DEF Follow
<1>3. CASE NewToken(x)
  <2>1. PICK a \in AnswerTypes, g \in Nat, k \in Nodes :
          XAsks(x, a, g, k) /\ xst[x] = "idle" /\ xop'[x] = [ans |-> a, h |-> g]
    BY <1>3 DEF NewToken
  <2>2. ASSUME NEW t \in AnswerTypes, NEW h \in Nat, NEW s \in 0 .. 7, NEW n \in Nodes,
               NEW i \in Nat, MsgAt(x, t, h, s, n, i)'
        PROVE  s = 7 /\ t = a /\ h = g /\ n = k /\ i = Len(iappIn) + 1
    <3>1. t \in E2Answers
      BY DEF AnswerTypes
    <3>2. ~MsgAt(x, t, h, s, n, i)
      BY <2>1, IdleNoToken
    <3>3. s = 7
      BY <2>1, <2>2, <3>1, <3>2 DEF XAsks, Same
    <3>. QED
      BY <2>1, <2>2, <3>1, <3>2, <3>3 DEF XAsks
  <2>3. Unique(x)'
    BY <2>2 DEF Unique
  <2>. QED
    BY <2>1, <2>2, <2>3
<1>. QED
    BY <1>1, <1>2, <1>3, FollowStep

\* A mapping is for a request that its xApp issued.
EntriesRecorded ==
    \A e \in Entries, x \in XApps : Registered(x) /\ e.xid = xid[x] =>
        e.h \in DOMAIN issued[x] /\ issued[x][e.h].rf = e.rf

LEMMA EntryRequest == TypeOK /\ RoutingInv => EntriesRecorded
<1>. SUFFICES ASSUME TypeOK, RoutingInv, NEW e \in Entries, NEW x \in XApps, Registered(x),
                     e.xid = xid[x]
              PROVE  e.h \in DOMAIN issued[x] /\ issued[x][e.h].rf = e.rf
    BY DEF EntriesRecorded
<1>1. \E kind : Owned(e.xid, e.h, kind, e.node, e.rf)
  <2>1. CASE e \in mapRicId
    BY <2>1 DEF RoutingInv, MutexInv
  <2>2. CASE e \in InFlight
    BY <2>2 DEF RoutingInv, RequestsInv, InFlight
  <2>. QED
    BY <2>1, <2>2 DEF Entries
<1>k. PICK kind : Owned(e.xid, e.h, kind, e.node, e.rf)
    BY <1>1
<1>2. PICK r \in xsad :
        /\ r.xid = e.xid /\ e.h \in DOMAIN issued[r.x]
        /\ issued[r.x][e.h] = [kind |-> kind, node |-> e.node, rf |-> e.rf]
    BY <1>k DEF Owned, OwnedIn
<1>3. r = [xid |-> xid[x], x |-> x]
    BY <1>2 DEF RoutingInv, XAppIdsInv, Registered
<1>. QED
    BY <1>2, <1>3

\* A request stays mapped.
LEMMA MappedKept ==
    ASSUME TypeOK, [Next]_vars, NEW x \in XApps, Registered(x), NEW h \in DOMAIN issued[x],
           Mapped(x, h)
    PROVE  Mapped(x, h)'
<1>1. PICK e \in mapRicId : e.xid = xid[x] /\ e.h = h /\ e.rf = issued[x][h].rf
    BY DEF Mapped
<1>2. e \in mapRicId' /\ xid'[x] = xid[x]
    BY MapGrows, RegisteredGrows
<1>3. issued'[x][h] = issued[x][h]
    BY Grows DEF Grow, Extends
<1>. QED
    BY <1>1, <1>2, <1>3 DEF Mapped

\* The entry that the RIC thread found maps the request it is for.
NotifyMapped ==
    \A x \in XApps : rpc = "notify" /\ Registered(x) /\ rto.xid = xid[x] => Mapped(x, rto.h)

LEMMA NotifyIsMapped == TypeOK /\ RoutingInv /\ OwnersInv => NotifyMapped
<1>. SUFFICES ASSUME TypeOK, RoutingInv, OwnersInv, NEW x \in XApps, rpc = "notify",
                     Registered(x), rto.xid = xid[x]
              PROVE  Mapped(x, rto.h)
    BY DEF NotifyMapped
<1>1. rto \in mapRicId
    BY DEF OwnersInv
<1>2. issued[x][rto.h].rf = rto.rf
    BY <1>1, EntryRequest DEF EntriesRecorded, Entries
<1>. QED
    BY <1>1, <1>2 DEF Mapped

\* A request that x sends adds only this one.
LEMMA NewTokenOnly ==
    ASSUME TypeOK, OneTokenInv, WaitsInv, NEW x \in XApps, NEW a, NEW g, NEW k,
           XAsks(x, a, g, k), xst[x] = "idle",
           NEW t \in AnswerTypes, NEW h \in Nat, NEW s \in 0 .. 7, NEW n \in Nodes, NEW i \in Nat,
           MsgAt(x, t, h, s, n, i)'
    PROVE  s = 7 /\ t = a /\ h = g /\ n = k /\ i = Len(iappIn) + 1
<1>1. t \in E2Answers
    BY DEF AnswerTypes
<1>2. ~MsgAt(x, t, h, s, n, i)
    BY IdleNoToken
<1>3. s = 7
    BY <1>1, <1>2 DEF XAsks, Same
<1>. QED
    BY <1>1, <1>2, <1>3 DEF XAsks

LEMMA MappingStep ==
    ASSUME TypeOK, RoutingInv, OwnersInv, WaitsInv, OneTokenInv, MappingInv, [Next]_vars,
           TypeOK', RoutingInv', OwnersInv'
    PROVE  MappingInv'
<1>. SUFFICES ASSUME NEW x \in XApps, NEW t \in AnswerTypes, NEW h \in Nat, NEW s \in 0 .. 7,
                     NEW n \in Nodes, NEW i \in Nat, MsgAt(x, t, h, s, n, i)'
              PROVE  /\ s = 0 \/ (s = 1 /\ rpc' = "notify") => Mapped(x, h)'
                     /\ s \in {6, 7} /\ t # "DEL_RESP" =>
                          ~\E e \in Entries' : e.xid = xid'[x] /\ e.h = h
    BY DEF MappingInv, Entries
<1>0. Unique(x)
    BY DEF OneTokenInv
<1>1. CASE Follow(x)
  <2>1. PICK s0 \in 0 .. 7, i0 \in Nat : MsgAt(x, t, h, s0, n, i0) /\ CameFrom(s0, s)
    BY <1>1 DEF Follow
  <2>2. Registered(x) /\ h \in DOMAIN issued[x] /\ xop[x] = [ans |-> t, h |-> h]
    BY <2>1, TokenOwner
  <2>3. ASSUME s = 0 PROVE Mapped(x, h)'
    <3>1. s0 = 0 \/ (s0 = 1 /\ rpc = "notify")
      BY <2>1, <2>3 DEF CameFrom
    <3>2. Mapped(x, h)
      BY <2>1, <3>1 DEF MappingInv
    <3>. QED
      BY <2>2, <3>2, MappedKept
  <2>4. ASSUME s = 1, rpc' = "notify" PROVE Mapped(x, h)'
    <3>1. Registered(x)' /\ rto'.xid = xid'[x] /\ rto'.h = h
      BY <2>4 DEF MsgAt, RicFor
    <3>2. NotifyMapped'
      BY NotifyIsMapped, PTL
    <3>3. \A g : g = rto'.h => Mapped(x, g)'
      BY <2>4, <3>1, <3>2 DEF NotifyMapped, Mapped
    <3>. QED
      BY <3>1, <3>3
  <2>5. ASSUME s \in {6, 7}, t # "DEL_RESP"
        PROVE  ~\E e \in Entries' : e.xid = xid'[x] /\ e.h = h
    <3>1. s0 \in {6, 7}
      BY <2>1, <2>5 DEF CameFrom
    <3>2. ~\E e \in Entries : e.xid = xid[x] /\ e.h = h
      BY <2>1, <2>5, <3>1 DEF MappingInv, Entries
    <3>3. xid'[x] = xid[x]
      BY <2>2, RegisteredGrows
    <3>4. CASE ~IAppStartTimer
      BY <3>2, <3>3, <3>4, EntriesKept
    <3>5. CASE IAppStartTimer
      <4>1. ipc = "timer" /\ imsg' = imsg /\ mapRicId' = mapRicId
        BY <3>5 DEF IAppStartTimer
      <4>2. \A e \in InFlight' : e.xid = imsg.xid /\ e.h = imsg.h
        BY <4>1 DEF InFlight
      <4>3. s = 7 /\ MsgAt(x, t, h, 7, n, i)
        <5>1. t \in E2Answers
          BY DEF AnswerTypes
        <5>2. IAppArms(x)
          BY <3>5, MoveStartTimer
        <5>3. s = 7
          BY <2>5, <5>1, <5>2 DEF IAppArms
        <5>. QED
          BY <5>1, <5>2, <5>3 DEF IAppArms, Same
      <4>4. PICK y \in XApps :
             /\ Registered(y) /\ xid[y] = imsg.xid /\ AnswerTo(imsg.type) \in AnswerTypes
             /\ imsg.h \in Nat /\ imsg.node \in Nodes
             /\ MsgAt(y, AnswerTo(imsg.type), imsg.h, 6, imsg.node, 0)
        BY <4>1, HeldRequest
      <4>5. ASSUME xid[x] = imsg.xid, h = imsg.h PROVE FALSE
        <5>1. y = x
          BY <2>2, <4>4, <4>5, IdsDiffer
        <5>2. xop[x] = [ans |-> AnswerTo(imsg.type), h |-> imsg.h]
          BY <4>4, <5>1, TokenOwner
        <5>3. AnswerTo(imsg.type) = t
          BY <2>2, <5>2
        <5>4. MsgAt(x, t, h, 6, imsg.node, 0)
          BY <4>4, <4>5, <5>1, <5>3
        <5>. QED
          BY <1>0, <4>3, <4>4, <5>4, OnlyToken
      <4>. QED
        BY <3>2, <3>3, <4>1, <4>2, <4>5 DEF Entries
    <3>. QED
      BY <3>4, <3>5
  <2>. QED
    BY <2>3, <2>4, <2>5
<1>2. CASE NewToken(x)
  <2>1. PICK a \in AnswerTypes, g \in Nat, k \in Nodes :
          /\ XAsks(x, a, g, k) /\ xst[x] = "idle" /\ xop'[x] = [ans |-> a, h |-> g]
          /\ IF a = "DEL_RESP" THEN g \in active[x] ELSE g = Len(issued[x]) + 1
    BY <1>2 DEF NewToken
  <2>2. s = 7 /\ t = a /\ h = g
    BY <2>1, NewTokenOnly
  <2>3. ASSUME t # "DEL_RESP", NEW e \in Entries', e.xid = xid'[x], e.h = h PROVE FALSE
    <3>1. Registered(x) /\ xop[x] = NoOp
      BY <2>1 DEF WaitsInv
    <3>2. ~IAppStartTimer
      <4>1. a # "NONE"
        BY DEF AnswerTypes, E2Answers
      <4>. QED
        BY <2>1, <3>1, <4>1 DEF IAppStartTimer, xVars, NoOp
    <3>3. e \in Entries /\ xid'[x] = xid[x]
      BY <3>1, <3>2, EntriesKept, RegisteredGrows
    <3>4. h \in DOMAIN issued[x]
      BY <2>3, <3>1, <3>3, EntryRequest DEF EntriesRecorded
    <3>5. issued[x] \in Seq(Requests)
      BY DEF TypeOK, TypeXApps
    <3>6. DOMAIN issued[x] = 1 .. Len(issued[x]) /\ Len(issued[x]) \in Nat
      BY <3>5
    <3>. QED
      BY <2>1, <2>2, <2>3, <3>4, <3>6
  <2>. QED
    BY <2>2, <2>3
<1>. QED
    BY <1>0, <1>1, <1>2, FollowStep

-----------------------------------------------------------------------------
(* Who waits *)

WaitsAt(x) ==
    /\ xst[x] \in {"off", "aborted"} => xIn[x] = <<>>
    /\ xst[x] \notin {"off", "connecting"} => Registered(x)
    /\ xst[x] = "waiting" => xop[x] # NoOp
    /\ xop[x] # NoOp => xst[x] \in {"waiting", "aborted"} /\ xop[x].h \in active[x]
    /\ \A h \in active[x] :
         xop[x] \in {[ans |-> "SUB_RESP", h |-> h], [ans |-> "CTRL_ACK", h |-> h]}
         \/ Mapped(x, h)

\* The procedures of an xApp stay mapped.
LEMMA ActiveMapped ==
    ASSUME TypeOK, RoutingInv, WaitsInv, [Next]_vars, NEW x \in XApps, NEW h \in active[x],
           Mapped(x, h)
    PROVE  Mapped(x, h)'
<1>1. xst[x] \notin {"off", "connecting"}
    BY DEF RoutingInv, HandlesInv
<1>2. Registered(x) /\ h \in DOMAIN issued[x]
    BY <1>1 DEF WaitsInv, TypeOK, TypeXApps
<1>. QED
    BY <1>2, MappedKept

\* A step that is not one of x itself.
LEMMA WaitsOthers ==
    ASSUME TypeOK, RoutingInv, WaitsInv, [Next]_vars, NEW x \in XApps,
           xst'[x] = xst[x], xop'[x] = xop[x], active'[x] = active[x],
           xst[x] \in {"off", "aborted"} => xIn'[x] = xIn[x]
    PROVE  WaitsAt(x)'
<1>1. WaitsAt(x)
    BY DEF WaitsInv, WaitsAt
<1>2. Registered(x) => Registered(x)'
    BY RegisteredGrows
<1>3. \A h \in active[x] : Mapped(x, h) => Mapped(x, h)'
    BY ActiveMapped
<1>. QED
    BY <1>1, <1>2, <1>3 DEF WaitsAt

\* No assert of the handlers of an answer fails.
LEMMA AnswerAtHead ==
    ASSUME TypeOK, OneTokenInv, WaitsInv, NEW x \in XApps, XAppAnswer(x)
    PROVE  /\ MsgAt(x, Head(xIn[x]).type, Head(xIn[x]).h, 0, Head(xIn[x]).node, 1)
           /\ Head(xIn[x]).type \in AnswerTypes /\ Head(xIn[x]).h \in Nat
           /\ Head(xIn[x]).node \in Nodes
           /\ xop[x] = [ans |-> Head(xIn[x]).type, h |-> Head(xIn[x]).h]
           /\ Head(xIn[x]).h \in active[x] /\ xst[x] \in {"waiting", "aborted"}
<1>. DEFINE m == Head(xIn[x])
<1>2. xIn[x] \in Seq(ToXApp) /\ xIn[x] # <<>> /\ m.type \in {"SUB_RESP", "DEL_RESP", "CTRL_ACK"}
    BY DEF XAppAnswer, XReceives, TypeOK, TypeXApps
<1>3. m = xIn[x][1] /\ 1 \in DOMAIN xIn[x] /\ m \in ToXApp
    BY <1>2, TailElements
<1>4. m.h \in Nat /\ m.node \in Nodes /\ m.type \in AnswerTypes
    BY <1>2, <1>3 DEF ToXApp, AnswerTypes, E2Answers
<1>5. MsgAt(x, m.type, m.h, 0, m.node, 1)
    BY <1>3 DEF MsgAt
<1>. HIDE DEF m
<1>6. xop[x] = [ans |-> m.type, h |-> m.h] /\ m.h \in active[x] /\ xst[x] \in {"waiting", "aborted"}
    BY <1>4, <1>5, TokenOwner
<1>. QED
    BY <1>4, <1>5, <1>6 DEF m

\* The queues of xApps that are off or dead stay empty.
LEMMA DeadSilent ==
    ASSUME TypeOK, RoutingInv, OwnersInv, WaitsInv, RicThread \/ RicTimeout \/ IAppThread,
           NEW x \in XApps, xst[x] \in {"off", "aborted"}
    PROVE  xIn'[x] = xIn[x]
<1>a. ASSUME NEW why, Abort(why) PROVE xIn' = xIn
    BY <1>a DEF Abort, xVars
<1>s. ASSUME NEW y \in XApps, NEW m, SendToXApp(y, m), xst[y] # "off" PROVE xIn'[x] = xIn[x]
    BY <1>s DEF SendToXApp, TypeOK, TypeXApps
<1>1. CASE RicNotify /\ ~\E why : Abort(why)
  <2>1. PICK r \in xsad, m \in {[type |-> rmsg.type, h |-> rto.h, rf |-> rmsg.rf,
                                 node |-> rmsg.node]} : SendToXApp(r.x, m)
    BY <1>1 DEF RicNotify
  <2>2. r.x \in XApps /\ xst[r.x] # "off"
    BY DEF OwnersInv, TypeOK, TypeShared, XAppRegs
  <2>. QED
    BY <1>s, <2>1, <2>2
<1>2. CASE IAppSetupResponse
  <2>1. imsg.x \in XApps /\ xst[imsg.x] # "off"
    BY <1>2 DEF IAppSetupResponse, OwnersInv, TypeOK, TypeIApp, SetupReplies
  <2>. QED
    BY <1>2, <1>s, <2>1 DEF IAppSetupResponse
<1>3. CASE (RicThread \/ RicTimeout) /\ ~RicNotify
    BY <1>3 DEF RicThread, RicTimeout, vars, xVars, Abort, RicSetupRequest, RicAddNode,
         RicAcceptNode, RicAnswer, RicIndication, RicLookup, RicShutdown, RicEraseConn, RicRmNode
<1>4. CASE IAppThread /\ ~IAppSetupResponse
    BY <1>4 DEF IAppThread, xVars, Abort, IAppSetupRequest, IAppRegXApp, IAppRequest,
         IAppLock, IAppStartTimer, IAppForward, IAppAddMap, IAppDelete, IAppDeleteTimer
<1>. QED
    BY <1>a, <1>1, <1>2, <1>3, <1>4

LEMMA WaitsStep ==
    ASSUME TypeOK, RoutingInv, OwnersInv, WaitsInv, OneTokenInv, MappingInv, [Next]_vars
    PROVE  WaitsInv'
<1>. SUFFICES ASSUME NEW x \in XApps PROVE WaitsAt(x)'
    BY DEF WaitsInv, WaitsAt
<1>w. WaitsAt(x)
    BY DEF WaitsInv, WaitsAt
<1>t. /\ xst \in [XApps -> {"off", "connecting", "idle", "waiting", "aborted"}]
      /\ xop \in [XApps -> [ans : {"SUB_RESP", "DEL_RESP", "CTRL_ACK"}, h : Nat] \cup {NoOp}]
      /\ active \in [XApps -> SUBSET Nat] /\ xIn \in [XApps -> Seq(ToXApp)]
      /\ xid \in [XApps -> Nat]
    BY DEF TypeOK, TypeXApps
<1>m. \A h \in active[x] : Mapped(x, h) => Mapped(x, h)'
    BY ActiveMapped
<1>r. Registered(x) => Registered(x)'
    BY RegisteredGrows
<1>n. \A g : NoOp # [ans |-> "SUB_RESP", h |-> g] /\ NoOp # [ans |-> "CTRL_ACK", h |-> g]
    BY DEF NoOp
<1>o. ASSUME xop[x] = NoOp PROVE \A g \in active[x] : Mapped(x, g)
    BY <1>n, <1>o, <1>w DEF WaitsAt
<1>1. CASE RicThread \/ RicTimeout
    BY <1>1, DeadSilent, WaitsOthers, RicFrames DEF RicFrame
<1>2. CASE IAppThread
    BY <1>2, DeadSilent, WaitsOthers, IAppFrames DEF IAppFrame
<1>3. ASSUME NEW n \in Nodes, AgentStep(n) PROVE WaitsAt(x)'
    BY <1>3, WaitsOthers, AgFrames DEF AgFrame, xVars
<1>4. CASE UNCHANGED vars
    BY <1>4, WaitsOthers DEF vars, xVars
<1>5. ASSUME NEW y \in XApps, XAppStep(y), y # x PROVE WaitsAt(x)'
  <2>1. UNCHANGED <<xst[x], xop[x], active[x], xIn[x]>>
    BY <1>5, <1>t DEF XAppStep, XAppLoop, XAppTimeout, XAppStart, XAppResendSetup, XAppUnsubscribe,
         XAppRequests, XAppRequest, XAppSetupResponse, XAppAnswer, XAppIndication, XAppAbort,
         XConsume
  <2>. QED
    BY <2>1, WaitsOthers
<1>6. CASE XAppStart(x)
    BY <1>6, <1>m, <1>t, <1>w DEF XAppStart, WaitsAt
<1>7. CASE XAppResendSetup(x) \/ XAppIndication(x)
  <2>1. UNCHANGED <<xst[x], xop[x], active[x]>>
    BY <1>7 DEF XAppResendSetup, XAppIndication
  <2>2. xst[x] \in {"off", "aborted"} => xIn'[x] = xIn[x]
    BY <1>7, <1>w DEF XAppResendSetup, XAppIndication, XReceives, WaitsAt
  <2>. QED
    BY <2>1, <2>2, WaitsOthers
<1>8. CASE XAppAbort(x) /\ XAppSetupResponse(x)
  <2>1. xst[x] \notin {"off", "connecting"}
    BY <1>8, <1>w, <1>t DEF XAppSetupResponse, XReceives, WaitsAt, XAppAbort
  <2>2. /\ xst'[x] = "aborted" /\ xIn'[x] = <<>> /\ xop'[x] = xop[x] /\ active'[x] = active[x]
    BY <1>8, <1>t DEF XAppAbort
  <2>. QED
    BY <1>m, <1>r, <1>w, <2>1, <2>2 DEF WaitsAt
<1>9. CASE XAppSetupResponse(x) /\ ~XAppAbort(x)
  <2>1. /\ xst[x] = "connecting" /\ xst'[x] = "idle" /\ xid'[x] = Head(xIn[x]).xid
        /\ xop'[x] = xop[x] /\ active'[x] = active[x] /\ xsad' = xsad
        /\ Head(xIn[x]).type = "E42_SETUP_RESP" /\ xIn[x] # <<>>
    BY <1>9, <1>t DEF XAppSetupResponse, XReceives, shared
  <2>2. [xid |-> Head(xIn[x]).xid, x |-> x] \in xsad
    <3>1. Head(xIn[x]) = xIn[x][1] /\ 1 \in DOMAIN xIn[x]
      BY <1>t, <2>1, TailElements
    <3>2. Head(xIn[x]) \in Range(xIn[x])
      BY <3>1 DEF Range
    <3>. QED
      BY <2>1, <3>2 DEF RoutingInv, XAppIdsInv
  <2>3. Registered(x)'
    BY <2>1, <2>2 DEF Registered
  <2>. QED
    BY <1>m, <1>w, <2>1, <2>3 DEF WaitsAt
<1>10. CASE XAppUnsubscribe(x)
  <2>1. PICK h \in active[x] :
          /\ xop'[x] = [ans |-> "DEL_RESP", h |-> h] /\ xst[x] = "idle" /\ xst'[x] = "waiting"
          /\ active'[x] = active[x] /\ h \in Nat
    BY <1>10, <1>t DEF XAppUnsubscribe
  <2>2. xop[x] = NoOp /\ xop'[x] # NoOp
    BY <1>w, <2>1 DEF WaitsAt, NoOp
  <2>3. \A g \in active[x] : Mapped(x, g)'
    BY <1>m, <1>o, <2>2
  <2>. QED
    BY <1>r, <1>w, <2>1, <2>2, <2>3 DEF WaitsAt
<1>11. ASSUME NEW c \in {"SUB_REQ", "CTRL_REQ"}, NEW k \in Nodes, NEW f \in RanFuncs,
              XAppRequest(x, c, k, f)
       PROVE  WaitsAt(x)'
  <2>. DEFINE h == Len(issued[x]) + 1
  <2>1. /\ xop'[x] = [ans |-> AnswerTo(c), h |-> h] /\ xst[x] = "idle" /\ xst'[x] = "waiting"
        /\ active'[x] = active[x] \cup {h}
    BY <1>11, <1>t DEF XAppRequest
  <2>. HIDE DEF h
  <2>2. AnswerTo(c) \in {"SUB_RESP", "CTRL_ACK"}
    BY DEF AnswerTo
  <2>3. xop[x] = NoOp /\ xop'[x] # NoOp
    BY <1>w, <2>1, <2>2 DEF WaitsAt, NoOp
  <2>4. \A g \in active[x] : Mapped(x, g)'
    BY <1>m, <1>o, <2>3
  <2>. QED
    BY <1>r, <1>w, <2>1, <2>2, <2>3, <2>4 DEF WaitsAt
<1>12. CASE XAppAnswer(x)
  <2>. DEFINE m == Head(xIn[x])
  <2>1. /\ MsgAt(x, m.type, m.h, 0, m.node, 1)
        /\ m.type \in AnswerTypes /\ m.h \in Nat /\ m.node \in Nodes
        /\ xop[x] = [ans |-> m.type, h |-> m.h]
        /\ m.h \in active[x] /\ xst[x] \in {"waiting", "aborted"}
    BY <1>12, AnswerAtHead
  <2>2. /\ xst'[x] = "idle" /\ xop'[x] = NoOp
        /\ active'[x] = IF xop[x].ans = "SUB_RESP" THEN active[x] ELSE active[x] \ {xop[x].h}
    BY <1>12, <1>t, <2>1 DEF XAppAnswer
  <2>3. Mapped(x, m.h)
    BY <2>1 DEF MappingInv
  <2>. HIDE DEF m
  <2>4. ASSUME NEW g \in active'[x] PROVE g \in active[x] /\ Mapped(x, g)
    <3>1. g \in active[x]
      BY <2>2
    <3>2. CASE g = m.h
      BY <2>3, <3>1, <3>2
    <3>3. CASE g # m.h
      <4>1. xop[x].h = m.h
        BY <2>1
      <4>2. xop[x] # [ans |-> "SUB_RESP", h |-> g] /\ xop[x] # [ans |-> "CTRL_ACK", h |-> g]
        BY <3>3, <4>1
      <4>. QED
        BY <1>w, <3>1, <4>2 DEF WaitsAt
    <3>. QED
      BY <3>2, <3>3
  <2>. QED
    BY <1>m, <1>r, <1>w, <2>1, <2>2, <2>4 DEF WaitsAt
<1>13. CASE XAppTimeout(x)
  <2>1. /\ xst[x] = "waiting" /\ xst'[x] = "aborted" /\ xIn'[x] = <<>>
        /\ xop'[x] = xop[x] /\ active'[x] = active[x]
    BY <1>13, <1>t DEF XAppTimeout, XAppAbort
  <2>. QED
    BY <1>m, <1>r, <1>w, <2>1 DEF WaitsAt
<1>. QED
    BY <1>1, <1>2, <1>3, <1>4, <1>5, <1>6, <1>7, <1>8, <1>9, <1>10, <1>11, <1>12, <1>13
    DEF Next, AgentStep, XAppStep, XAppLoop, XAppRequests, XAppSetupResponse

-----------------------------------------------------------------------------
(* Indications keep their place behind the answer to their subscription and  *)
(* before the answer to its deletion                                         *)

\* An indication moves from position i0 of stage s0 to position i of stage s: the
\* response to its subscription stays ahead, that to its deletion behind.
Orderly(x, h, s0, i0, s, i) ==
    /\ \A s2 \in 0 .. 2, n2 \in Nodes, i2 \in Nat :
         MsgAt(x, "SUB_RESP", h, s2, n2, i2) /\ Ahead(s2, i2, s0, i0) =>
           \E s3 \in 0 .. 2, n3 \in Nodes, i3 \in Nat :
             MsgAt(x, "SUB_RESP", h, s3, n3, i3)' /\ Ahead(s3, i3, s, i)
    /\ \A s2 \in 0 .. 3, n2 \in Nodes, i2 \in Nat :
         MsgAt(x, "DEL_RESP", h, s2, n2, i2)' /\ Ahead(s2, i2, s, i) =>
           \E s3 \in 0 .. 3, n3 \in Nodes, i3 \in Nat :
             MsgAt(x, "DEL_RESP", h, s3, n3, i3) /\ Ahead(s3, i3, s0, i0)

Passes(x) ==
    \A h \in Nat, s \in 0 .. 3, n \in Nodes, i \in Nat :
        MsgAt(x, "IND", h, s, n, i)' =>
          \E s0 \in 0 .. 3, i0 \in Nat :
             MsgAt(x, "IND", h, s0, n, i0) /\ Orderly(x, h, s0, i0, s, i)

\* Where a message can be.
LEMMA Positions ==
    ASSUME TypeOK, NEW x \in XApps, NEW t, NEW h, NEW s, NEW n \in Nodes, NEW i \in Nat,
           MsgAt(x, t, h, s, n, i)
    PROVE  /\ s \in {0, 2} => i > 0
           /\ s = 3 => t = "IND"
           /\ s = 4 => t # "IND" /\ \E rid : NamesAt(x, h, n, rid)
           /\ s = 3 => \E rid : NamesAt(x, h, n, rid)
<1>1. DOMAIN xIn[x] = 1 .. Len(xIn[x]) /\ DOMAIN ricIn = 1 .. Len(ricIn)
    BY DEF TypeOK, TypeXApps, TypeSockets
<1>2. s = 0 => i \in DOMAIN xIn[x]
    BY DEF MsgAt
<1>3. s = 2 => i \in DOMAIN ricIn
    BY DEF MsgAt
<1>4. ASSUME s = 4 PROVE t # "IND" /\ \E rid : NamesAt(x, h, n, rid)
  <2>1. /\ i \in DOMAIN agIn[n] /\ agIn[n][i].type # "SETUP_RESP"
        /\ AnswerTo(agIn[n][i].type) = t /\ NamesAt(x, h, n, agIn[n][i].rid)
    BY <1>4 DEF MsgAt
  <2>2. agIn[n] \in Seq(ToAgent)
    BY DEF TypeOK, TypeAgents
  <2>3. agIn[n][i] \in ToAgent
    BY <2>1, <2>2
  <2>4. agIn[n][i].type \in {"SUB_REQ", "DEL_REQ", "CTRL_REQ"}
    BY <2>1, <2>3 DEF ToAgent
  <2>. QED
    BY <2>1, <2>4 DEF AnswerTo
<1>5. s = 3 => t = "IND" /\ \E rid : NamesAt(x, h, n, rid)
    BY DEF MsgAt
<1>. QED
    BY <1>1, <1>2, <1>3, <1>4, <1>5

LEMMA PassSame ==
    ASSUME TypeOK, NEW x \in XApps, Same(x, 0 .. 3)
    PROVE  Passes(x)
<1>. SUFFICES ASSUME NEW h \in Nat, NEW s \in 0 .. 3, NEW n \in Nodes, NEW i \in Nat,
                     MsgAt(x, "IND", h, s, n, i)'
              PROVE  \E s0 \in 0 .. 3, i0 \in Nat :
                        MsgAt(x, "IND", h, s0, n, i0) /\ Orderly(x, h, s0, i0, s, i)
    BY DEF Passes
<1>. DEFINE K(s0, i0, s1, i1) ==
                     s1 = s0 /\ i1 = i0
<1>1. ASSUME NEW t \in {"IND", "DEL_RESP"}, NEW s1 \in 0 .. 3, NEW n1 \in Nodes, NEW i1 \in Nat,
             MsgAt(x, t, h, s1, n1, i1)'
      PROVE  \E s0 \in 0 .. 3, i0 \in Nat : MsgAt(x, t, h, s0, n1, i0) /\ K(s0, i0, s1, i1)
  <2>0. t \in E2Answers
    BY DEF E2Answers
  <2>1. CASE s1 \in 0 .. 3
    BY <1>1, <2>0, <2>1 DEF Same
  <2>. QED
    BY <2>1
<1>2. ASSUME NEW s0 \in 0 .. 2, NEW n0 \in Nodes, NEW i0 \in Nat, MsgAt(x, "SUB_RESP", h, s0, n0, i0)
      PROVE  \E s1 \in 0 .. 2, i1 \in Nat : MsgAt(x, "SUB_RESP", h, s1, n0, i1)' /\ K(s0, i0, s1, i1)
  <2>0. "SUB_RESP" \in E2Answers
    BY DEF E2Answers
  <2>1. CASE s0 \in 0 .. 2
    BY <1>2, <2>0, <2>1 DEF Same
  <2>. QED
    BY <2>1
<1>3. ASSUME NEW s0 \in 0 .. 3, NEW s1 \in 0 .. 3, NEW s2 \in 0 .. 3, NEW s3 \in 0 .. 3,
             NEW i0 \in Nat, NEW i1 \in Nat, NEW i2 \in Nat, NEW i3 \in Nat,
             K(s0, i0, s1, i1), K(s2, i2, s3, i3)
      PROVE  Ahead(s0, i0, s2, i2) <=> Ahead(s1, i1, s3, i3)
    BY <1>3 DEF Ahead
<1>. HIDE DEF K
<1>4. PICK s0 \in 0 .. 3, i0 \in Nat : MsgAt(x, "IND", h, s0, n, i0) /\ K(s0, i0, s, i)
    BY <1>1
<1>5. ASSUME NEW s2 \in 0 .. 2, NEW n2 \in Nodes, NEW i2 \in Nat,
             MsgAt(x, "SUB_RESP", h, s2, n2, i2), Ahead(s2, i2, s0, i0)
      PROVE  \E s3 \in 0 .. 2, n3 \in Nodes, i3 \in Nat :
                MsgAt(x, "SUB_RESP", h, s3, n3, i3)' /\ Ahead(s3, i3, s, i)
  <2>1. PICK s3 \in 0 .. 2, i3 \in Nat : MsgAt(x, "SUB_RESP", h, s3, n2, i3)' /\ K(s2, i2, s3, i3)
    BY <1>2, <1>5
  <2>2. s2 \in 0 .. 3 /\ s3 \in 0 .. 3
    BY <2>1
  <2>3. Ahead(s3, i3, s, i)
    BY <1>3, <1>4, <1>5, <2>1, <2>2
  <2>. QED
    BY <2>1, <2>3
<1>6. ASSUME NEW s2 \in 0 .. 3, NEW n2 \in Nodes, NEW i2 \in Nat,
             MsgAt(x, "DEL_RESP", h, s2, n2, i2)', Ahead(s2, i2, s, i)
      PROVE  \E s3 \in 0 .. 3, n3 \in Nodes, i3 \in Nat :
                MsgAt(x, "DEL_RESP", h, s3, n3, i3) /\ Ahead(s3, i3, s0, i0)
  <2>1. PICK s3 \in 0 .. 3, i3 \in Nat : MsgAt(x, "DEL_RESP", h, s3, n2, i3) /\ K(s3, i3, s2, i2)
    BY <1>1, <1>6
  <2>2. Ahead(s3, i3, s0, i0)
    BY <1>3, <1>4, <1>6, <2>1
  <2>. QED
    BY <2>1, <2>2
<1>. QED
    BY <1>4, <1>5, <1>6 DEF Orderly

LEMMA PassRicTakes ==
    ASSUME TypeOK, NEW x \in XApps, RicTakes(x)
    PROVE  Passes(x)
<1>. SUFFICES ASSUME NEW h \in Nat, NEW s \in 0 .. 3, NEW n \in Nodes, NEW i \in Nat,
                     MsgAt(x, "IND", h, s, n, i)'
              PROVE  \E s0 \in 0 .. 3, i0 \in Nat :
                        MsgAt(x, "IND", h, s0, n, i0) /\ Orderly(x, h, s0, i0, s, i)
    BY DEF Passes
<1>. DEFINE K(s0, i0, s1, i1) ==
                     \/ s0 \in {0, 3} /\ s1 = s0 /\ i1 = i0
                     \/ s0 = 2 /\ i0 = 1 /\ s1 = 1 /\ i1 = 0
                     \/ s0 = 2 /\ s1 = 2 /\ i1 > 0 /\ i0 = i1 + 1
<1>1. ASSUME NEW t \in {"IND", "DEL_RESP"}, NEW s1 \in 0 .. 3, NEW n1 \in Nodes, NEW i1 \in Nat,
             MsgAt(x, t, h, s1, n1, i1)'
      PROVE  \E s0 \in 0 .. 3, i0 \in Nat : MsgAt(x, t, h, s0, n1, i0) /\ K(s0, i0, s1, i1)
  <2>0. t \in E2Answers
    BY DEF E2Answers
  <2>1. CASE s1 \in {0, 3}
    BY <1>1, <2>0, <2>1 DEF RicTakes, Same
  <2>2. CASE s1 = 1
    BY <1>1, <2>0, <2>2 DEF RicTakes
  <2>3. CASE s1 = 2
    BY <1>1, <2>0, <2>3 DEF RicTakes
  <2>. QED
    BY <2>1, <2>2, <2>3
<1>2. ASSUME NEW s0 \in 0 .. 2, NEW n0 \in Nodes, NEW i0 \in Nat, MsgAt(x, "SUB_RESP", h, s0, n0, i0)
      PROVE  \E s1 \in 0 .. 2, i1 \in Nat : MsgAt(x, "SUB_RESP", h, s1, n0, i1)' /\ K(s0, i0, s1, i1)
  <2>0. "SUB_RESP" \in E2Answers
    BY DEF E2Answers
  <2>1. CASE s0 = 0
    BY <1>2, <2>0, <2>1 DEF RicTakes, Same
  <2>2. CASE s0 = 1
    BY <1>2, <2>0, <2>2 DEF RicTakes
  <2>3. CASE s0 = 2 /\ i0 = 1
    BY <1>2, <2>0, <2>3 DEF RicTakes
  <2>4. CASE s0 = 2 /\ i0 # 1
    <3>1. i0 - 1 \in Nat /\ i0 - 1 > 0 /\ (i0 - 1) + 1 = i0
      BY <1>2, <2>4, Positions
    <3>2. MsgAt(x, "SUB_RESP", h, 2, n0, i0 - 1)'
      BY <1>2, <2>0, <2>4, <3>1 DEF RicTakes
    <3>. QED
      BY <2>4, <3>1, <3>2
  <2>. QED
    BY <2>1, <2>2, <2>3, <2>4
<1>3. ASSUME NEW s0 \in 0 .. 3, NEW s1 \in 0 .. 3, NEW s2 \in 0 .. 3, NEW s3 \in 0 .. 3,
             NEW i0 \in Nat, NEW i1 \in Nat, NEW i2 \in Nat, NEW i3 \in Nat,
             K(s0, i0, s1, i1), K(s2, i2, s3, i3)
      PROVE  Ahead(s0, i0, s2, i2) <=> Ahead(s1, i1, s3, i3)
    BY <1>3 DEF Ahead
<1>. HIDE DEF K
<1>4. PICK s0 \in 0 .. 3, i0 \in Nat : MsgAt(x, "IND", h, s0, n, i0) /\ K(s0, i0, s, i)
    BY <1>1
<1>5. ASSUME NEW s2 \in 0 .. 2, NEW n2 \in Nodes, NEW i2 \in Nat,
             MsgAt(x, "SUB_RESP", h, s2, n2, i2), Ahead(s2, i2, s0, i0)
      PROVE  \E s3 \in 0 .. 2, n3 \in Nodes, i3 \in Nat :
                MsgAt(x, "SUB_RESP", h, s3, n3, i3)' /\ Ahead(s3, i3, s, i)
  <2>1. PICK s3 \in 0 .. 2, i3 \in Nat : MsgAt(x, "SUB_RESP", h, s3, n2, i3)' /\ K(s2, i2, s3, i3)
    BY <1>2, <1>5
  <2>2. s2 \in 0 .. 3 /\ s3 \in 0 .. 3
    BY <2>1
  <2>3. Ahead(s3, i3, s, i)
    BY <1>3, <1>4, <1>5, <2>1, <2>2
  <2>. QED
    BY <2>1, <2>3
<1>6. ASSUME NEW s2 \in 0 .. 3, NEW n2 \in Nodes, NEW i2 \in Nat,
             MsgAt(x, "DEL_RESP", h, s2, n2, i2)', Ahead(s2, i2, s, i)
      PROVE  \E s3 \in 0 .. 3, n3 \in Nodes, i3 \in Nat :
                MsgAt(x, "DEL_RESP", h, s3, n3, i3) /\ Ahead(s3, i3, s0, i0)
  <2>1. PICK s3 \in 0 .. 3, i3 \in Nat : MsgAt(x, "DEL_RESP", h, s3, n2, i3) /\ K(s3, i3, s2, i2)
    BY <1>1, <1>6
  <2>2. Ahead(s3, i3, s0, i0)
    BY <1>3, <1>4, <1>6, <2>1
  <2>. QED
    BY <2>1, <2>2
<1>. QED
    BY <1>4, <1>5, <1>6 DEF Orderly

LEMMA PassRicDrops ==
    ASSUME TypeOK, NEW x \in XApps, RicDrops(x)
    PROVE  Passes(x)
<1>. SUFFICES ASSUME NEW h \in Nat, NEW s \in 0 .. 3, NEW n \in Nodes, NEW i \in Nat,
                     MsgAt(x, "IND", h, s, n, i)'
              PROVE  \E s0 \in 0 .. 3, i0 \in Nat :
                        MsgAt(x, "IND", h, s0, n, i0) /\ Orderly(x, h, s0, i0, s, i)
    BY DEF Passes
<1>. DEFINE K(s0, i0, s1, i1) ==
                     \/ s0 # 2 /\ s1 = s0 /\ i1 = i0
                     \/ s0 = 2 /\ s1 = 2 /\ i1 > 0 /\ i0 = i1 + 1
<1>1. ASSUME NEW t \in {"IND", "DEL_RESP"}, NEW s1 \in 0 .. 3, NEW n1 \in Nodes, NEW i1 \in Nat,
             MsgAt(x, t, h, s1, n1, i1)'
      PROVE  \E s0 \in 0 .. 3, i0 \in Nat : MsgAt(x, t, h, s0, n1, i0) /\ K(s0, i0, s1, i1)
  <2>0. t \in E2Answers
    BY DEF E2Answers
  <2>1. CASE s1 \in {0, 1, 3}
    BY <1>1, <2>0, <2>1 DEF RicDrops, Same
  <2>2. CASE s1 = 2
    BY <1>1, <2>0, <2>2 DEF RicDrops
  <2>. QED
    BY <2>1, <2>2
<1>2. ASSUME NEW s0 \in 0 .. 2, NEW n0 \in Nodes, NEW i0 \in Nat, MsgAt(x, "SUB_RESP", h, s0, n0, i0)
      PROVE  \E s1 \in 0 .. 2, i1 \in Nat : MsgAt(x, "SUB_RESP", h, s1, n0, i1)' /\ K(s0, i0, s1, i1)
  <2>0. "SUB_RESP" \in E2Answers
    BY DEF E2Answers
  <2>1. CASE s0 \in {0, 1}
    BY <1>2, <2>0, <2>1 DEF RicDrops, Same
  <2>2. CASE s0 = 2
    <3>0. i0 # 1
      BY <1>2, <2>0, <2>2 DEF RicDrops
    <3>1. i0 - 1 \in Nat /\ i0 - 1 > 0 /\ (i0 - 1) + 1 = i0
      BY <1>2, <2>2, <3>0, Positions
    <3>2. MsgAt(x, "SUB_RESP", h, 2, n0, i0 - 1)'
      BY <1>2, <2>0, <2>2, <3>1 DEF RicDrops
    <3>. QED
      BY <2>2, <3>1, <3>2
  <2>. QED
    BY <2>1, <2>2
<1>3. ASSUME NEW s0 \in 0 .. 3, NEW s1 \in 0 .. 3, NEW s2 \in 0 .. 3, NEW s3 \in 0 .. 3,
             NEW i0 \in Nat, NEW i1 \in Nat, NEW i2 \in Nat, NEW i3 \in Nat,
             K(s0, i0, s1, i1), K(s2, i2, s3, i3)
      PROVE  Ahead(s0, i0, s2, i2) <=> Ahead(s1, i1, s3, i3)
    BY <1>3 DEF Ahead
<1>. HIDE DEF K
<1>4. PICK s0 \in 0 .. 3, i0 \in Nat : MsgAt(x, "IND", h, s0, n, i0) /\ K(s0, i0, s, i)
    BY <1>1
<1>5. ASSUME NEW s2 \in 0 .. 2, NEW n2 \in Nodes, NEW i2 \in Nat,
             MsgAt(x, "SUB_RESP", h, s2, n2, i2), Ahead(s2, i2, s0, i0)
      PROVE  \E s3 \in 0 .. 2, n3 \in Nodes, i3 \in Nat :
                MsgAt(x, "SUB_RESP", h, s3, n3, i3)' /\ Ahead(s3, i3, s, i)
  <2>1. PICK s3 \in 0 .. 2, i3 \in Nat : MsgAt(x, "SUB_RESP", h, s3, n2, i3)' /\ K(s2, i2, s3, i3)
    BY <1>2, <1>5
  <2>2. s2 \in 0 .. 3 /\ s3 \in 0 .. 3
    BY <2>1
  <2>3. Ahead(s3, i3, s, i)
    BY <1>3, <1>4, <1>5, <2>1, <2>2
  <2>. QED
    BY <2>1, <2>3
<1>6. ASSUME NEW s2 \in 0 .. 3, NEW n2 \in Nodes, NEW i2 \in Nat,
             MsgAt(x, "DEL_RESP", h, s2, n2, i2)', Ahead(s2, i2, s, i)
      PROVE  \E s3 \in 0 .. 3, n3 \in Nodes, i3 \in Nat :
                MsgAt(x, "DEL_RESP", h, s3, n3, i3) /\ Ahead(s3, i3, s0, i0)
  <2>1. PICK s3 \in 0 .. 3, i3 \in Nat : MsgAt(x, "DEL_RESP", h, s3, n2, i3) /\ K(s3, i3, s2, i2)
    BY <1>1, <1>6
  <2>2. Ahead(s3, i3, s0, i0)
    BY <1>3, <1>4, <1>6, <2>1
  <2>. QED
    BY <2>1, <2>2
<1>. QED
    BY <1>4, <1>5, <1>6 DEF Orderly

LEMMA PassRicTells ==
    ASSUME TypeOK, NEW x \in XApps, RicTells(x), xst[x] # "aborted"
    PROVE  Passes(x)
<1>. SUFFICES ASSUME NEW h \in Nat, NEW s \in 0 .. 3, NEW n \in Nodes, NEW i \in Nat,
                     MsgAt(x, "IND", h, s, n, i)'
              PROVE  \E s0 \in 0 .. 3, i0 \in Nat :
                        MsgAt(x, "IND", h, s0, n, i0) /\ Orderly(x, h, s0, i0, s, i)
    BY DEF Passes
<1>. DEFINE K(s0, i0, s1, i1) ==
                     \/ s0 = 0 /\ s1 = 0 /\ i1 = i0 /\ i0 <= Len(xIn[x])
                     \/ s0 = 1 /\ i0 = 0 /\ s1 = 0 /\ i1 = Len(xIn[x]) + 1
                     \/ s0 \in {2, 3} /\ s1 = s0 /\ i1 = i0
<1>1. ASSUME NEW t \in {"IND", "DEL_RESP"}, NEW s1 \in 0 .. 3, NEW n1 \in Nodes, NEW i1 \in Nat,
             MsgAt(x, t, h, s1, n1, i1)'
      PROVE  \E s0 \in 0 .. 3, i0 \in Nat : MsgAt(x, t, h, s0, n1, i0) /\ K(s0, i0, s1, i1)
  <2>0. t \in E2Answers
    BY DEF E2Answers
  <2>1. CASE s1 \in {2, 3}
    BY <1>1, <2>0, <2>1 DEF RicTells, Same
  <2>2. CASE s1 = 1
    BY <1>1, <2>0, <2>2 DEF RicTells
  <2>3. CASE s1 = 0
    BY <1>1, <2>0, <2>3 DEF RicTells
  <2>. QED
    BY <2>1, <2>2, <2>3
<1>2. ASSUME NEW s0 \in 0 .. 2, NEW n0 \in Nodes, NEW i0 \in Nat, MsgAt(x, "SUB_RESP", h, s0, n0, i0)
      PROVE  \E s1 \in 0 .. 2, i1 \in Nat : MsgAt(x, "SUB_RESP", h, s1, n0, i1)' /\ K(s0, i0, s1, i1)
  <2>0. "SUB_RESP" \in E2Answers
    BY DEF E2Answers
  <2>1. CASE s0 = 2
    BY <1>2, <2>0, <2>1 DEF RicTells, Same
  <2>2. CASE s0 = 1
    BY <1>2, <2>0, <2>2 DEF RicTells
  <2>3. CASE s0 = 0
    BY <1>2, <2>0, <2>3 DEF RicTells
  <2>. QED
    BY <2>1, <2>2, <2>3
<1>l. Len(xIn[x]) \in Nat
    BY DEF RicTells
<1>3. ASSUME NEW s0 \in 0 .. 3, NEW s1 \in 0 .. 3, NEW s2 \in 0 .. 3, NEW s3 \in 0 .. 3,
             NEW i0 \in Nat, NEW i1 \in Nat, NEW i2 \in Nat, NEW i3 \in Nat,
             K(s0, i0, s1, i1), K(s2, i2, s3, i3)
      PROVE  Ahead(s0, i0, s2, i2) <=> Ahead(s1, i1, s3, i3)
    BY <1>3, <1>l DEF Ahead
<1>. HIDE DEF K
<1>4. PICK s0 \in 0 .. 3, i0 \in Nat : MsgAt(x, "IND", h, s0, n, i0) /\ K(s0, i0, s, i)
    BY <1>1
<1>5. ASSUME NEW s2 \in 0 .. 2, NEW n2 \in Nodes, NEW i2 \in Nat,
             MsgAt(x, "SUB_RESP", h, s2, n2, i2), Ahead(s2, i2, s0, i0)
      PROVE  \E s3 \in 0 .. 2, n3 \in Nodes, i3 \in Nat :
                MsgAt(x, "SUB_RESP", h, s3, n3, i3)' /\ Ahead(s3, i3, s, i)
  <2>1. PICK s3 \in 0 .. 2, i3 \in Nat : MsgAt(x, "SUB_RESP", h, s3, n2, i3)' /\ K(s2, i2, s3, i3)
    BY <1>2, <1>5
  <2>2. s2 \in 0 .. 3 /\ s3 \in 0 .. 3
    BY <2>1
  <2>3. Ahead(s3, i3, s, i)
    BY <1>3, <1>4, <1>5, <2>1, <2>2
  <2>. QED
    BY <2>1, <2>3
<1>6. ASSUME NEW s2 \in 0 .. 3, NEW n2 \in Nodes, NEW i2 \in Nat,
             MsgAt(x, "DEL_RESP", h, s2, n2, i2)', Ahead(s2, i2, s, i)
      PROVE  \E s3 \in 0 .. 3, n3 \in Nodes, i3 \in Nat :
                MsgAt(x, "DEL_RESP", h, s3, n3, i3) /\ Ahead(s3, i3, s0, i0)
  <2>1. PICK s3 \in 0 .. 3, i3 \in Nat : MsgAt(x, "DEL_RESP", h, s3, n2, i3) /\ K(s3, i3, s2, i2)
    BY <1>1, <1>6
  <2>2. Ahead(s3, i3, s0, i0)
    BY <1>3, <1>4, <1>6, <2>1
  <2>. QED
    BY <2>1, <2>2
<1>. QED
    BY <1>4, <1>5, <1>6 DEF Orderly

LEMMA PassAgLoses ==
    ASSUME TypeOK, NEW x \in XApps, AgLoses(x)
    PROVE  Passes(x)
<1>. SUFFICES ASSUME NEW h \in Nat, NEW s \in 0 .. 3, NEW n \in Nodes, NEW i \in Nat,
                     MsgAt(x, "IND", h, s, n, i)'
              PROVE  \E s0 \in 0 .. 3, i0 \in Nat :
                        MsgAt(x, "IND", h, s0, n, i0) /\ Orderly(x, h, s0, i0, s, i)
    BY DEF Passes
<1>. DEFINE K(s0, i0, s1, i1) ==
                     s1 = s0 /\ i1 = i0
<1>1. ASSUME NEW t \in {"IND", "DEL_RESP"}, NEW s1 \in 0 .. 3, NEW n1 \in Nodes, NEW i1 \in Nat,
             MsgAt(x, t, h, s1, n1, i1)'
      PROVE  \E s0 \in 0 .. 3, i0 \in Nat : MsgAt(x, t, h, s0, n1, i0) /\ K(s0, i0, s1, i1)
  <2>0. t \in E2Answers
    BY DEF E2Answers
  <2>1. CASE s1 \in 0 .. 2
    BY <1>1, <2>0, <2>1 DEF AgLoses, Same
  <2>2. CASE s1 = 3
    BY <1>1, <2>0, <2>2 DEF AgLoses
  <2>. QED
    BY <2>1, <2>2
<1>2. ASSUME NEW s0 \in 0 .. 2, NEW n0 \in Nodes, NEW i0 \in Nat, MsgAt(x, "SUB_RESP", h, s0, n0, i0)
      PROVE  \E s1 \in 0 .. 2, i1 \in Nat : MsgAt(x, "SUB_RESP", h, s1, n0, i1)' /\ K(s0, i0, s1, i1)
  <2>0. "SUB_RESP" \in E2Answers
    BY DEF E2Answers
  <2>1. CASE s0 \in 0 .. 2
    BY <1>2, <2>0, <2>1 DEF AgLoses, Same
  <2>. QED
    BY <2>1
<1>3. ASSUME NEW s0 \in 0 .. 3, NEW s1 \in 0 .. 3, NEW s2 \in 0 .. 3, NEW s3 \in 0 .. 3,
             NEW i0 \in Nat, NEW i1 \in Nat, NEW i2 \in Nat, NEW i3 \in Nat,
             K(s0, i0, s1, i1), K(s2, i2, s3, i3)
      PROVE  Ahead(s0, i0, s2, i2) <=> Ahead(s1, i1, s3, i3)
    BY <1>3 DEF Ahead
<1>. HIDE DEF K
<1>4. PICK s0 \in 0 .. 3, i0 \in Nat : MsgAt(x, "IND", h, s0, n, i0) /\ K(s0, i0, s, i)
    BY <1>1
<1>5. ASSUME NEW s2 \in 0 .. 2, NEW n2 \in Nodes, NEW i2 \in Nat,
             MsgAt(x, "SUB_RESP", h, s2, n2, i2), Ahead(s2, i2, s0, i0)
      PROVE  \E s3 \in 0 .. 2, n3 \in Nodes, i3 \in Nat :
                MsgAt(x, "SUB_RESP", h, s3, n3, i3)' /\ Ahead(s3, i3, s, i)
  <2>1. PICK s3 \in 0 .. 2, i3 \in Nat : MsgAt(x, "SUB_RESP", h, s3, n2, i3)' /\ K(s2, i2, s3, i3)
    BY <1>2, <1>5
  <2>2. s2 \in 0 .. 3 /\ s3 \in 0 .. 3
    BY <2>1
  <2>3. Ahead(s3, i3, s, i)
    BY <1>3, <1>4, <1>5, <2>1, <2>2
  <2>. QED
    BY <2>1, <2>3
<1>6. ASSUME NEW s2 \in 0 .. 3, NEW n2 \in Nodes, NEW i2 \in Nat,
             MsgAt(x, "DEL_RESP", h, s2, n2, i2)', Ahead(s2, i2, s, i)
      PROVE  \E s3 \in 0 .. 3, n3 \in Nodes, i3 \in Nat :
                MsgAt(x, "DEL_RESP", h, s3, n3, i3) /\ Ahead(s3, i3, s0, i0)
  <2>1. PICK s3 \in 0 .. 3, i3 \in Nat : MsgAt(x, "DEL_RESP", h, s3, n2, i3) /\ K(s3, i3, s2, i2)
    BY <1>1, <1>6
  <2>2. Ahead(s3, i3, s0, i0)
    BY <1>3, <1>4, <1>6, <2>1
  <2>. QED
    BY <2>1, <2>2
<1>. QED
    BY <1>4, <1>5, <1>6 DEF Orderly

LEMMA PassXReads ==
    ASSUME TypeOK, NEW x \in XApps, XReads(x), \A h \in Nat, n \in Nodes : ~MsgAt(x, "SUB_RESP", h, 0, n, 1)
    PROVE  Passes(x)
<1>. SUFFICES ASSUME NEW h \in Nat, NEW s \in 0 .. 3, NEW n \in Nodes, NEW i \in Nat,
                     MsgAt(x, "IND", h, s, n, i)'
              PROVE  \E s0 \in 0 .. 3, i0 \in Nat :
                        MsgAt(x, "IND", h, s0, n, i0) /\ Orderly(x, h, s0, i0, s, i)
    BY DEF Passes
<1>. DEFINE K(s0, i0, s1, i1) ==
                     \/ s0 = 0 /\ s1 = 0 /\ i1 > 0 /\ i0 = i1 + 1
                     \/ s0 # 0 /\ s1 = s0 /\ i1 = i0
<1>1. ASSUME NEW t \in {"IND", "DEL_RESP"}, NEW s1 \in 0 .. 3, NEW n1 \in Nodes, NEW i1 \in Nat,
             MsgAt(x, t, h, s1, n1, i1)'
      PROVE  \E s0 \in 0 .. 3, i0 \in Nat : MsgAt(x, t, h, s0, n1, i0) /\ K(s0, i0, s1, i1)
  <2>0. t \in E2Answers
    BY DEF E2Answers
  <2>1. CASE s1 \in 1 .. 3
    BY <1>1, <2>0, <2>1 DEF XReads, Same
  <2>2. CASE s1 = 0
    BY <1>1, <2>0, <2>2 DEF XReads
  <2>. QED
    BY <2>1, <2>2
<1>2. ASSUME NEW s0 \in 0 .. 2, NEW n0 \in Nodes, NEW i0 \in Nat, MsgAt(x, "SUB_RESP", h, s0, n0, i0)
      PROVE  \E s1 \in 0 .. 2, i1 \in Nat : MsgAt(x, "SUB_RESP", h, s1, n0, i1)' /\ K(s0, i0, s1, i1)
  <2>0. "SUB_RESP" \in E2Answers
    BY DEF E2Answers
  <2>1. CASE s0 \in 1 .. 2
    BY <1>2, <2>0, <2>1 DEF XReads, Same
  <2>2. CASE s0 = 0
    <3>1. i0 - 1 \in Nat /\ i0 - 1 > 0 /\ (i0 - 1) + 1 = i0
      BY <1>2, <2>2, Positions
    <3>2. MsgAt(x, "SUB_RESP", h, 0, n0, i0 - 1)'
      BY <1>2, <2>0, <2>2, <3>1 DEF XReads
    <3>. QED
      BY <2>2, <3>1, <3>2
  <2>. QED
    BY <2>1, <2>2
<1>3. ASSUME NEW s0 \in 0 .. 3, NEW s1 \in 0 .. 3, NEW s2 \in 0 .. 3, NEW s3 \in 0 .. 3,
             NEW i0 \in Nat, NEW i1 \in Nat, NEW i2 \in Nat, NEW i3 \in Nat,
             K(s0, i0, s1, i1), K(s2, i2, s3, i3)
      PROVE  Ahead(s0, i0, s2, i2) <=> Ahead(s1, i1, s3, i3)
    BY <1>3 DEF Ahead
<1>. HIDE DEF K
<1>4. PICK s0 \in 0 .. 3, i0 \in Nat : MsgAt(x, "IND", h, s0, n, i0) /\ K(s0, i0, s, i)
    BY <1>1
<1>5. ASSUME NEW s2 \in 0 .. 2, NEW n2 \in Nodes, NEW i2 \in Nat,
             MsgAt(x, "SUB_RESP", h, s2, n2, i2), Ahead(s2, i2, s0, i0)
      PROVE  \E s3 \in 0 .. 2, n3 \in Nodes, i3 \in Nat :
                MsgAt(x, "SUB_RESP", h, s3, n3, i3)' /\ Ahead(s3, i3, s, i)
  <2>1. PICK s3 \in 0 .. 2, i3 \in Nat : MsgAt(x, "SUB_RESP", h, s3, n2, i3)' /\ K(s2, i2, s3, i3)
    BY <1>2, <1>5
  <2>2. s2 \in 0 .. 3 /\ s3 \in 0 .. 3
    BY <2>1
  <2>3. Ahead(s3, i3, s, i)
    BY <1>3, <1>4, <1>5, <2>1, <2>2
  <2>. QED
    BY <2>1, <2>3
<1>6. ASSUME NEW s2 \in 0 .. 3, NEW n2 \in Nodes, NEW i2 \in Nat,
             MsgAt(x, "DEL_RESP", h, s2, n2, i2)', Ahead(s2, i2, s, i)
      PROVE  \E s3 \in 0 .. 3, n3 \in Nodes, i3 \in Nat :
                MsgAt(x, "DEL_RESP", h, s3, n3, i3) /\ Ahead(s3, i3, s0, i0)
  <2>1. PICK s3 \in 0 .. 3, i3 \in Nat : MsgAt(x, "DEL_RESP", h, s3, n2, i3) /\ K(s3, i3, s2, i2)
    BY <1>1, <1>6
  <2>2. Ahead(s3, i3, s0, i0)
    BY <1>3, <1>4, <1>6, <2>1
  <2>. QED
    BY <2>1, <2>2
<1>. QED
    BY <1>4, <1>5, <1>6 DEF Orderly

LEMMA PassIAppArms ==
    ASSUME TypeOK, NEW x \in XApps, IAppArms(x)
    PROVE  Passes(x)
<1>1. CASE ~Clash'
  <2>1. Same(x, 0 .. 3)
    BY <1>1 DEF IAppArms, Same
  <2>. QED
    BY <2>1, PassSame
<1>2. CASE Clash'
  <2>. SUFFICES ASSUME NEW h \in Nat, NEW s \in 0 .. 3, NEW n \in Nodes, NEW i \in Nat,
                       MsgAt(x, "IND", h, s, n, i)'
                PROVE  MsgAt(x, "IND", h, s, n, i) /\ Orderly(x, h, s, i, s, i)
    BY DEF Passes
  <2>0. {"IND", "SUB_RESP", "DEL_RESP"} \subseteq E2Answers
    BY DEF E2Answers
  <2>1. s \in {0, 1}
    BY <1>2, <2>0 DEF IAppArms
  <2>2. ASSUME NEW t \in {"IND", "DEL_RESP"}, NEW s1 \in {0, 1}, NEW n1 \in Nodes,
               NEW i1 \in Nat, MsgAt(x, t, h, s1, n1, i1)'
        PROVE  MsgAt(x, t, h, s1, n1, i1)
    BY <2>0, <2>2 DEF IAppArms, Same
  <2>3. ASSUME NEW s2 \in 0 .. 2, NEW n2 \in Nodes, NEW i2 \in Nat,
               MsgAt(x, "SUB_RESP", h, s2, n2, i2), Ahead(s2, i2, s, i)
        PROVE  MsgAt(x, "SUB_RESP", h, s2, n2, i2)'
    <3>1. s = 1 => i = 0
      BY DEF MsgAt
    <3>2. s2 = 0
      BY <2>1, <2>3, <3>1 DEF Ahead
    <3>. QED
      BY <2>0, <2>3, <3>2 DEF IAppArms, Same
  <2>4. ASSUME NEW s2 \in 0 .. 3, NEW n2 \in Nodes, NEW i2 \in Nat,
               MsgAt(x, "DEL_RESP", h, s2, n2, i2)', Ahead(s2, i2, s, i)
        PROVE  MsgAt(x, "DEL_RESP", h, s2, n2, i2)
    <3>1. s2 \in {0, 1}
      BY <2>1, <2>4 DEF Ahead
    <3>. QED
      BY <2>2, <2>4, <3>1
  <2>5. Orderly(x, h, s, i, s, i)
    BY <2>3, <2>4 DEF Orderly
  <2>. QED
    BY <2>1, <2>2, <2>5
<1>. QED
    BY <1>1, <1>2

LEMMA PassAgIndicates ==
    ASSUME TypeOK, NEW x \in XApps, AgIndicates(x)
    PROVE  Passes(x)
<1>. SUFFICES ASSUME NEW h \in Nat, NEW s \in 0 .. 3, NEW n \in Nodes, NEW i \in Nat,
                     MsgAt(x, "IND", h, s, n, i)'
              PROVE  \E s0 \in 0 .. 3, i0 \in Nat :
                        MsgAt(x, "IND", h, s0, n, i0) /\ Orderly(x, h, s0, i0, s, i)
    BY DEF Passes
<1>0. {"IND", "SUB_RESP", "DEL_RESP"} \subseteq E2Answers
    BY DEF E2Answers
<1>1. ASSUME NEW s2 \in 0 .. 2, NEW n2 \in Nodes, NEW i2 \in Nat, MsgAt(x, "SUB_RESP", h, s2, n2, i2)
      PROVE  MsgAt(x, "SUB_RESP", h, s2, n2, i2)' /\ (s2 = 2 => i2 <= Len(ricIn) /\ Len(ricIn) \in Nat)
    BY <1>0, <1>1 DEF AgIndicates, Same
<1>2. ASSUME NEW s2 \in 0 .. 3, NEW n2 \in Nodes, NEW i2 \in Nat, MsgAt(x, "DEL_RESP", h, s2, n2, i2)'
      PROVE  MsgAt(x, "DEL_RESP", h, s2, n2, i2)
    BY <1>0, <1>2 DEF AgIndicates, Same
<1>3. CASE MsgAt(x, "IND", h, s, n, i)
  <2>1. Orderly(x, h, s, i, s, i)
    BY <1>1, <1>2 DEF Orderly
  <2>. QED
    BY <1>3, <2>1
<1>4. CASE ~MsgAt(x, "IND", h, s, n, i)
  <2>1. s = 2
    BY <1>0, <1>4 DEF AgIndicates, Same
  <2>2. MsgAt(x, "IND", h, 3, n, 0) /\ i = Len(ricIn) + 1 /\ Len(ricIn) \in Nat
    BY <1>0, <1>4, <2>1 DEF AgIndicates
  <2>3. \A s2 \in 0 .. 2, n2 \in Nodes, i2 \in Nat :
          MsgAt(x, "SUB_RESP", h, s2, n2, i2) =>
            MsgAt(x, "SUB_RESP", h, s2, n2, i2)' /\ Ahead(s2, i2, s, i)
    <3>1. ASSUME NEW s2 \in 0 .. 2, NEW i2 \in Nat, s2 = 2 => i2 <= Len(ricIn)
          PROVE  Ahead(s2, i2, s, i)
      BY <2>1, <2>2, <3>1 DEF Ahead
    <3>. QED
      BY <1>1, <3>1
  <2>4. ASSUME NEW s2 \in 0 .. 3, NEW n2 \in Nodes, NEW i2 \in Nat,
               MsgAt(x, "DEL_RESP", h, s2, n2, i2)', Ahead(s2, i2, s, i)
        PROVE  MsgAt(x, "DEL_RESP", h, s2, n2, i2) /\ Ahead(s2, i2, 3, 0)
    BY <1>2, <2>1, <2>4 DEF Ahead
  <2>5. Orderly(x, h, 3, 0, s, i)
    BY <2>3, <2>4 DEF Orderly
  <2>. QED
    BY <2>2, <2>5
<1>. QED
    BY <1>3, <1>4

\* A subscription that its node accepts starts behind its response.
Starts(x, h, s) ==
    /\ s = 3
    /\ \E k \in Nodes : MsgAt(x, "SUB_RESP", h, 4, k, 1)
    /\ \E k \in Nodes, j \in Nat : MsgAt(x, "SUB_RESP", h, 2, k, j)'

LEMMA PassAgAnswers ==
    ASSUME TypeOK, RoutingInv, OwnersInv, NEW x \in XApps, NEW k \in Nodes, AgAnswers(x, k),
           NEW h \in Nat, NEW s \in 0 .. 3, NEW n \in Nodes, NEW i \in Nat,
           MsgAt(x, "IND", h, s, n, i)'
    PROVE  \/ MsgAt(x, "IND", h, s, n, i) /\ Orderly(x, h, s, i, s, i)
           \/ Starts(x, h, s)
<1>0. {"IND", "SUB_RESP", "DEL_RESP"} \subseteq E2Answers /\ Len(ricIn) \in Nat
    BY DEF E2Answers, AgAnswers
<1>1. CASE MsgAt(x, "IND", h, s, n, i)
  <2>1. ASSUME NEW s2 \in 0 .. 2, NEW n2 \in Nodes, NEW i2 \in Nat, MsgAt(x, "SUB_RESP", h, s2, n2, i2)
        PROVE  MsgAt(x, "SUB_RESP", h, s2, n2, i2)'
    BY <1>0, <2>1 DEF AgAnswers, Same
  <2>2. ASSUME NEW s2 \in 0 .. 3, NEW n2 \in Nodes, NEW i2 \in Nat,
               MsgAt(x, "DEL_RESP", h, s2, n2, i2)', Ahead(s2, i2, s, i)
        PROVE  MsgAt(x, "DEL_RESP", h, s2, n2, i2)
    <3>1. CASE s2 \in {0, 1}
      BY <1>0, <2>2, <3>1 DEF AgAnswers, Same
    <3>2. CASE s2 = 3
      BY <1>0, <2>2, <3>2 DEF AgAnswers
    <3>3. CASE s2 = 2
      <4>0. SUFFICES ASSUME ~MsgAt(x, "DEL_RESP", h, 2, n2, i2) PROVE FALSE
        BY <3>3
      <4>1. n2 = k /\ i2 = Len(ricIn) + 1 /\ MsgAt(x, "DEL_RESP", h, 4, k, 1)
        BY <1>0, <2>2, <3>3, <4>0 DEF AgAnswers
      <4>2. CASE s = 2
        <5>1. i <= Len(ricIn)
          BY <1>0, <1>1, <4>2 DEF AgAnswers
        <5>. QED
          BY <1>0, <2>2, <3>3, <4>1, <4>2, <5>1 DEF Ahead
      <4>3. CASE s = 3
        <5>1. PICK rid, rid2 : NamesAt(x, h, k, rid) /\ NamesAt(x, h, n, rid2)
          BY <1>1, <4>1, <4>3, Positions
        <5>2. n = k
          BY <5>1, NamesUnique
        <5>3. MsgAt(x, "IND", h, 3, k, i)'
          BY <4>3, <5>2
        <5>4. "IND" \in E2Answers
          BY <1>0
        <5>. QED
          BY <4>1, <5>3, <5>4 DEF AgAnswers
      <4>4. s \in {2, 3}
        BY <2>2, <3>3 DEF Ahead
      <4>. QED
        BY <4>2, <4>3, <4>4
    <3>. QED
      BY <3>1, <3>2, <3>3
  <2>3. Orderly(x, h, s, i, s, i)
    BY <2>1, <2>2 DEF Orderly
  <2>. QED
    BY <1>1, <2>3
<1>2. CASE ~MsgAt(x, "IND", h, s, n, i)
  <2>1. s \notin {0, 1}
    BY <1>0, <1>2 DEF AgAnswers, Same
  <2>2. s # 2
    <3>1. ~MsgAt(x, "IND", h, 4, k, 1)
      BY Positions
    <3>. QED
      BY <1>0, <1>2, <3>1 DEF AgAnswers
  <2>3. s = 3
    BY <2>1, <2>2
  <2>4. MsgAt(x, "SUB_RESP", h, 4, k, 1)
    BY <1>0, <1>2, <2>3 DEF AgAnswers
  <2>5. PICK j \in Nat : j = Len(ricIn) + 1
    BY <1>0
  <2>6. "SUB_RESP" \in E2Answers
    BY <1>0
  <2>7. MsgAt(x, "SUB_RESP", h, 2, k, j)'
    BY <2>4, <2>5, <2>6 DEF AgAnswers
  <2>. QED
    BY <2>3, <2>4, <2>7 DEF Starts
<1>. QED
    BY <1>1, <1>2

\* What IndsInv says about an indication of request h at position i of stage s.
InPlace(x, h, s, i) ==
    /\ h \in active[x] /\ xop[x] # [ans |-> "CTRL_ACK", h |-> h]
    /\ xop[x] = [ans |-> "SUB_RESP", h |-> h] =>
         \E s2 \in 0 .. 2, n2 \in Nodes, i2 \in Nat :
            MsgAt(x, "SUB_RESP", h, s2, n2, i2) /\ Ahead(s2, i2, s, i)
    /\ xop[x] = [ans |-> "DEL_RESP", h |-> h] =>
         \A s2 \in 0 .. 7, n2 \in Nodes, i2 \in Nat :
            MsgAt(x, "DEL_RESP", h, s2, n2, i2) => ~Ahead(s2, i2, s, i)

LEMMA IndsAre ==
    IndsInv <=> \A x \in XApps, h \in Nat, s \in 0 .. 3, n \in Nodes, i \in Nat :
                  MsgAt(x, "IND", h, s, n, i) /\ xst[x] # "aborted" => InPlace(x, h, s, i)
BY DEF IndsInv, InPlace

LEMMA IndInPlace ==
    ASSUME IndsInv, NEW x \in XApps, NEW h \in Nat, NEW s \in 0 .. 3, NEW n \in Nodes,
           NEW i \in Nat, MsgAt(x, "IND", h, s, n, i), xst[x] # "aborted"
    PROVE  InPlace(x, h, s, i)
BY IndsAre

\* Where the indications of x come from.
Moves(x) ==
    \A h \in Nat, s \in 0 .. 3, n \in Nodes, i \in Nat :
        MsgAt(x, "IND", h, s, n, i)' =>
          \/ \E s0 \in 0 .. 3, i0 \in Nat :
               MsgAt(x, "IND", h, s0, n, i0) /\ Orderly(x, h, s0, i0, s, i)
          \/ Starts(x, h, s)

LEMMA SameMoves ==
    ASSUME TypeOK, NEW x \in XApps, Same(x, 0 .. 3) \/ Same(x, 0 .. 6) \/ Same(x, 0 .. 7)
    PROVE  Moves(x)
<1>1. Same(x, 0 .. 3)
    BY DEF Same
<1>. QED
    BY <1>1, PassSame DEF Passes, Moves

\* Unless x handles an answer or dies, its indications stay in their place.
LEMMA MovesStep ==
    ASSUME TypeOK, RoutingInv, OwnersInv, WaitsInv, [Next]_vars, NEW x \in XApps,
           xst[x] # "aborted", ~XAppAnswer(x), ~XAppAbort(x)
    PROVE  Moves(x)
<1>p. Passes(x) => Moves(x)
    BY DEF Passes, Moves
<1>a. CASE \E why : Abort(why)
    BY <1>a, MoveRicNothing, SameMoves
<1>0. SUFFICES ASSUME ~\E why : Abort(why) PROVE Moves(x)
    BY <1>a
<1>1. CASE \/ RicAddNode \/ RicAcceptNode \/ RicEraseConn \/ RicRmNode \/ RicTimeout
           \/ IAppRegXApp \/ IAppSetupResponse \/ IAppLock \/ IAppAddMap \/ UNCHANGED vars
    BY <1>1, MoveRicNothing, SameMoves
<1>2. CASE RicSetupRequest \/ RicShutdown
    BY <1>0, <1>2, <1>p, MoveRicDrop, PassRicDrops
<1>3. CASE RicAnswer \/ RicIndication
    BY <1>0, <1>3, <1>p, MoveRicTake, PassRicTakes
<1>4. CASE RicLookup
    BY <1>0, <1>4, MoveRicLookup, SameMoves
<1>5. CASE RicNotify
    BY <1>0, <1>5, <1>p, MoveRicNotify, PassRicTells
<1>6. CASE IAppSetupRequest
  <2>1. Same(x, 0 .. 3)
    BY <1>6, MoveIAppDrop DEF IAppDrops, Same
  <2>. QED
    BY <2>1, SameMoves
<1>7. CASE IAppRequest \/ IAppDelete
  <2>1. Same(x, 0 .. 3)
    BY <1>0, <1>7, MoveIAppTake DEF IAppTakes, Same
  <2>. QED
    BY <2>1, SameMoves
<1>8. CASE IAppStartTimer \/ IAppDeleteTimer
    BY <1>8, <1>p, MoveStartTimer, MoveDeleteTimer, PassIAppArms
<1>9. CASE IAppForward
  <2>1. Same(x, 0 .. 3)
    BY <1>0, <1>9, MoveIAppForward DEF IAppSends, Same
  <2>. QED
    BY <2>1, SameMoves
<1>10. ASSUME NEW k \in Nodes, AgStart(k) \/ AgResendSetup(k) PROVE Moves(x)
    BY <1>10, MoveAgNothing, SameMoves
<1>11. ASSUME NEW k \in Nodes, AgAbort(k) \/ AgStop(k) PROVE Moves(x)
    BY <1>11, <1>p, MoveAgLose, PassAgLoses
<1>12. ASSUME NEW k \in Nodes, AgSetupResponse(k), ~AgAbort(k) PROVE Moves(x)
  <2>1. Same(x, 0 .. 3)
    BY <1>12, MoveAgRead DEF AgReads, Same
  <2>. QED
    BY <2>1, SameMoves
<1>13. ASSUME NEW k \in Nodes, AgSubscription(k) \/ AgDelete(k) \/ AgControl(k), ~AgAbort(k)
       PROVE  Moves(x)
  <2>1. AgAnswers(x, k)
    BY <1>13, MoveAgAnswer
  <2>. QED
    BY <2>1, PassAgAnswers DEF Moves
<1>14. ASSUME NEW k \in Nodes, AgIndication(k) PROVE Moves(x)
    BY <1>14, <1>p, MoveAgIndication, PassAgIndicates
<1>15. ASSUME NEW y \in XApps, XAppStart(y) \/ XAppResendSetup(y) PROVE Moves(x)
    BY <1>15, MoveXNothing, SameMoves
<1>16. ASSUME NEW y \in XApps, XAppAbort(y) PROVE Moves(x)
    BY <1>16, MoveXLose, SameMoves
<1>17. ASSUME NEW y \in XApps, XAppLoop(y), ~XAppAbort(y), y # x PROVE Moves(x)
    BY <1>17, MoveXRead, SameMoves DEF XAppLoop, XAppTimeout
<1>18. CASE XAppSetupResponse(x) \/ XAppIndication(x)
  <2>1. XReads(x)
    BY <1>18, MoveXRead
  <2>2. ASSUME NEW h \in Nat, NEW n \in Nodes PROVE ~MsgAt(x, "SUB_RESP", h, 0, n, 1)
    <3>1. xIn[x] \in Seq(ToXApp) /\ xIn[x] # <<>> /\ Head(xIn[x]).type # "SUB_RESP"
      BY <1>18 DEF XAppSetupResponse, XAppIndication, XReceives, TypeOK, TypeXApps
    <3>2. xIn[x][1] = Head(xIn[x])
      BY <3>1, TailElements
    <3>. QED
      BY <3>1, <3>2 DEF MsgAt
  <2>. QED
    BY <1>p, <2>1, <2>2, PassXReads
<1>19. ASSUME NEW y \in XApps, NEW c \in {"SUB_REQ", "DEL_REQ", "CTRL_REQ"}, NEW g \in Nat,
              NEW k \in Nodes, NEW f \in RanFuncs, xst[y] = "idle",
              iappIn' = Append(iappIn, [type |-> c, xid |-> xid[y], h |-> g, node |-> k, rf |-> f]),
              UNCHANGED <<ricVars, iappVars, ricIn, xIn, agIn, agSubs, reqId>>
       PROVE  Moves(x)
  <2>1. IF x = y THEN XAsks(x, AnswerTo(c), g, k) ELSE Same(x, 0 .. 7)
    BY <1>19, MoveXAsk
  <2>2. Same(x, 0 .. 6) \/ Same(x, 0 .. 7)
    BY <2>1 DEF XAsks
  <2>. QED
    BY <2>2, SameMoves
<1>20. ASSUME NEW y \in XApps, XAppUnsubscribe(y) PROVE Moves(x)
  <2>1. PICK h \in active[y] :
          iappIn' = Append(iappIn, [type |-> "DEL_REQ", xid |-> xid[y], h |-> h,
                                    node |-> issued[y][h].node, rf |-> issued[y][h].rf])
    BY <1>20 DEF XAppUnsubscribe, SendToIApp
  <2>2. h \in Nat /\ issued[y][h].node \in Nodes /\ issued[y][h].rf \in RanFuncs
    <3>1. issued[y] \in Seq(Requests) /\ h \in DOMAIN issued[y]
      BY <2>1 DEF TypeOK, TypeXApps
    <3>2. issued[y][h] \in Requests /\ h \in Nat
      BY <3>1
    <3>. QED
      BY <3>2 DEF Requests
  <2>3. UNCHANGED <<ricVars, iappVars, ricIn, xIn, agIn, agSubs, reqId>> /\ xst[y] = "idle"
    BY <1>20 DEF XAppUnsubscribe, agVars, shared
  <2>. QED
    BY <1>19, <2>1, <2>2, <2>3
<1>21. ASSUME NEW y \in XApps, NEW c \in {"SUB_REQ", "CTRL_REQ"}, NEW k \in Nodes,
              NEW f \in RanFuncs, XAppRequest(y, c, k, f)
       PROVE  Moves(x)
  <2>. DEFINE h == Len(issued[y]) + 1
  <2>1. /\ iappIn' = Append(iappIn, [type |-> c, xid |-> xid[y], h |-> h, node |-> k, rf |-> f])
        /\ xst[y] = "idle"
        /\ UNCHANGED <<ricVars, iappVars, ricIn, xIn, agIn, agSubs, reqId>>
    BY <1>21 DEF XAppRequest, SendToIApp, agVars, shared
  <2>2. h \in Nat
    BY DEF TypeOK, TypeXApps
  <2>. HIDE DEF h
  <2>. QED
    BY <1>19, <1>21, <2>1, <2>2
<1>22. ASSUME NEW k \in Nodes, AgentLoop(k) PROVE Moves(x)
    BY <1>11, <1>12, <1>13, <1>22 DEF AgentLoop
<1>23. ASSUME NEW y \in XApps, XAppLoop(y) PROVE Moves(x)
    BY <1>16, <1>17, <1>18, <1>23 DEF XAppLoop, XAppTimeout
<1>. QED
    BY <1>1, <1>2, <1>3, <1>4, <1>5, <1>6, <1>7, <1>8, <1>9, <1>10, <1>11, <1>14,
       <1>15, <1>20, <1>21, <1>22, <1>23 DEF Next, RicThread, IAppThread

\* Which steps change the state of x.
LEMMA OwnSteps ==
    ASSUME TypeOK, [Next]_vars, NEW x \in XApps
    PROVE  \/ UNCHANGED <<xst[x], xop[x], active[x]>>
           \/ XAppStart(x) \/ XAppSetupResponse(x) \/ XAppAnswer(x) \/ XAppUnsubscribe(x)
           \/ XAppRequests(x) \/ XAppTimeout(x)
<1>t. /\ xst \in [XApps -> {"off", "connecting", "idle", "waiting", "aborted"}]
      /\ xop \in [XApps -> [ans : {"SUB_RESP", "DEL_RESP", "CTRL_ACK"}, h : Nat] \cup {NoOp}]
      /\ active \in [XApps -> SUBSET Nat]
    BY DEF TypeOK, TypeXApps
<1>1. CASE RicThread \/ RicTimeout
    BY <1>1, RicFrames DEF RicFrame
<1>2. CASE IAppThread
    BY <1>2, IAppFrames DEF IAppFrame
<1>3. ASSUME NEW n \in Nodes, AgentStep(n) PROVE UNCHANGED <<xst[x], xop[x], active[x]>>
    BY <1>3, AgFrames DEF AgFrame, xVars
<1>4. CASE UNCHANGED vars
    BY <1>4 DEF vars, xVars
<1>5. ASSUME NEW y \in XApps, XAppStep(y), y # x PROVE UNCHANGED <<xst[x], xop[x], active[x]>>
    BY <1>5, <1>t DEF XAppStep, XAppLoop, XAppTimeout, XAppStart, XAppResendSetup, XAppUnsubscribe,
         XAppRequests, XAppRequest, XAppSetupResponse, XAppAnswer, XAppIndication, XAppAbort
<1>6. CASE XAppResendSetup(x) \/ XAppIndication(x)
    BY <1>6 DEF XAppResendSetup, XAppIndication
<1>. QED
    BY <1>1, <1>2, <1>3, <1>4, <1>5, <1>6 DEF Next, AgentStep, XAppStep, XAppLoop, XAppRequests

\* An indication that stays in its place, or the first of a subscription.
LEMMA PlaceKept ==
    ASSUME TypeOK, OneTokenInv, WaitsInv, IndsInv, NEW x \in XApps, Moves(x),
           xst[x] # "aborted", UNCHANGED <<xst[x], xop[x], active[x]>>,
           NEW h \in Nat, NEW s \in 0 .. 3, NEW n \in Nodes, NEW i \in Nat,
           MsgAt(x, "IND", h, s, n, i)'
    PROVE  InPlace(x, h, s, i)'
<1>1. CASE Starts(x, h, s)
  <2>1. s = 3
    BY <1>1 DEF Starts
  <2>2. PICK k \in Nodes : MsgAt(x, "SUB_RESP", h, 4, k, 1)
    BY <1>1 DEF Starts
  <2>3. PICK k2 \in Nodes, j \in Nat : MsgAt(x, "SUB_RESP", h, 2, k2, j)'
    BY <1>1 DEF Starts
  <2>4. "SUB_RESP" \in AnswerTypes
    BY DEF AnswerTypes, E2Answers
  <2>5. xop[x] = [ans |-> "SUB_RESP", h |-> h] /\ h \in active[x]
    BY <2>2, <2>4, TokenOwner
  <2>6. Ahead(2, j, s, i)
    BY <2>1 DEF Ahead
  <2>. QED
    BY <2>3, <2>5, <2>6 DEF InPlace
<1>2. ASSUME NEW s0 \in 0 .. 3, NEW i0 \in Nat,
             MsgAt(x, "IND", h, s0, n, i0) /\ Orderly(x, h, s0, i0, s, i)
      PROVE  InPlace(x, h, s, i)'
  <2>1. InPlace(x, h, s0, i0)
    BY <1>2, IndInPlace
  <2>2. ASSUME xop[x] = [ans |-> "SUB_RESP", h |-> h]
        PROVE  \E s3 \in 0 .. 2, n3 \in Nodes, i3 \in Nat :
                 MsgAt(x, "SUB_RESP", h, s3, n3, i3)' /\ Ahead(s3, i3, s, i)
    <3>1. PICK s2 \in 0 .. 2, n2 \in Nodes, i2 \in Nat :
            MsgAt(x, "SUB_RESP", h, s2, n2, i2) /\ Ahead(s2, i2, s0, i0)
      BY <2>1, <2>2 DEF InPlace
    <3>. QED
      BY <1>2, <3>1 DEF Orderly
  <2>3. ASSUME xop[x] = [ans |-> "DEL_RESP", h |-> h], NEW s2 \in 0 .. 7, NEW n2 \in Nodes,
               NEW i2 \in Nat, MsgAt(x, "DEL_RESP", h, s2, n2, i2)', Ahead(s2, i2, s, i)
        PROVE  FALSE
    <3>1. s2 \in 0 .. 3
      BY <2>3 DEF Ahead
    <3>2. PICK s3 \in 0 .. 3, n3 \in Nodes, i3 \in Nat :
             MsgAt(x, "DEL_RESP", h, s3, n3, i3) /\ Ahead(s3, i3, s0, i0)
      BY <1>2, <2>3, <3>1 DEF Orderly
    <3>3. s3 \in 0 .. 7
      OBVIOUS
    <3>. QED
      BY <2>1, <2>3, <3>2, <3>3 DEF InPlace
  <2>. QED
    BY <2>1, <2>2, <2>3 DEF InPlace
<1>. QED
    BY <1>1, <1>2 DEF Moves

LEMMA IndsStep ==
    ASSUME TypeOK, RoutingInv, OwnersInv, WaitsInv, OneTokenInv, IndsInv, [Next]_vars
    PROVE  IndsInv'
<1>. SUFFICES ASSUME NEW x \in XApps, NEW h \in Nat, NEW s \in 0 .. 3, NEW n \in Nodes,
                     NEW i \in Nat, MsgAt(x, "IND", h, s, n, i)', xst'[x] # "aborted"
              PROVE  InPlace(x, h, s, i)'
    BY DEF IndsInv, InPlace
<1>t. /\ xst \in [XApps -> {"off", "connecting", "idle", "waiting", "aborted"}]
      /\ xop \in [XApps -> [ans : {"SUB_RESP", "DEL_RESP", "CTRL_ACK"}, h : Nat] \cup {NoOp}]
      /\ active \in [XApps -> SUBSET Nat] /\ xIn \in [XApps -> Seq(ToXApp)]
    BY DEF TypeOK, TypeXApps
<1>b. ~XAppAbort(x)
    BY <1>t DEF XAppAbort
<1>a. xst[x] # "aborted"
  <2>1. ASSUME xst[x] = "aborted", XAppStart(x) \/ XAppSetupResponse(x) \/ XAppAnswer(x)
                                   \/ XAppUnsubscribe(x) \/ XAppRequests(x)
        PROVE  FALSE
    BY <2>1 DEF XAppStart, XAppSetupResponse, XAppAnswer, XAppUnsubscribe, XAppRequests,
         XAppRequest, XReceives
  <2>. QED
    BY <1>b, <2>1, OwnSteps DEF XAppTimeout
<1>1. CASE XAppAnswer(x)
  <2>. DEFINE m == Head(xIn[x])
  <2>1. /\ MsgAt(x, m.type, m.h, 0, m.node, 1)
        /\ m.type \in AnswerTypes /\ m.h \in Nat /\ m.node \in Nodes
        /\ xop[x] = [ans |-> m.type, h |-> m.h] /\ m.h \in active[x]
    BY <1>1, AnswerAtHead
  <2>2. /\ xop'[x] = NoOp
        /\ active'[x] = IF xop[x].ans = "SUB_RESP" THEN active[x] ELSE active[x] \ {xop[x].h}
    BY <1>1, <1>t, <2>1 DEF XAppAnswer
  <2>3. PICK i0 \in Nat : MsgAt(x, "IND", h, s, n, i0) /\ (s = 0 => i0 > 1)
    <3>1. XReads(x)
      BY <1>1, <1>b, MoveXRead
    <3>2. "IND" \in E2Answers
      BY DEF E2Answers
    <3>3. CASE s = 0
      BY <3>1, <3>2, <3>3 DEF XReads
    <3>4. CASE s \in 1 .. 3
      BY <3>1, <3>2, <3>4 DEF XReads, Same
    <3>. QED
      BY <3>3, <3>4
  <2>4. InPlace(x, h, s, i0)
    BY <1>a, <2>3, IndInPlace
  <2>. HIDE DEF m
  <2>5. \A t : NoOp = [ans |-> t, h |-> h] => t = "NONE"
    BY DEF NoOp
  <2>6. h \in active'[x]
    <3>1. h \in active[x]
      BY <2>4 DEF InPlace
    <3>2. SUFFICES ASSUME xop[x].ans # "SUB_RESP", h = xop[x].h PROVE FALSE
      BY <2>2, <3>1
    <3>3. xop[x] = [ans |-> m.type, h |-> h] /\ m.h = h /\ m.type # "SUB_RESP"
      BY <2>1, <3>2
    <3>4. m.type # "CTRL_ACK"
      BY <2>4, <3>3 DEF InPlace
    <3>5. m.type = "DEL_RESP"
      BY <2>1, <3>3, <3>4 DEF AnswerTypes, E2Answers
    <3>6. ~Ahead(0, 1, s, i0)
      BY <2>1, <2>4, <3>3, <3>5 DEF InPlace
    <3>. QED
      BY <2>3, <3>6 DEF Ahead
  <2>. QED
    BY <2>2, <2>5, <2>6 DEF InPlace
<1>2. CASE ~XAppAnswer(x)
  <2>m. Moves(x)
    BY <1>2, <1>a, <1>b, MovesStep
  <2>1. CASE UNCHANGED <<xst[x], xop[x], active[x]>>
    BY <1>a, <2>1, <2>m, PlaceKept
  <2>t. ASSUME xst[x] \notin {"waiting", "aborted"} PROVE ~Starts(x, h, s)
    <3>1. "SUB_RESP" \in AnswerTypes
      BY DEF AnswerTypes, E2Answers
    <3>2. ASSUME NEW k \in Nodes, MsgAt(x, "SUB_RESP", h, 4, k, 1) PROVE FALSE
      <4>1. 4 \in 0 .. 7 /\ 1 \in Nat
        OBVIOUS
      <4>. QED
        BY <2>t, <3>1, <3>2, <4>1, TokenOwner
    <3>. QED
      BY <3>2 DEF Starts
  <2>2. CASE XAppStart(x) \/ XAppSetupResponse(x)
    <3>1. xst[x] \in {"off", "connecting"}
      BY <1>b, <2>2 DEF XAppStart, XAppSetupResponse
    <3>2. active[x] = {}
      BY <3>1 DEF RoutingInv, HandlesInv
    <3>3. \A s0 \in 0 .. 3, i0 \in Nat : ~MsgAt(x, "IND", h, s0, n, i0)
      BY <1>a, <3>2, IndInPlace DEF InPlace
    <3>. QED
      BY <2>m, <2>t, <3>1, <3>3 DEF Moves
  <2>3. CASE XAppUnsubscribe(x) \/ XAppRequests(x)
    <3>1. xst[x] = "idle"
      BY <2>3 DEF XAppUnsubscribe, XAppRequests, XAppRequest
    <3>2. PICK s0 \in 0 .. 3, i0 \in Nat :
             MsgAt(x, "IND", h, s0, n, i0) /\ Orderly(x, h, s0, i0, s, i)
      BY <2>m, <2>t, <3>1 DEF Moves
    <3>3. h \in active[x]
      BY <1>a, <3>2, IndInPlace DEF InPlace
    <3>4. ASSUME NEW s2 \in 0 .. 7, NEW n2 \in Nodes, NEW i2 \in Nat,
                 MsgAt(x, "DEL_RESP", h, s2, n2, i2)', Ahead(s2, i2, s, i)
          PROVE  FALSE
      <4>1. s2 \in 0 .. 3
        BY <3>4 DEF Ahead
      <4>2. PICK s3 \in 0 .. 3, n3 \in Nodes, i3 \in Nat : MsgAt(x, "DEL_RESP", h, s3, n3, i3)
        BY <3>2, <3>4, <4>1 DEF Orderly
      <4>3. s3 \in 0 .. 7 /\ "DEL_RESP" \in AnswerTypes
        BY DEF AnswerTypes, E2Answers
      <4>. QED
        BY <3>1, <4>2, <4>3, IdleNoToken
    <3>5. CASE XAppUnsubscribe(x)
      <4>1. PICK g : xop'[x] = [ans |-> "DEL_RESP", h |-> g] /\ active'[x] = active[x]
        BY <3>5, <1>t DEF XAppUnsubscribe
      <4>. QED
        BY <3>3, <3>4, <4>1 DEF InPlace
    <3>6. CASE XAppRequests(x)
      <4>. DEFINE g == Len(issued[x]) + 1
      <4>1. PICK c \in {"SUB_REQ", "CTRL_REQ"} :
              xop'[x] = [ans |-> AnswerTo(c), h |-> g] /\ active'[x] = active[x] \cup {g}
        BY <3>6, <1>t DEF XAppRequests, XAppRequest
      <4>2. h # g
        <5>1. issued[x] \in Seq(Requests) /\ h \in DOMAIN issued[x]
          BY <3>3 DEF TypeOK, TypeXApps
        <5>2. DOMAIN issued[x] = 1 .. Len(issued[x]) /\ Len(issued[x]) \in Nat
          BY <5>1
        <5>. QED
          BY <5>1, <5>2
      <4>. HIDE DEF g
      <4>3. \A t : xop'[x] # [ans |-> t, h |-> h]
        <5>1. xop'[x].h = g
          BY <4>1
        <5>. QED
          BY <4>2, <5>1
      <4>. QED
        BY <3>3, <4>1, <4>3 DEF InPlace
    <3>. QED
      BY <2>3, <3>5, <3>6
  <2>. QED
    BY <1>2, <1>b, <2>1, <2>2, <2>3, OwnSteps DEF XAppTimeout
<1>. QED
    BY <1>1, <1>2

-----------------------------------------------------------------------------
(* Arrivals *)

ArrivalsInv == OwnersInv /\ WaitsInv /\ OneTokenInv /\ MappingInv /\ IndsInv

LEMMA ArrivalsInit == Init => ArrivalsInv
<1>. SUFFICES ASSUME Init PROVE ArrivalsInv
    OBVIOUS
<1>1. \A x \in XApps : ~Registered(x) /\ xIn[x] = <<>> /\ xop[x] = NoOp /\ active[x] = {}
    BY DEF Init, Registered
<1>2. InFlight = {}
    BY DEF Init, InFlight
<1>3. ASSUME NEW x \in XApps, NEW t, NEW h, NEW s, NEW n \in Nodes, NEW i
      PROVE  ~MsgAt(x, t, h, s, n, i)
    BY <1>1 DEF Init, MsgAt, NamesAt, RicFor, AsksFor
<1>4. OwnersInv
    BY <1>2 DEF Init, OwnersInv, Range
<1>5. WaitsInv
    BY <1>1 DEF Init, WaitsInv
<1>. QED
    BY <1>3, <1>4, <1>5 DEF ArrivalsInv, OneTokenInv, Unique, MappingInv, IndsInv

\* The inductive invariant: every request of an xApp is one token on its way to
\* a node and back, and indications travel between the answers to the
\* subscription and to its deletion.
THEOREM ArrivalsInvariant == Spec => []ArrivalsInv
<1>1. TypeOK /\ TypeOK' /\ RoutingInv /\ RoutingInv' /\ ArrivalsInv /\ [Next]_vars => ArrivalsInv'
    BY OwnersStep, WaitsStep, OneTokenStep, MappingStep, IndsStep DEF ArrivalsInv
<1>. QED
    BY <1>1, ArrivalsInit, TypeCorrect, RoutingInvariant, PTL DEF Spec

\* Nothing reaches an xApp that it is not ready for: an answer finds the pending
\* event of its request and is the only one, and an indication comes after the
\* response to its subscription and before the response to its deletion.
THEOREM ArrivalsCorrect == Spec => []ArrivalsExpected
<1>1. TypeOK /\ ArrivalsInv => ArrivalsExpected
  <2>. SUFFICES ASSUME TypeOK, OneTokenInv, WaitsInv, IndsInv PROVE ArrivalsExpected
    BY DEF ArrivalsInv
  <2>e. ASSUME NEW x \in XApps, NEW i \in DOMAIN xIn[x], xIn[x][i].type \in E2Answers
        PROVE  /\ xst[x] # "aborted" /\ i \in Nat
               /\ xIn[x][i].h \in Nat /\ xIn[x][i].node \in Nodes
               /\ MsgAt(x, xIn[x][i].type, xIn[x][i].h, 0, xIn[x][i].node, i)
    <3>1. xIn[x] \in Seq(ToXApp)
      BY DEF TypeOK, TypeXApps
    <3>2. xIn[x][i] \in ToXApp /\ i \in Nat /\ xIn[x] # <<>>
      BY <3>1
    <3>3. xIn[x][i].h \in Nat /\ xIn[x][i].node \in Nodes
      BY <2>e, <3>2 DEF ToXApp, E2Answers
    <3>. QED
      BY <3>2, <3>3 DEF MsgAt, WaitsInv
  <2>1. ASSUME NEW x \in XApps, NEW i \in DOMAIN xIn[x], NEW j \in DOMAIN xIn[x],
               xIn[x][i].type \in AnswerTypes
        PROVE  /\ xst[x] = "waiting" /\ xop[x] = [ans |-> xIn[x][i].type, h |-> xIn[x][i].h]
               /\ xIn[x][j].type \in AnswerTypes => i = j
    <3>0. AnswerTypes \subseteq E2Answers /\ 0 \in 0 .. 7
      BY DEF AnswerTypes
    <3>1. /\ xst[x] # "aborted" /\ i \in Nat
          /\ xIn[x][i].h \in Nat /\ xIn[x][i].node \in Nodes
          /\ MsgAt(x, xIn[x][i].type, xIn[x][i].h, 0, xIn[x][i].node, i)
      BY <2>1, <2>e, <3>0
    <3>2. /\ xop[x] = [ans |-> xIn[x][i].type, h |-> xIn[x][i].h]
          /\ xst[x] \in {"waiting", "aborted"}
      BY <2>1, <3>0, <3>1, TokenOwner
    <3>3. ASSUME xIn[x][j].type \in AnswerTypes PROVE i = j
      <4>1. /\ j \in Nat /\ xIn[x][j].h \in Nat /\ xIn[x][j].node \in Nodes
            /\ MsgAt(x, xIn[x][j].type, xIn[x][j].h, 0, xIn[x][j].node, j)
        BY <2>e, <3>0, <3>3
      <4>2. xop[x] = [ans |-> xIn[x][j].type, h |-> xIn[x][j].h]
        BY <3>0, <3>3, <4>1, TokenOwner
      <4>3. xIn[x][j].type = xIn[x][i].type /\ xIn[x][j].h = xIn[x][i].h
        BY <3>2, <4>2
      <4>4. Unique(x)
        BY DEF OneTokenInv
      <4>. QED
        BY <2>1, <3>0, <3>1, <4>1, <4>3, <4>4, OnlyToken
    <3>. QED
      BY <3>1, <3>2, <3>3
  <2>2. ASSUME NEW x \in XApps, NEW i \in DOMAIN xIn[x], xIn[x][i].type = "IND"
        PROVE  LET h == xIn[x][i].h IN
               /\ h \in active[x]
               /\ xop[x] = [ans |-> "SUB_RESP", h |-> h] =>
                    \E j \in 1 .. i - 1 : xIn[x][j].type = "SUB_RESP" /\ xIn[x][j].h = h
               /\ \A j \in 1 .. i - 1 : ~(xIn[x][j].type = "DEL_RESP" /\ xIn[x][j].h = h)
    <3>. DEFINE h == xIn[x][i].h
    <3>0. {"IND", "SUB_RESP", "DEL_RESP"} \subseteq E2Answers /\ 0 \in 0 .. 3
      BY DEF E2Answers
    <3>1. /\ xst[x] # "aborted" /\ i \in Nat /\ h \in Nat /\ xIn[x][i].node \in Nodes
          /\ MsgAt(x, "IND", h, 0, xIn[x][i].node, i)
      BY <2>2, <2>e, <3>0
    <3>2. InPlace(x, h, 0, i)
      BY <3>0, <3>1, IndInPlace
    <3>d. DOMAIN xIn[x] = 1 .. Len(xIn[x]) /\ Len(xIn[x]) \in Nat
      BY DEF TypeOK, TypeXApps
    <3>3. ASSUME xop[x] = [ans |-> "SUB_RESP", h |-> h]
          PROVE  \E j \in 1 .. i - 1 : xIn[x][j].type = "SUB_RESP" /\ xIn[x][j].h = h
      <4>1. PICK s2 \in 0 .. 2, n2 \in Nodes, i2 \in Nat :
              MsgAt(x, "SUB_RESP", h, s2, n2, i2) /\ Ahead(s2, i2, 0, i)
        BY <3>2, <3>3 DEF InPlace
      <4>2. s2 = 0 /\ i2 < i
        BY <4>1 DEF Ahead
      <4>3. i2 \in DOMAIN xIn[x] /\ xIn[x][i2].type = "SUB_RESP" /\ xIn[x][i2].h = h
        BY <4>1, <4>2 DEF MsgAt
      <4>4. i2 \in 1 .. i - 1
        BY <3>1, <3>d, <4>2, <4>3
      <4>. QED
        BY <4>3, <4>4
    <3>4. ASSUME NEW j \in 1 .. i - 1, xIn[x][j].type = "DEL_RESP", xIn[x][j].h = h PROVE FALSE
      <4>1. j \in DOMAIN xIn[x] /\ j < i /\ j \in Nat
        BY <3>1, <3>d
      <4>2. xIn[x][j].node \in Nodes /\ MsgAt(x, "DEL_RESP", h, 0, xIn[x][j].node, j)
        BY <2>e, <3>0, <3>4, <4>1
      <4>3. "DEL_RESP" \in AnswerTypes /\ 0 \in 0 .. 7
        BY DEF AnswerTypes, E2Answers
      <4>4. xop[x] = [ans |-> "DEL_RESP", h |-> h]
        BY <3>1, <4>1, <4>2, <4>3, TokenOwner
      <4>5. ~Ahead(0, j, 0, i)
        BY <3>2, <4>1, <4>2, <4>3, <4>4 DEF InPlace
      <4>. QED
        BY <4>1, <4>5 DEF Ahead
    <3>5. h \in active[x]
      BY <3>2 DEF InPlace
    <3>. QED
      BY <3>3, <3>4, <3>5
  <2>3. AnswerAwaited
    BY <2>1 DEF AnswerAwaited, AnswerTypes
  <2>4. IndicationInSubscription
    BY <2>2 DEF IndicationInSubscription
  <2>. QED
    BY <2>3, <2>4 DEF ArrivalsExpected
<1>. QED
    BY <1>1, ArrivalsInvariant, TypeCorrect, PTL
-----------------------------------------------------------------------------
(* The service.  While no id is given out twice (Clash), an xApp's request   *)
(* is where its token is, and a subscription is served where stage 3 has it. *)

\* The entry that was looked up is the one of the message, and handles stay
\* below their bound.
HeldInv ==
    /\ rpc = "notify" => rto.rid = rmsg.rid
    /\ \A x \in XApps : Len(issued[x]) <= MaxReq

\* No step puts another id beside the one looked up, or another handle past the bound.
LEMMA HeldStep == TypeOK /\ HeldInv /\ [Next]_vars => HeldInv'
<1>. SUFFICES ASSUME TypeOK, HeldInv, [Next]_vars PROVE HeldInv'
    OBVIOUS
<1>1. rpc' = "notify" => rto'.rid = rmsg'.rid
  <2>u. ASSUME UNCHANGED ricVars PROVE rpc' = "notify" => rto'.rid = rmsg'.rid
    BY <2>u DEF ricVars, HeldInv
  <2>a. ASSUME NEW why, Abort(why) PROVE UNCHANGED ricVars
    BY <2>a DEF Abort
  <2>1. CASE RicLookup
    BY <2>1, <2>a, <2>u DEF RicLookup
  <2>2. CASE RicThread /\ ~RicLookup /\ ~\E why : Abort(why)
    BY <2>2 DEF RicThread, RicSetupRequest, RicAddNode, RicAcceptNode, RicAnswer, RicIndication,
                RicNotify, RicShutdown, RicEraseConn, RicRmNode
  <2>3. CASE RicTimeout
    BY <2>3, <2>a, <2>u DEF RicTimeout, vars
  <2>4. CASE IAppThread
    BY <2>4, <2>u, IAppFrames DEF IAppFrame
  <2>5. ASSUME NEW n \in Nodes, AgentStep(n) PROVE UNCHANGED ricVars
    BY <2>5, AgFrames DEF AgFrame
  <2>6. ASSUME NEW x \in XApps, XAppStep(x) PROVE UNCHANGED ricVars
    BY <2>6, XFrames DEF XFrame
  <2>7. CASE UNCHANGED vars
    BY <2>7, <2>u DEF vars
  <2>. QED
    BY <2>1, <2>2, <2>3, <2>4, <2>5, <2>6, <2>7, <2>a, <2>u
       DEF Next, AgentStep, XAppStep, XAppRequests
<1>2. ASSUME NEW x \in XApps PROVE Len(issued'[x]) <= MaxReq
  <2>t. issued \in [XApps -> Seq(Requests)] /\ Len(issued[x]) <= MaxReq
    BY DEF TypeOK, TypeXApps, HeldInv
  <2>1. CASE UNCHANGED issued
    BY <2>1, <2>t
  <2>2. ASSUME NEW y \in XApps, NEW k, NEW n, NEW f, XAppRequest(y, k, n, f)
        PROVE  Len(issued'[x]) <= MaxReq
    <3>. DEFINE r == [kind |-> k, node |-> n, rf |-> f]
    <3>1. issued' = [issued EXCEPT ![y] = Append(@, r)] /\ Len(issued[y]) < MaxReq
      BY <2>2 DEF XAppRequest
    <3>. HIDE DEF r
    <3>2. CASE x = y
      <4>1. issued'[x] = Append(issued[x], r) /\ issued[x] \in Seq(Requests)
        BY <2>t, <3>1, <3>2
      <4>2. Len(issued'[x]) = Len(issued[x]) + 1 /\ Len(issued[x]) \in Nat
        BY <4>1
      <4>. QED
        BY <3>1, <3>2, <4>2, ConstAssumption DEF ConstAssumption
    <3>3. CASE x # y
      BY <2>t, <3>1, <3>3
    <3>. QED
      BY <3>2, <3>3
  <2>3. CASE RicThread \/ RicTimeout
    BY <2>1, <2>3, RicFrames DEF RicFrame
  <2>4. CASE IAppThread
    BY <2>1, <2>4, IAppFrames DEF IAppFrame
  <2>5. ASSUME NEW n \in Nodes, AgentStep(n) PROVE UNCHANGED issued
    BY <2>5, AgFrames DEF AgFrame, xVars
  <2>6. ASSUME NEW y \in XApps, XAppStart(y) \/ XAppResendSetup(y) \/ XAppUnsubscribe(y) \/ XAppLoop(y)
        PROVE  UNCHANGED issued
    BY <2>6 DEF XAppStart, XAppResendSetup, XAppUnsubscribe, XAppLoop, XAppTimeout, XAppSetupResponse,
                XAppAnswer, XAppIndication, XAppAbort
  <2>7. CASE UNCHANGED vars
    BY <2>1, <2>7 DEF vars, xVars
  <2>. QED
    BY <2>1, <2>2, <2>3, <2>4, <2>5, <2>6, <2>7 DEF Next, AgentStep
<1>. QED
    BY <1>1, <1>2 DEF HeldInv

\* HeldInv holds throughout.
LEMMA HeldInvariant == Spec => []HeldInv
<1>1. Init => HeldInv
    BY ConstAssumption DEF Init, HeldInv, ConstAssumption
<1>. QED
    BY <1>1, HeldStep, TypeCorrect, PTL DEF Spec

\* An answer of type t to request h of x is on its way back.
Answered(x, t, h) == \E s \in 0 .. 2, n \in Nodes, i \in Nat : MsgAt(x, t, h, s, n, i)

\* Node n serves subscription h of x.
Serves(n, x, h) == MsgAt(x, "IND", h, 3, n, 0)

\* Requests and subscriptions of the service are those the tokens show.
Told ==
    /\ \A x \in XApps, h \in Nat : xop[x] # NoOp =>
         (AnswerUnderWay(x, h) <=> Answered(x, xop[x].ans, h))
    /\ \A x \in XApps, h \in Nat, n \in Nodes :
         (\E q \in agSubs[n] : StandsFor(q.rid, x, h)) <=> Serves(n, x, h)

\* A request id that is in use at a node stands for the request it names there.
LEMMA StandsForNames ==
    ASSUME TypeOK, RoutingInv, OwnersInv, ~Clash, NEW x \in XApps, NEW h, NEW rid,
           NEW n, NEW f, NEW kind, Traced(n, rid, f, kind)
    PROVE  StandsFor(rid, x, h) <=> NamesAt(x, h, n, rid)
<1>1. PICK d \in Entries : d.rid = rid /\ d.node = n
    BY DEF Traced, TracedIn, Entries
<1>2. \A e \in Entries : e.rid = rid => e = d
  <2>1. \A a, b \in mapRicId : a.rid = b.rid => a = b
    BY DEF RoutingInv, MutexInv
  <2>2. \A a, b \in InFlight : a = b
    BY DEF InFlight
  <2>. QED
    BY <1>1, <2>1, <2>2 DEF Clash, Entries
<1>3. ASSUME StandsFor(rid, x, h) PROVE NamesAt(x, h, n, rid)
  <2>1. d.h = h /\ [xid |-> d.xid, x |-> x] \in xsad
    BY <1>2, <1>3 DEF StandsFor, Entries
  <2>2. Known(d.xid)
    BY EntriesKnown
  <2>3. PICK y \in XApps : Registered(y) /\ xid[y] = d.xid
    BY <2>2 DEF Known
  <2>4. [xid |-> d.xid, x |-> y] \in xsad
    BY <2>3 DEF Registered
  <2>5. [xid |-> d.xid, x |-> y] = [xid |-> d.xid, x |-> x]
    BY <2>1, <2>4 DEF RoutingInv, XAppIdsInv
  <2>6. y = x
    BY <2>5
  <2>. QED
    BY <1>1, <2>1, <2>3, <2>6 DEF NamesAt, Entries
<1>4. ASSUME NamesAt(x, h, n, rid) PROVE StandsFor(rid, x, h)
    BY <1>4 DEF NamesAt, StandsFor, Registered
<1>. QED
    BY <1>3, <1>4

\* While no id is given out twice, what the service shows is read off the tokens.
LEMMA TokensTell == TypeOK /\ RoutingInv /\ ArrivalsInv /\ HeldInv /\ ~Clash => Told
<1>. SUFFICES ASSUME TypeOK, RoutingInv, ArrivalsInv, HeldInv, ~Clash, NEW x \in XApps, NEW h \in Nat
              PROVE  /\ xop[x] # NoOp => (AnswerUnderWay(x, h) <=> Answered(x, xop[x].ans, h))
                     /\ \A n \in Nodes : (\E q \in agSubs[n] : StandsFor(q.rid, x, h))
                                            <=> Serves(n, x, h)
    BY DEF Told
<1>o. OwnersInv /\ TracedInv
    BY DEF ArrivalsInv, RoutingInv
<1>1. ASSUME NEW n \in Nodes
      PROVE  (\E q \in agSubs[n] : StandsFor(q.rid, x, h)) <=> Serves(n, x, h)
  <2>1. \A q \in agSubs[n] : StandsFor(q.rid, x, h) <=> NamesAt(x, h, n, q.rid)
    BY <1>o, StandsForNames DEF TracedInv
  <2>. QED
    BY <2>1 DEF Serves, MsgAt
<1>2. ASSUME xop[x] # NoOp PROVE AnswerUnderWay(x, h) <=> Answered(x, xop[x].ans, h)
  <2>. DEFINE t == xop[x].ans
  <2>1. t \in AnswerTypes
    BY <1>2 DEF TypeOK, TypeXApps, AnswerTypes, E2Answers
  <2>. HIDE DEF t
  <2>0. t \in E2Answers
    BY <2>1 DEF AnswerTypes
  <2>2. (\E m \in Range(xIn[x]) : m.type = t /\ m.h = h)
          <=> \E n \in Nodes, i \in Nat : MsgAt(x, t, h, 0, n, i)
    <3>1. xIn[x] \in Seq(ToXApp)
      BY DEF TypeOK, TypeXApps
    <3>2. \A i \in DOMAIN xIn[x] : i \in Nat /\ xIn[x][i] \in ToXApp
      BY <3>1
    <3>3. \A m \in ToXApp : m.type = t => m.node \in Nodes
      BY <2>0 DEF ToXApp, E2Answers
    <3>4. \A n, i : MsgAt(x, t, h, 0, n, i) <=>
            i \in DOMAIN xIn[x] /\ xIn[x][i].type = t /\ xIn[x][i].h = h /\ xIn[x][i].node = n
      BY DEF MsgAt
    <3>. QED
      BY <3>2, <3>3, <3>4 DEF Range
  <2>3. (rpc \in {"lookup", "notify"} /\ rmsg.type = t /\ StandsFor(rmsg.rid, x, h))
          <=> \E n \in Nodes, i \in Nat : MsgAt(x, t, h, 1, n, i)
    <3>1. \A n, i : MsgAt(x, t, h, 1, n, i) <=>
            i = 0 /\ RicFor(x, h) /\ rmsg.type = t /\ rmsg.node = n
      BY DEF MsgAt
    <3>2. ASSUME rpc \in {"lookup", "notify"}
          PROVE  rmsg.node \in Nodes /\ (StandsFor(rmsg.rid, x, h) <=> RicFor(x, h))
      <4>1. rmsg.node \in Nodes
        BY <3>2 DEF TypeOK, TypeRic, ToRic
      <4>2. StandsFor(rmsg.rid, x, h) <=> NamesAt(x, h, rmsg.node, rmsg.rid)
        BY <1>o, <3>2, StandsForNames DEF TracedInv
      <4>3. CASE rpc = "lookup"
        BY <4>1, <4>2, <4>3 DEF RicFor
      <4>4. CASE rpc = "notify"
        <5>1. rto \in mapRicId /\ rto.rid = rmsg.rid
          BY <1>o, <4>4 DEF OwnersInv, HeldInv
        <5>2. Traced(rmsg.node, rmsg.rid, rmsg.rf, KindOf(rmsg.type))
          BY <1>o, <3>2 DEF TracedInv
        <5>3. \A e \in Entries : e.rid = rto.rid => e = rto
          <6>1. \A a, b \in mapRicId : a.rid = b.rid => a = b
            BY DEF RoutingInv, MutexInv
          <6>. QED
            BY <5>1, <6>1 DEF Clash, Entries
        <5>4. rto.node = rmsg.node
          BY <5>1, <5>2, <5>3 DEF Traced, TracedIn, Entries
        <5>5. NamesAt(x, h, rmsg.node, rmsg.rid) <=> Registered(x) /\ rto.xid = xid[x] /\ rto.h = h
          BY <5>1, <5>3, <5>4 DEF NamesAt, Entries
        <5>. QED
          BY <4>1, <4>2, <4>4, <5>5 DEF RicFor
      <4>. QED
        BY <3>2, <4>3, <4>4
    <3>3. RicFor(x, h) => rpc \in {"lookup", "notify"}
      BY DEF RicFor
    <3>4. 0 \in Nat
      OBVIOUS
    <3>. QED
      BY <3>1, <3>2, <3>3, <3>4
  <2>4. (\E m \in Range(ricIn) : m.type = t /\ StandsFor(m.rid, x, h))
          <=> \E n \in Nodes, i \in Nat : MsgAt(x, t, h, 2, n, i)
    <3>1. ricIn \in Seq(ToRic)
      BY DEF TypeOK, TypeSockets
    <3>2. \A i \in DOMAIN ricIn : i \in Nat /\ ricIn[i] \in ToRic
      BY <3>1
    <3>3. \A m \in ToRic : m.type = t => m.node \in Nodes
      BY <2>0 DEF ToRic, E2Answers
    <3>4. \A m \in Range(ricIn) : m.type = t =>
             (StandsFor(m.rid, x, h) <=> NamesAt(x, h, m.node, m.rid))
      BY <1>o, <2>0, StandsForNames DEF TracedInv
    <3>5. \A n, i : MsgAt(x, t, h, 2, n, i) <=>
            i \in DOMAIN ricIn /\ ricIn[i].type = t /\ ricIn[i].node = n
            /\ NamesAt(x, h, n, ricIn[i].rid)
      BY DEF MsgAt
    <3>. QED
      BY <3>2, <3>3, <3>4, <3>5 DEF Range
  <2>5. Answered(x, t, h) <=> \/ \E n \in Nodes, i \in Nat : MsgAt(x, t, h, 0, n, i)
                              \/ \E n \in Nodes, i \in Nat : MsgAt(x, t, h, 1, n, i)
                              \/ \E n \in Nodes, i \in Nat : MsgAt(x, t, h, 2, n, i)
    <3>1. 0 .. 2 = {0, 1, 2}
      OBVIOUS
    <3>. QED
      BY <3>1 DEF Answered
  <2>. QED
    BY <2>2, <2>3, <2>4, <2>5 DEF AnswerUnderWay, t
<1>. QED
    BY <1>1, <1>2

\* The answers to x stay on their way.
AnswersKept(x) ==
    \A t \in AnswerTypes, h \in Nat : Answered(x, t, h)' <=> Answered(x, t, h)

\* Answers stay when stages 0 to 2 do.
LEMMA AnswersSame ==
    ASSUME NEW x \in XApps, Same(x, {0, 1, 2})
    PROVE  AnswersKept(x)
<1>1. 0 .. 2 = {0, 1, 2} /\ AnswerTypes \subseteq E2Answers
    BY DEF AnswerTypes
<1>. QED
    BY <1>1 DEF Same, AnswersKept, Answered

\* Messages of the RIC's socket have positive positions.
LEMMA RicPositions ==
    ASSUME TypeOK, NEW x, NEW t, NEW h, NEW n, NEW i, MsgAt(x, t, h, 2, n, i)
    PROVE  i \in Nat /\ i > 0
<1>1. ricIn \in Seq(ToRic) /\ i \in DOMAIN ricIn
    BY DEF MsgAt, TypeOK, TypeSockets
<1>. QED
    BY <1>1

\* The RIC thread takes a message from its socket: an answer moves from stage 2 to 1.
LEMMA AnswersRicTakes ==
    ASSUME TypeOK, NEW x \in XApps, RicTakes(x) \/ RicDrops(x)
    PROVE  AnswersKept(x)
<1>. SUFFICES ASSUME NEW t \in AnswerTypes, NEW h \in Nat
              PROVE  Answered(x, t, h)' <=> Answered(x, t, h)
    BY DEF AnswersKept
<1>0. t \in E2Answers /\ 0 .. 2 = {0, 1, 2}
    BY DEF AnswerTypes
<1>1. \A n \in Nodes, i \in Nat : MsgAt(x, t, h, 0, n, i)' <=> MsgAt(x, t, h, 0, n, i)
    BY <1>0 DEF RicTakes, RicDrops, Same
<1>2. \A n \in Nodes, i \in Nat : MsgAt(x, t, h, 2, n, i)' <=> i > 0 /\ MsgAt(x, t, h, 2, n, i + 1)
    BY <1>0 DEF RicTakes, RicDrops
<1>3. \A n \in Nodes, i \in Nat : MsgAt(x, t, h, 2, n, i) => i > 0
    BY RicPositions
<1>4. CASE RicTakes(x)
  <2>1. \A n \in Nodes, i \in Nat : MsgAt(x, t, h, 1, n, i)' <=> i = 0 /\ MsgAt(x, t, h, 2, n, 1)
    BY <1>0, <1>4 DEF RicTakes
  <2>2. \A n \in Nodes, i \in Nat : ~MsgAt(x, t, h, 1, n, i)
    BY <1>0, <1>4 DEF RicTakes
  <2>3. ASSUME Answered(x, t, h)' PROVE Answered(x, t, h)
    <3>1. PICK s \in {0, 1, 2}, n \in Nodes, i \in Nat : MsgAt(x, t, h, s, n, i)'
      BY <1>0, <2>3 DEF Answered
    <3>2. MsgAt(x, t, h, 0, n, i) \/ MsgAt(x, t, h, 2, n, 1) \/ MsgAt(x, t, h, 2, n, i + 1)
      BY <1>1, <1>2, <2>1, <3>1
    <3>3. 0 \in 0 .. 2 /\ 2 \in 0 .. 2 /\ 1 \in Nat /\ i + 1 \in Nat
      OBVIOUS
    <3>. QED
      BY <3>2, <3>3 DEF Answered
  <2>4. ASSUME Answered(x, t, h) PROVE Answered(x, t, h)'
    <3>1. PICK s \in {0, 1, 2}, n \in Nodes, i \in Nat : MsgAt(x, t, h, s, n, i)
      BY <1>0, <2>4 DEF Answered
    <3>2. \/ MsgAt(x, t, h, 0, n, i)'
          \/ MsgAt(x, t, h, 1, n, 0)'
          \/ i - 1 \in Nat /\ MsgAt(x, t, h, 2, n, i - 1)'
      <4>1. CASE s = 0
        BY <1>1, <3>1, <4>1
      <4>2. CASE s = 1
        BY <2>2, <3>1, <4>2
      <4>3. CASE s = 2 /\ i = 1
        BY <2>1, <3>1, <4>3
      <4>4. CASE s = 2 /\ i # 1
        <5>1. i - 1 \in Nat /\ i - 1 > 0 /\ (i - 1) + 1 = i
          BY <1>3, <3>1, <4>4
        <5>2. MsgAt(x, t, h, 2, n, (i - 1) + 1)
          BY <3>1, <4>4, <5>1
        <5>. QED
          BY <1>2, <5>1, <5>2
      <4>. QED
        BY <4>1, <4>2, <4>3, <4>4
    <3>3. 0 \in 0 .. 2 /\ 1 \in 0 .. 2 /\ 2 \in 0 .. 2 /\ 0 \in Nat
      OBVIOUS
    <3>. QED
      BY <3>2, <3>3 DEF Answered
  <2>. QED
    BY <2>3, <2>4
<1>5. CASE RicDrops(x)
  <2>1. \A n \in Nodes, i \in Nat : MsgAt(x, t, h, 1, n, i)' <=> MsgAt(x, t, h, 1, n, i)
    BY <1>0, <1>5 DEF RicDrops, Same
  <2>2. \A n \in Nodes : ~MsgAt(x, t, h, 2, n, 1)
    BY <1>0, <1>5 DEF RicDrops
  <2>3. ASSUME Answered(x, t, h)' PROVE Answered(x, t, h)
    <3>1. PICK s \in {0, 1, 2}, n \in Nodes, i \in Nat : MsgAt(x, t, h, s, n, i)'
      BY <1>0, <2>3 DEF Answered
    <3>2. MsgAt(x, t, h, 0, n, i) \/ MsgAt(x, t, h, 1, n, i) \/ MsgAt(x, t, h, 2, n, i + 1)
      BY <1>1, <1>2, <2>1, <3>1
    <3>3. 0 \in 0 .. 2 /\ 1 \in 0 .. 2 /\ 2 \in 0 .. 2 /\ i + 1 \in Nat
      OBVIOUS
    <3>. QED
      BY <3>2, <3>3 DEF Answered
  <2>4. ASSUME Answered(x, t, h) PROVE Answered(x, t, h)'
    <3>1. PICK s \in {0, 1, 2}, n \in Nodes, i \in Nat : MsgAt(x, t, h, s, n, i)
      BY <1>0, <2>4 DEF Answered
    <3>2. \/ MsgAt(x, t, h, 0, n, i)'
          \/ MsgAt(x, t, h, 1, n, i)'
          \/ i - 1 \in Nat /\ MsgAt(x, t, h, 2, n, i - 1)'
      <4>1. CASE s \in {0, 1}
        BY <1>1, <2>1, <3>1, <4>1
      <4>2. CASE s = 2
        <5>1. i - 1 \in Nat /\ i - 1 > 0 /\ (i - 1) + 1 = i
          BY <1>3, <2>2, <3>1, <4>2
        <5>2. MsgAt(x, t, h, 2, n, (i - 1) + 1)
          BY <3>1, <4>2, <5>1
        <5>. QED
          BY <1>2, <5>1, <5>2
      <4>. QED
        BY <4>1, <4>2
    <3>3. 0 \in 0 .. 2 /\ 1 \in 0 .. 2 /\ 2 \in 0 .. 2
      OBVIOUS
    <3>. QED
      BY <3>2, <3>3 DEF Answered
  <2>. QED
    BY <2>3, <2>4
<1>. QED
    BY <1>4, <1>5

\* The RIC thread forwards to a live xApp: an answer moves from stage 1 to 0.
LEMMA AnswersRicTells ==
    ASSUME NEW x \in XApps, RicTells(x), xst[x] # "aborted"
    PROVE  AnswersKept(x)
<1>. SUFFICES ASSUME NEW t \in AnswerTypes, NEW h \in Nat
              PROVE  Answered(x, t, h)' <=> Answered(x, t, h)
    BY DEF AnswersKept
<1>0. t \in E2Answers /\ 0 .. 2 = {0, 1, 2} /\ Len(xIn[x]) + 1 \in Nat
    BY DEF AnswerTypes, RicTells
<1>1. \A n \in Nodes, i \in Nat : MsgAt(x, t, h, 2, n, i)' <=> MsgAt(x, t, h, 2, n, i)
    BY <1>0 DEF RicTells, Same
<1>2. \A n \in Nodes, i \in Nat :
        /\ ~MsgAt(x, t, h, 1, n, i)'
        /\ MsgAt(x, t, h, 1, n, i) => i = 0
        /\ MsgAt(x, t, h, 0, n, i)' => MsgAt(x, t, h, 0, n, i) \/ MsgAt(x, t, h, 1, n, 0)
        /\ MsgAt(x, t, h, 0, n, i) => MsgAt(x, t, h, 0, n, i)'
    BY <1>0 DEF RicTells
<1>3. \A n \in Nodes : MsgAt(x, t, h, 1, n, 0) => \E i \in Nat : MsgAt(x, t, h, 0, n, i)'
    BY <1>0 DEF RicTells
<1>4. ASSUME Answered(x, t, h)' PROVE Answered(x, t, h)
  <2>1. PICK s \in {0, 1, 2}, n \in Nodes, i \in Nat : MsgAt(x, t, h, s, n, i)'
    BY <1>0, <1>4 DEF Answered
  <2>2. MsgAt(x, t, h, 0, n, i) \/ MsgAt(x, t, h, 1, n, 0) \/ MsgAt(x, t, h, 2, n, i)
    BY <1>1, <1>2, <2>1
  <2>3. 0 \in 0 .. 2 /\ 1 \in 0 .. 2 /\ 2 \in 0 .. 2 /\ 0 \in Nat
    OBVIOUS
  <2>. QED
    BY <2>2, <2>3 DEF Answered
<1>5. ASSUME Answered(x, t, h) PROVE Answered(x, t, h)'
  <2>1. PICK s \in {0, 1, 2}, n \in Nodes, i \in Nat : MsgAt(x, t, h, s, n, i)
    BY <1>0, <1>5 DEF Answered
  <2>2. (\E j \in Nat : MsgAt(x, t, h, 0, n, j)') \/ MsgAt(x, t, h, 2, n, i)'
    BY <1>1, <1>2, <1>3, <2>1
  <2>3. 0 \in 0 .. 2 /\ 2 \in 0 .. 2
    OBVIOUS
  <2>. QED
    BY <1>0, <2>2, <2>3 DEF Answered
<1>. QED
    BY <1>4, <1>5

\* An indication of a node is no answer.
LEMMA AnswersAgIndicates ==
    ASSUME NEW x \in XApps, AgIndicates(x)
    PROVE  AnswersKept(x)
<1>1. \A t \in AnswerTypes, h \in Nat, s \in {0, 1, 2}, n \in Nodes, i \in Nat :
        MsgAt(x, t, h, s, n, i)' <=> MsgAt(x, t, h, s, n, i)
    BY DEF AgIndicates, Same, AnswerTypes
<1>2. 0 .. 2 = {0, 1, 2}
    OBVIOUS
<1>. QED
    BY <1>1, <1>2 DEF AnswersKept, Answered

\* xApp x reads a message that is no answer.
LEMMA AnswersXReads ==
    ASSUME TypeOK, NEW x \in XApps, XReads(x), xIn[x] # <<>>, Head(xIn[x]).type \notin AnswerTypes
    PROVE  AnswersKept(x)
<1>. SUFFICES ASSUME NEW t \in AnswerTypes, NEW h \in Nat
              PROVE  Answered(x, t, h)' <=> Answered(x, t, h)
    BY DEF AnswersKept
<1>0. t \in E2Answers /\ 0 .. 2 = {0, 1, 2}
    BY DEF AnswerTypes
<1>1. \A s \in {1, 2}, n \in Nodes, i \in Nat : MsgAt(x, t, h, s, n, i)' <=> MsgAt(x, t, h, s, n, i)
    BY <1>0 DEF XReads, Same
<1>2. \A n \in Nodes, i \in Nat : MsgAt(x, t, h, 0, n, i)' <=> i > 0 /\ MsgAt(x, t, h, 0, n, i + 1)
    BY <1>0 DEF XReads
<1>3. \A n \in Nodes, i \in Nat : MsgAt(x, t, h, 0, n, i) => i > 0 /\ i # 1
  <2>1. xIn[x] \in Seq(ToXApp)
    BY DEF TypeOK, TypeXApps
  <2>2. Head(xIn[x]) = xIn[x][1] /\ \A i \in DOMAIN xIn[x] : i \in Nat /\ i > 0
    BY <2>1
  <2>. QED
    BY <2>2 DEF MsgAt
<1>4. ASSUME Answered(x, t, h)' PROVE Answered(x, t, h)
  <2>1. PICK s \in {0, 1, 2}, n \in Nodes, i \in Nat : MsgAt(x, t, h, s, n, i)'
    BY <1>0, <1>4 DEF Answered
  <2>2. MsgAt(x, t, h, 0, n, i + 1) \/ MsgAt(x, t, h, 1, n, i) \/ MsgAt(x, t, h, 2, n, i)
    BY <1>1, <1>2, <2>1
  <2>3. 0 \in 0 .. 2 /\ 1 \in 0 .. 2 /\ 2 \in 0 .. 2 /\ i + 1 \in Nat
    OBVIOUS
  <2>. QED
    BY <2>2, <2>3 DEF Answered
<1>5. ASSUME Answered(x, t, h) PROVE Answered(x, t, h)'
  <2>1. PICK s \in {0, 1, 2}, n \in Nodes, i \in Nat : MsgAt(x, t, h, s, n, i)
    BY <1>0, <1>5 DEF Answered
  <2>2. \/ i - 1 \in Nat /\ MsgAt(x, t, h, 0, n, i - 1)'
        \/ MsgAt(x, t, h, 1, n, i)' \/ MsgAt(x, t, h, 2, n, i)'
    <3>1. CASE s = 0
      <4>1. i - 1 \in Nat /\ i - 1 > 0 /\ (i - 1) + 1 = i
        BY <1>3, <2>1, <3>1
      <4>2. MsgAt(x, t, h, 0, n, (i - 1) + 1)
        BY <2>1, <3>1, <4>1
      <4>. QED
        BY <1>2, <4>1, <4>2
    <3>2. CASE s \in {1, 2}
      BY <1>1, <2>1, <3>2
    <3>. QED
      BY <3>1, <3>2
  <2>3. 0 \in 0 .. 2 /\ 1 \in 0 .. 2 /\ 2 \in 0 .. 2
    OBVIOUS
  <2>. QED
    BY <2>2, <2>3 DEF Answered
<1>. QED
    BY <1>4, <1>5

\* The abstract state, read off the tokens.
TokenPhase(x, h) ==
    IF xst[x] = "aborted" \/ h \notin active[x] THEN "closed"
    ELSE IF xop[x] = NoOp \/ xop[x].h # h THEN "active"
    ELSE IF xop[x].ans = "DEL_RESP"
    THEN IF Answered(x, xop[x].ans, h) THEN "released" ELSE "leaving"
    ELSE IF Answered(x, xop[x].ans, h) THEN "granted" ELSE "asked"

\* The phases and subscriptions of the service, by the tokens.
TokenState ==
    /\ Phases = [x \in XApps |-> [h \in DOMAIN issued[x] |-> TokenPhase(x, h)]]
    /\ Serving = [n \in Nodes |-> {p \in XApps \X (1 .. MaxReq) :
                                     xst[p[1]] # "aborted" /\ Serves(n, p[1], p[2])}]

\* The refinement mapping in terms of tokens.
LEMMA ServiceState == TypeOK /\ Told => TokenState
<1>. SUFFICES ASSUME TypeOK, Told PROVE TokenState
    OBVIOUS
<1>1. ASSUME NEW x \in XApps, NEW h \in DOMAIN issued[x] PROVE PhaseOf(x, h) = TokenPhase(x, h)
  <2>1. issued[x] \in Seq(Requests)
    BY DEF TypeOK, TypeXApps
  <2>2. h \in Nat
    BY <2>1
  <2>3. xop[x] # NoOp => (AnswerUnderWay(x, h) <=> Answered(x, xop[x].ans, h))
    BY <2>2 DEF Told
  <2>. QED
    BY <2>3 DEF PhaseOf, TokenPhase
<1>2. ASSUME NEW n \in Nodes, NEW p \in XApps \X (1 .. MaxReq)
      PROVE  (\E q \in agSubs[n] : StandsFor(q.rid, p[1], p[2])) <=> Serves(n, p[1], p[2])
  <2>1. p[1] \in XApps /\ p[2] \in Nat
    BY ConstAssumption DEF ConstAssumption
  <2>. QED
    BY <2>1 DEF Told
<1>3. Phases = [x \in XApps |-> [h \in DOMAIN issued[x] |-> TokenPhase(x, h)]]
    BY <1>1, Zenon DEF Phases
<1>4. Serving = [n \in Nodes |-> {p \in XApps \X (1 .. MaxReq) :
                                    xst[p[1]] # "aborted" /\ Serves(n, p[1], p[2])}]
    BY <1>2, Zenon DEF Serving
<1>. QED
    BY <1>3, <1>4 DEF TokenState

\* The phases of x stay, or only that of request h changes.
PhaseKept(x) == \A h \in DOMAIN issued[x] : TokenPhase(x, h)' = TokenPhase(x, h)

\* The service's phases stay when those of every xApp do.
LEMMA PhasesKept ==
    ASSUME TokenState, TokenState', UNCHANGED issued, \A x \in XApps : PhaseKept(x)
    PROVE  UNCHANGED Phases
    BY DEF TokenState, PhaseKept

\* Requests of node n: those served stay the same.
ServesKept(n) ==
    \A x \in XApps, h \in Nat :
        xst'[x] # "aborted" /\ Serves(n, x, h)' <=> xst[x] # "aborted" /\ Serves(n, x, h)

\* The service's subscriptions stay when those of every node do.
LEMMA ServingKept ==
    ASSUME TokenState, TokenState', \A n \in Nodes : ServesKept(n)
    PROVE  UNCHANGED Serving
<1>1. ASSUME NEW n \in Nodes, NEW p \in XApps \X (1 .. MaxReq)
      PROVE  xst'[p[1]] # "aborted" /\ Serves(n, p[1], p[2])'
               <=> xst[p[1]] # "aborted" /\ Serves(n, p[1], p[2])
  <2>1. p[1] \in XApps /\ p[2] \in Nat
    BY ConstAssumption DEF ConstAssumption
  <2>. QED
    BY <2>1 DEF ServesKept
<1>. QED
    BY <1>1 DEF TokenState

\* An xApp whose state and answers stay keeps its phases, and so does a dead one.
LEMMA PhaseStays ==
    ASSUME TypeOK, NEW x \in XApps, UNCHANGED <<xop[x], active[x]>>,
           xst'[x] = "aborted" <=> xst[x] = "aborted",
           xst[x] # "aborted" => AnswersKept(x)
    PROVE  PhaseKept(x)
<1>. SUFFICES ASSUME NEW h \in DOMAIN issued[x], xst[x] # "aborted", xop[x] # NoOp
              PROVE  Answered(x, xop[x].ans, h)' <=> Answered(x, xop[x].ans, h)
    BY DEF PhaseKept, TokenPhase
<1>1. issued[x] \in Seq(Requests)
    BY DEF TypeOK, TypeXApps
<1>2. h \in Nat
    BY <1>1
<1>3. xop[x].ans \in AnswerTypes
    BY DEF TypeOK, TypeXApps, AnswerTypes, E2Answers
<1>. DEFINE t == xop[x].ans
<1>4. t' = t
    OBVIOUS
<1>5. Answered(x, t, h)' <=> Answered(x, t, h)
    BY <1>2, <1>3, <1>4 DEF AnswersKept, Answered
<1>. QED
    BY <1>5

\* A step that leaves xApps, their answers and the subscriptions alone is none
\* of the service.
LEMMA QuietStep ==
    ASSUME TypeOK, TokenState, TokenState', UNCHANGED <<issued, xop, active>>,
           \A x \in XApps : /\ xst'[x] = "aborted" <=> xst[x] = "aborted"
                            /\ xst[x] # "aborted" => AnswersKept(x)
                            /\ Same(x, {3})
    PROVE  UNCHANGED Service!vars
<1>1. \A x \in XApps : PhaseKept(x)
    BY PhaseStays
<1>2. ASSUME NEW n \in Nodes PROVE ServesKept(n)
  <2>1. "IND" \in E2Answers /\ 0 \in Nat
    BY DEF E2Answers
  <2>. QED
    BY <2>1 DEF ServesKept, Serves, Same
<1>3. UNCHANGED Phases /\ UNCHANGED Serving
    BY <1>1, <1>2, PhasesKept, ServingKept
<1>. QED
    BY <1>3 DEF Service!vars

\* The near-RT RIC itself takes no step of the service.
LEMMA RicServes ==
    ASSUME TypeOK, RoutingInv, OwnersInv, TokenState, TokenState', ~Clash',
           [Next]_vars, RicThread \/ RicTimeout \/ IAppThread \/ UNCHANGED vars
    PROVE  UNCHANGED Service!vars
<1>1. UNCHANGED <<issued, xop, active, xst>>
    BY RicFrames, IAppFrames DEF RicFrame, IAppFrame, vars, xVars
<1>. SUFFICES ASSUME NEW x \in XApps
              PROVE  (xst[x] # "aborted" => AnswersKept(x)) /\ Same(x, {3})
    BY <1>1, QuietStep
<1>s. ASSUME Same(x, 0 .. 7) PROVE AnswersKept(x) /\ Same(x, {3})
  <2>1. Same(x, {0, 1, 2}) /\ Same(x, {3})
    BY <1>s DEF Same
  <2>. QED
    BY <2>1, AnswersSame
<1>r. ASSUME NEW S, Same(x, S), {0, 1, 2, 3} \subseteq S PROVE AnswersKept(x) /\ Same(x, {3})
  <2>1. Same(x, {0, 1, 2}) /\ Same(x, {3})
    BY <1>r DEF Same
  <2>. QED
    BY <2>1, AnswersSame
<1>a. CASE \E why : Abort(why)
    BY <1>a, <1>s, MoveRicNothing
<1>0. SUFFICES ASSUME ~\E why : Abort(why)
               PROVE  (xst[x] # "aborted" => AnswersKept(x)) /\ Same(x, {3})
    BY <1>a
<1>2. CASE \/ RicAddNode \/ RicAcceptNode \/ RicEraseConn \/ RicRmNode \/ RicTimeout
           \/ IAppRegXApp \/ IAppSetupResponse \/ IAppLock \/ IAppAddMap \/ UNCHANGED vars
    BY <1>2, <1>s, MoveRicNothing
<1>3. CASE RicSetupRequest \/ RicShutdown
  <2>1. RicDrops(x)
    BY <1>0, <1>3, MoveRicDrop
  <2>2. Same(x, {3})
    BY <2>1 DEF RicDrops, Same
  <2>. QED
    BY <2>1, <2>2, AnswersRicTakes
<1>4. CASE RicAnswer \/ RicIndication
  <2>1. RicTakes(x)
    BY <1>0, <1>4, MoveRicTake
  <2>2. Same(x, {3})
    BY <2>1 DEF RicTakes, Same
  <2>. QED
    BY <2>1, <2>2, AnswersRicTakes
<1>5. CASE RicLookup
    BY <1>0, <1>5, <1>s, MoveRicLookup
<1>6. CASE RicNotify
  <2>1. RicTells(x)
    BY <1>0, <1>6, MoveRicNotify
  <2>2. Same(x, {3})
    BY <2>1 DEF RicTells, Same
  <2>. QED
    BY <2>1, <2>2, AnswersRicTells
<1>7. CASE IAppSetupRequest
  <2>1. Same(x, {0, 1, 2, 3, 4, 5, 6})
    BY <1>7, MoveIAppDrop DEF IAppDrops
  <2>. QED
    BY <1>r, <2>1
<1>8. CASE IAppRequest \/ IAppDelete
  <2>1. Same(x, {0, 1, 2, 3, 4, 5})
    BY <1>0, <1>8, MoveIAppTake DEF IAppTakes
  <2>. QED
    BY <1>r, <2>1
<1>9. CASE IAppStartTimer \/ IAppDeleteTimer
  <2>1. IAppArms(x)
    BY <1>9, MoveStartTimer, MoveDeleteTimer
  <2>2. Same(x, {0, 7}) /\ Same(x, {1, 2, 3, 4})
    BY <2>1 DEF IAppArms
  <2>3. Same(x, {0, 1, 2, 3})
    BY <2>2 DEF Same
  <2>. QED
    BY <1>r, <2>3
<1>10. CASE IAppForward
  <2>1. Same(x, {0, 1, 2, 3, 6, 7})
    BY <1>0, <1>10, MoveIAppForward DEF IAppSends
  <2>. QED
    BY <1>r, <2>1
<1>. QED
    BY <1>2, <1>3, <1>4, <1>5, <1>6, <1>7, <1>8, <1>9, <1>10 DEF RicThread, IAppThread

\* xApps that start, wait for their setup or read indications.
LEMMA XAppQuiet ==
    ASSUME TypeOK, RoutingInv, OwnersInv, TokenState, TokenState', [Next]_vars, NEW y \in XApps,
           XAppStart(y) \/ XAppResendSetup(y) \/ XAppIndication(y)
             \/ (XAppSetupResponse(y) /\ ~XAppAbort(y))
    PROVE  UNCHANGED Service!vars
<1>t. xst \in [XApps -> {"off", "connecting", "idle", "waiting", "aborted"}]
    BY DEF TypeOK, TypeXApps
<1>1. UNCHANGED <<issued, xop, active>>
    BY DEF XAppStart, XAppResendSetup, XAppIndication, XAppSetupResponse
<1>2. ASSUME NEW x \in XApps PROVE xst'[x] = "aborted" <=> xst[x] = "aborted"
    BY <1>t DEF XAppStart, XAppResendSetup, XAppIndication, XAppSetupResponse
<1>3. ASSUME NEW x \in XApps PROVE AnswersKept(x) /\ Same(x, {3})
  <2>s. ASSUME Same(x, 0 .. 7) PROVE AnswersKept(x) /\ Same(x, {3})
    <3>1. Same(x, {0, 1, 2}) /\ Same(x, {3})
      BY <2>s DEF Same
    <3>. QED
      BY <3>1, AnswersSame
  <2>1. CASE XAppStart(y) \/ XAppResendSetup(y)
    BY <2>1, <2>s, MoveXNothing
  <2>2. CASE XAppIndication(y) \/ (XAppSetupResponse(y) /\ ~XAppAbort(y))
    <3>a. ~XAppAbort(y)
      BY <1>t, <2>2 DEF XAppIndication, XAppAbort, XReceives
    <3>1. IF x = y THEN XReads(x) ELSE Same(x, 0 .. 7)
      BY <2>2, <3>a, MoveXRead
    <3>2. xIn[y] # <<>> /\ Head(xIn[y]).type \notin AnswerTypes
      BY <2>2 DEF XAppIndication, XAppSetupResponse, XReceives, AnswerTypes, E2Answers
    <3>3. CASE x = y
      <4>1. Same(x, {3})
        BY <3>1, <3>3 DEF XReads, Same
      <4>. QED
        BY <3>1, <3>2, <3>3, <4>1, AnswersXReads
    <3>. QED
      BY <2>s, <3>1, <3>3
  <2>. QED
    BY <2>1, <2>2
<1>. QED
    BY <1>1, <1>2, <1>3, QuietStep

\* The phase of one request changes, those of all others stay.
LEMMA PhaseBecomes ==
    ASSUME TypeOK, TokenState, TokenState', UNCHANGED issued, NEW x \in XApps,
           NEW h \in DOMAIN issued[x], NEW from, NEW to,
           TokenPhase(x, h) = from, TokenPhase(x, h)' = to,
           \A y \in XApps \ {x} : PhaseKept(y),
           \A g \in DOMAIN issued[x] \ {h} : TokenPhase(x, g)' = TokenPhase(x, g)
    PROVE  h \in DOMAIN Phases[x] /\ Service!Becomes(x, h, from, to)
<1>1. Phases = [y \in XApps |-> [g \in DOMAIN issued[y] |-> TokenPhase(y, g)]]
    BY DEF TokenState
<1>2. Phases' = [y \in XApps |-> [g \in DOMAIN issued[y] |-> TokenPhase(y, g)']]
    BY DEF TokenState
<1>3. Phases[x][h] = from /\ DOMAIN Phases[x] = DOMAIN issued[x]
    BY <1>1
<1>4. Phases' = [Phases EXCEPT ![x][h] = to]
  <2>1. \A y \in XApps \ {x} : Phases'[y] = Phases[y]
    BY <1>1, <1>2 DEF PhaseKept
  <2>2. Phases'[x] = [Phases[x] EXCEPT ![h] = to]
    BY <1>1, <1>2
  <2>. QED
    BY <1>1, <1>2, <2>1, <2>2
<1>. QED
    BY <1>3, <1>4 DEF Service!Becomes

\* An xApp that ends leaves the service.
LEMMA XAppQuits ==
    ASSUME TypeOK, RoutingInv, OwnersInv, TokenState, TokenState', [Next]_vars, NEW y \in XApps,
           XAppAbort(y)
    PROVE  Service!Quit(y)
<1>t. xst \in [XApps -> {"off", "connecting", "idle", "waiting", "aborted"}]
    BY DEF TypeOK, TypeXApps
<1>1. UNCHANGED <<issued, xop, active>> /\ xst' = [xst EXCEPT ![y] = "aborted"]
    BY DEF XAppAbort
<1>2. ASSUME NEW x \in XApps, x # y PROVE PhaseKept(x)
  <2>1. Same(x, 0 .. 7)
    BY <1>2, MoveXLose
  <2>2. Same(x, {0, 1, 2})
    BY <2>1 DEF Same
  <2>. QED
    BY <1>1, <1>2, <1>t, <2>2, AnswersSame, PhaseStays
<1>3. Phases' = [Phases EXCEPT ![y] = [h \in DOMAIN @ |-> "closed"]]
  <2>1. \A h \in DOMAIN issued[y] : TokenPhase(y, h)' = "closed"
    BY <1>1, <1>t DEF TokenPhase
  <2>2. Phases = [x \in XApps |-> [g \in DOMAIN issued[x] |-> TokenPhase(x, g)]]
    BY DEF TokenState
  <2>3. Phases' = [x \in XApps |-> [g \in DOMAIN issued[x] |-> TokenPhase(x, g)']]
    BY <1>1 DEF TokenState
  <2>4. \A x \in XApps \ {y} : Phases'[x] = Phases[x]
    BY <1>2, <2>2, <2>3 DEF PhaseKept
  <2>5. Phases'[y] = [h \in DOMAIN Phases[y] |-> "closed"]
    BY <2>1, <2>2, <2>3
  <2>. QED
    BY <2>2, <2>3, <2>4, <2>5
<1>4. Serving' = [n \in Nodes |-> {p \in Serving[n] : p[1] # y}]
  <2>1. ASSUME NEW n \in Nodes, NEW p \in XApps \X (1 .. MaxReq)
        PROVE  xst'[p[1]] # "aborted" /\ Serves(n, p[1], p[2])'
                 <=> xst[p[1]] # "aborted" /\ Serves(n, p[1], p[2]) /\ p[1] # y
    <3>1. p[1] \in XApps /\ p[2] \in Nat /\ "IND" \in E2Answers /\ 0 \in Nat
      BY ConstAssumption DEF ConstAssumption, E2Answers
    <3>2. p[1] # y => xst'[p[1]] = xst[p[1]]
      BY <1>1, <1>t, <3>1
    <3>3. p[1] = y => xst'[p[1]] = "aborted"
      BY <1>1, <1>t
    <3>4. p[1] # y => Same(p[1], 0 .. 7)
      BY <3>1, MoveXLose
    <3>5. p[1] # y => (Serves(n, p[1], p[2])' <=> Serves(n, p[1], p[2]))
      BY <3>1, <3>4 DEF Same, Serves
    <3>. QED
      BY <3>2, <3>3, <3>5
  <2>2. \A n \in Nodes : Serving[n] = {p \in XApps \X (1 .. MaxReq) :
                                         xst[p[1]] # "aborted" /\ Serves(n, p[1], p[2])}
    BY DEF TokenState
  <2>3. Serving' = [n \in Nodes |-> {p \in XApps \X (1 .. MaxReq) :
                                       xst'[p[1]] # "aborted" /\ Serves(n, p[1], p[2])'}]
    BY DEF TokenState
  <2>4. ASSUME NEW n \in Nodes
        PROVE  {p \in XApps \X (1 .. MaxReq) : xst'[p[1]] # "aborted" /\ Serves(n, p[1], p[2])'}
                 = {p \in Serving[n] : p[1] # y}
    BY <2>1, <2>2
  <2>. QED
    BY <2>3, <2>4
<1>. QED
    BY <1>1, <1>3, <1>4 DEF Service!Quit

\* xApp y sends a request: no answer to it can be on its way yet.
LEMMA XAppSends ==
    ASSUME TypeOK, RoutingInv, OwnersInv, WaitsInv, OneTokenInv, TokenState, TokenState',
           [Next]_vars, NEW y \in XApps,
           NEW c \in {"SUB_REQ", "DEL_REQ", "CTRL_REQ"}, NEW g \in Nat, NEW k \in Nodes,
           NEW f \in RanFuncs, xst[y] = "idle",
           iappIn' = Append(iappIn, [type |-> c, xid |-> xid[y], h |-> g, node |-> k, rf |-> f]),
           UNCHANGED <<ricVars, iappVars, ricIn, xIn, agIn, agSubs, reqId>>,
           xst' = [xst EXCEPT ![y] = "waiting"],
           \A x \in XApps \ {y} : UNCHANGED <<xop[x], active[x]>>
    PROVE  /\ xop[y] = NoOp /\ xst'[y] = "waiting"
           /\ \A x \in XApps \ {y} : PhaseKept(x)
           /\ \A t \in AnswerTypes, h \in Nat : ~Answered(y, t, h)'
           /\ UNCHANGED Serving
<1>t. xst \in [XApps -> {"off", "connecting", "idle", "waiting", "aborted"}]
    BY DEF TypeOK, TypeXApps
<1>1. xop[y] = NoOp /\ xst'[y] = "waiting"
    BY <1>t DEF WaitsInv
<1>2. ASSUME NEW x \in XApps PROVE Same(x, 0 .. 6)
  <2>1. IF x = y THEN XAsks(x, AnswerTo(c), g, k) ELSE Same(x, 0 .. 7)
    BY MoveXAsk
  <2>2. CASE x = y
    BY <2>1, <2>2 DEF XAsks
  <2>3. CASE x # y
    BY <2>1, <2>3 DEF Same
  <2>. QED
    BY <2>2, <2>3
<1>3. \A x \in XApps : Same(x, {0, 1, 2}) /\ Same(x, {3})
    BY <1>2 DEF Same
<1>4. ASSUME NEW x \in XApps \ {y} PROVE PhaseKept(x)
    BY <1>3, <1>4, <1>t, AnswersSame, PhaseStays
<1>5. ASSUME NEW t \in AnswerTypes, NEW h \in Nat PROVE ~Answered(y, t, h)'
  <2>1. ASSUME Answered(y, t, h) PROVE FALSE
    <3>1. PICK s \in 0 .. 2, n \in Nodes, i \in Nat : MsgAt(y, t, h, s, n, i)
      BY <2>1 DEF Answered
    <3>2. s \in 0 .. 7
      OBVIOUS
    <3>. QED
      BY <3>1, <3>2, IdleNoToken
  <2>2. AnswersKept(y)
    BY <1>3, AnswersSame
  <2>. QED
    BY <2>1, <2>2 DEF AnswersKept
<1>6. ASSUME NEW n \in Nodes PROVE ServesKept(n)
  <2>1. "IND" \in E2Answers /\ 0 \in Nat
    BY DEF E2Answers
  <2>2. \A x \in XApps : xst'[x] = "aborted" <=> xst[x] = "aborted"
    BY <1>t
  <2>. QED
    BY <1>3, <2>1, <2>2 DEF ServesKept, Serves, Same
<1>. QED
    BY <1>1, <1>4, <1>5, <1>6, ServingKept

\* rm_report_sm_sync_xapp asks the service to remove a subscription.
LEMMA XAppRemoves ==
    ASSUME TypeOK, RoutingInv, OwnersInv, WaitsInv, OneTokenInv, TokenState, TokenState',
           [Next]_vars, NEW y \in XApps, XAppUnsubscribe(y)
    PROVE  \E h \in DOMAIN Phases[y] : Service!Remove(y, h)
<1>t. /\ xop \in [XApps -> [ans : {"SUB_RESP", "DEL_RESP", "CTRL_ACK"}, h : Nat] \cup {NoOp}]
      /\ issued[y] \in Seq(Requests) /\ active[y] \subseteq DOMAIN issued[y]
    BY DEF TypeOK, TypeXApps
<1>1. PICK h \in active[y] :
        /\ iappIn' = Append(iappIn, [type |-> "DEL_REQ", xid |-> xid[y], h |-> h,
                                     node |-> issued[y][h].node, rf |-> issued[y][h].rf])
        /\ xop' = [xop EXCEPT ![y] = [ans |-> "DEL_RESP", h |-> h]]
    BY DEF XAppUnsubscribe, SendToIApp
<1>2. h \in Nat /\ issued[y][h].node \in Nodes /\ issued[y][h].rf \in RanFuncs
      /\ h \in DOMAIN issued[y]
  <2>1. issued[y][h] \in Requests /\ h \in Nat
    BY <1>t
  <2>. QED
    BY <1>t, <2>1 DEF Requests
<1>3. /\ UNCHANGED <<ricVars, iappVars, ricIn, xIn, agIn, agSubs, reqId, issued, active>>
      /\ xst[y] = "idle" /\ xst' = [xst EXCEPT ![y] = "waiting"]
    BY DEF XAppUnsubscribe, agVars, shared
<1>4. \A x \in XApps \ {y} : UNCHANGED <<xop[x], active[x]>>
    BY <1>1, <1>3, <1>t
<1>5. /\ xop[y] = NoOp /\ xst'[y] = "waiting"
      /\ \A x \in XApps \ {y} : PhaseKept(x)
      /\ \A t \in AnswerTypes, g \in Nat : ~Answered(y, t, g)'
      /\ UNCHANGED Serving
    BY <1>1, <1>2, <1>3, <1>4, XAppSends
<1>6. xop'[y] = [ans |-> "DEL_RESP", h |-> h] /\ xop'[y] # NoOp /\ "DEL_RESP" \in AnswerTypes
    BY <1>1, <1>t DEF NoOp, AnswerTypes, E2Answers
<1>7. TokenPhase(y, h) = "active" /\ TokenPhase(y, h)' = "leaving"
  <2>1. ~Answered(y, "DEL_RESP", h)'
    BY <1>2, <1>5, <1>6
  <2>2. ~Answered(y, xop[y].ans, h)'
    BY <1>6, <2>1 DEF Answered
  <2>. QED
    BY <1>3, <1>5, <1>6, <2>2 DEF TokenPhase
<1>8. \A g \in DOMAIN issued[y] \ {h} : TokenPhase(y, g)' = TokenPhase(y, g)
    BY <1>3, <1>5, <1>6 DEF TokenPhase
<1>9. h \in DOMAIN Phases[y] /\ Service!Becomes(y, h, "active", "leaving")
    BY <1>2, <1>3, <1>5, <1>7, <1>8, PhaseBecomes
<1>. QED
    BY <1>5, <1>9 DEF Service!Remove

\* report_sm_sync_xapp and control_sm_sync_xapp ask the service for a request.
LEMMA XAppAsksFor ==
    ASSUME TypeOK, RoutingInv, OwnersInv, WaitsInv, OneTokenInv, TokenState, TokenState',
           [Next]_vars, NEW y \in XApps, NEW c \in {"SUB_REQ", "CTRL_REQ"}, NEW k \in Nodes,
           NEW f \in RanFuncs, XAppRequest(y, c, k, f)
    PROVE  \E req \in Requests : Service!Ask(y, req)
<1>. DEFINE req == [kind |-> c, node |-> k, rf |-> f]
<1>t. /\ xop \in [XApps -> [ans : {"SUB_RESP", "DEL_RESP", "CTRL_ACK"}, h : Nat] \cup {NoOp}]
      /\ issued \in [XApps -> Seq(Requests)] /\ active[y] \subseteq DOMAIN issued[y]
      /\ active \in [XApps -> SUBSET Nat]
    BY DEF TypeOK, TypeXApps
<1>l. PICK h \in Nat : h = Len(issued[y]) + 1
    BY <1>t
<1>1. /\ iappIn' = Append(iappIn, [type |-> c, xid |-> xid[y], h |-> h, node |-> k, rf |-> f])
      /\ xop' = [xop EXCEPT ![y] = [ans |-> AnswerTo(c), h |-> h]]
      /\ issued' = [issued EXCEPT ![y] = Append(@, req)]
      /\ active' = [active EXCEPT ![y] = @ \cup {h}]
      /\ xst[y] = "idle" /\ xst' = [xst EXCEPT ![y] = "waiting"]
      /\ UNCHANGED <<ricVars, iappVars, ricIn, xIn, agIn, agSubs, reqId>>
    BY <1>l DEF XAppRequest, SendToIApp, agVars, shared
<1>2. req \in Requests
    BY DEF Requests
<1>3. h \in Nat /\ Len(issued[y]) \in Nat /\ issued[y] \in Seq(Requests)
      /\ DOMAIN issued[y] = 1 .. Len(issued[y])
    BY <1>t
<1>a. /\ DOMAIN issued'[y] = 1 .. h
      /\ \A x \in XApps \ {y} : issued'[x] = issued[x]
  <2>1. issued'[y] = Append(issued[y], req)
    BY <1>1, <1>t
  <2>2. DOMAIN Append(issued[y], req) = 1 .. Len(issued[y]) + 1
    BY <1>2, <1>3, AppendElements
  <2>. QED
    BY <1>1, <1>l, <1>t, <2>1, <2>2
<1>4. \A x \in XApps \ {y} : UNCHANGED <<xop[x], active[x]>>
    BY <1>1, <1>t
<1>5. /\ xop[y] = NoOp /\ xst'[y] = "waiting"
      /\ \A x \in XApps \ {y} : PhaseKept(x)
      /\ \A t \in AnswerTypes, g \in Nat : ~Answered(y, t, g)'
      /\ UNCHANGED Serving
    BY <1>1, <1>3, <1>4, XAppSends
<1>6. /\ xop'[y] = [ans |-> AnswerTo(c), h |-> h] /\ xop'[y] # NoOp
      /\ AnswerTo(c) \in AnswerTypes /\ AnswerTo(c) # "DEL_RESP"
    BY <1>1, <1>t DEF NoOp, AnswerTypes, E2Answers, AnswerTo
<1>7. TokenPhase(y, h)' = "asked"
  <2>1. ~Answered(y, AnswerTo(c), h)'
    BY <1>3, <1>5, <1>6
  <2>2. ~Answered(y, xop[y].ans, h)' /\ xop'[y].ans = AnswerTo(c) /\ xop'[y].h = h
    BY <1>6, <2>1 DEF Answered
  <2>3. h \in active'[y]
    BY <1>1, <1>t
  <2>. QED
    BY <1>5, <1>6, <2>2, <2>3 DEF TokenPhase
<1>8. \A g \in 1 .. Len(issued[y]) : TokenPhase(y, g)' = TokenPhase(y, g)
  <2>1. \A g \in 1 .. Len(issued[y]) : g # h /\ (g \in active'[y] <=> g \in active[y])
    BY <1>1, <1>3, <1>l, <1>t
  <2>2. xop'[y].h = h
    BY <1>6
  <2>. QED
    BY <1>1, <1>5, <1>6, <2>1, <2>2 DEF TokenPhase
<1>9. Phases' = [Phases EXCEPT ![y] = Append(@, "asked")]
  <2>1. Phases = [x \in XApps |-> [g \in DOMAIN issued[x] |-> TokenPhase(x, g)]]
    BY DEF TokenState
  <2>2. Phases' = [x \in XApps |-> [g \in DOMAIN issued'[x] |-> TokenPhase(x, g)']]
    BY DEF TokenState
  <2>3. \A x \in XApps \ {y} : Phases'[x] = Phases[x]
    BY <1>5, <1>a, <2>1, <2>2 DEF PhaseKept
  <2>4. Phases[y] = [g \in 1 .. Len(issued[y]) |-> TokenPhase(y, g)]
    BY <1>3, <2>1
  <2>5. Phases'[y] = [g \in 1 .. h |-> TokenPhase(y, g)']
    BY <1>a, <2>2
  <2>. DEFINE S == {"closed", "active", "released", "leaving", "granted", "asked"}
  <2>6. Phases[y] \in Seq(S) /\ Len(Phases[y]) = Len(issued[y])
    <3>1. \A g : TokenPhase(y, g) \in S
      BY DEF TokenPhase
    <3>. HIDE DEF S
    <3>. QED
      BY <1>3, <2>4, <3>1
  <2>7. Append(Phases[y], "asked") = [g \in 1 .. h |-> IF g = h THEN "asked" ELSE Phases[y][g]]
    BY <1>3, <1>l, <2>6
  <2>8. Phases'[y] = Append(Phases[y], "asked")
    <3>1. ASSUME NEW g \in 1 .. h
          PROVE  TokenPhase(y, g)' = IF g = h THEN "asked" ELSE Phases[y][g]
      <4>1. CASE g = h
        BY <1>7, <4>1
      <4>2. CASE g # h
        <5>1. g \in 1 .. Len(issued[y])
          BY <1>3, <1>l, <4>2
        <5>. QED
          BY <1>8, <2>4, <4>2, <5>1
      <4>. QED
        BY <4>1, <4>2
    <3>. QED
      BY <2>5, <2>7, <3>1
  <2>. QED
    BY <2>1, <2>2, <2>3, <2>8
<1>. QED
    BY <1>1, <1>2, <1>5, <1>9 DEF Service!Ask

\* xApp y learns of the answer.
LEMMA XAppLearns ==
    ASSUME TypeOK, RoutingInv, OwnersInv, WaitsInv, OneTokenInv, TokenState, TokenState',
           [Next]_vars, NEW y \in XApps, XAppAnswer(y)
    PROVE  \E h \in DOMAIN Phases[y] : Service!Confirm(y, h) \/ Service!Close(y, h)
<1>t. /\ xst \in [XApps -> {"off", "connecting", "idle", "waiting", "aborted"}]
      /\ xop \in [XApps -> [ans : {"SUB_RESP", "DEL_RESP", "CTRL_ACK"}, h : Nat] \cup {NoOp}]
      /\ active \in [XApps -> SUBSET Nat] /\ active[y] \subseteq DOMAIN issued[y]
    BY DEF TypeOK, TypeXApps
<1>0. PICK t \in AnswerTypes, h \in Nat, n \in Nodes :
        /\ t = Head(xIn[y]).type /\ h = Head(xIn[y]).h /\ MsgAt(y, t, h, 0, n, 1)
        /\ xop[y] = [ans |-> t, h |-> h] /\ h \in active[y]
    BY AnswerAtHead
<1>1. /\ xst[y] # "aborted" /\ UNCHANGED issued
      /\ xst' = [xst EXCEPT ![y] = "idle"] /\ xop' = [xop EXCEPT ![y] = NoOp]
      /\ active' = [active EXCEPT ![y] = IF xop[y].ans = "SUB_RESP" THEN @ ELSE @ \ {xop[y].h}]
    BY <1>0 DEF XAppAnswer, XReceives
<1>2. xst'[y] = "idle" /\ xop'[y] = NoOp
      /\ active'[y] = IF t = "SUB_RESP" THEN active[y] ELSE active[y] \ {h}
    BY <1>0, <1>1, <1>t
<1>a. ~XAppAbort(y)
    BY <1>2, <1>t DEF XAppAbort
<1>3. Answered(y, xop[y].ans, h)
  <2>1. 0 \in 0 .. 2 /\ 1 \in Nat /\ xop[y].ans = t
    BY <1>0
  <2>. QED
    BY <1>0, <2>1 DEF Answered
<1>4. xop[y] # NoOp /\ t \in {"SUB_RESP", "DEL_RESP", "CTRL_ACK"}
    BY <1>0 DEF NoOp, AnswerTypes, E2Answers
<1>5. TokenPhase(y, h) = IF t = "DEL_RESP" THEN "released" ELSE "granted"
    BY <1>0, <1>1, <1>3, <1>4 DEF TokenPhase
<1>6. TokenPhase(y, h)' = IF t = "SUB_RESP" THEN "active" ELSE "closed"
    BY <1>0, <1>2 DEF TokenPhase
<1>7. \A g \in DOMAIN issued[y] \ {h} : TokenPhase(y, g)' = TokenPhase(y, g)
  <2>1. \A g : g # h => (g \in active'[y] <=> g \in active[y])
    BY <1>2
  <2>. QED
    BY <1>0, <1>1, <1>2, <1>4, <2>1 DEF TokenPhase
<1>8. ASSUME NEW x \in XApps \ {y} PROVE PhaseKept(x)
  <2>1. Same(x, 0 .. 7)
    BY <1>a, MoveXRead
  <2>2. Same(x, {0, 1, 2})
    BY <2>1 DEF Same
  <2>3. UNCHANGED <<xop[x], active[x], xst[x]>>
    BY <1>1, <1>t
  <2>. QED
    BY <2>2, <2>3, AnswersSame, PhaseStays
<1>9. ASSUME NEW n2 \in Nodes PROVE ServesKept(n2)
  <2>1. "IND" \in E2Answers /\ 0 \in Nat
    BY DEF E2Answers
  <2>2. \A x \in XApps : xst'[x] = "aborted" <=> xst[x] = "aborted"
    BY <1>1, <1>t
  <2>3. ASSUME NEW x \in XApps PROVE Same(x, {3})
    <3>1. IF x = y THEN XReads(x) ELSE Same(x, 0 .. 7)
      BY <1>a, MoveXRead
    <3>2. CASE x = y
      BY <3>1, <3>2 DEF XReads, Same
    <3>3. CASE x # y
      BY <3>1, <3>3 DEF Same
    <3>. QED
      BY <3>2, <3>3
  <2>. QED
    BY <2>1, <2>2, <2>3 DEF ServesKept, Serves, Same
<1>10. UNCHANGED Serving
    BY <1>9, ServingKept
<1>11. issued[y][h].kind = IF t = "CTRL_ACK" THEN "CTRL_REQ" ELSE "SUB_REQ"
  <2>1. xIn[y] \in Seq(ToXApp) /\ xIn[y] # <<>>
    BY DEF TypeOK, TypeXApps, XAppAnswer, XReceives
  <2>2. Head(xIn[y]) = xIn[y][1] /\ 1 \in DOMAIN xIn[y]
    BY <2>1, TailElements
  <2>3. Head(xIn[y]) \in Range(xIn[y])
    BY <2>2 DEF Range
  <2>4. t \in E2Answers
    BY DEF AnswerTypes
  <2>5. Asked(y, h, KindOf(t), Head(xIn[y]).node, Head(xIn[y]).rf)
    BY <1>0, <2>3, <2>4 DEF RoutingInv, RoutedToRequester
  <2>. QED
    BY <1>4, <2>5 DEF Asked, KindOf
<1>12. h \in DOMAIN issued[y]
    BY <1>0, <1>t
<1>13. CASE t = "DEL_RESP"
  <2>1. h \in DOMAIN Phases[y] /\ Service!Becomes(y, h, "released", "closed")
    BY <1>1, <1>5, <1>6, <1>7, <1>8, <1>12, <1>13, PhaseBecomes
  <2>. QED
    BY <1>10, <2>1 DEF Service!Close
<1>14. CASE t # "DEL_RESP"
  <2>1. TokenPhase(y, h)' = IF issued[y][h].kind = "SUB_REQ" THEN "active" ELSE "closed"
    BY <1>4, <1>6, <1>11, <1>14
  <2>2. TokenPhase(y, h) = "granted"
    BY <1>5, <1>14
  <2>. DEFINE to == IF issued[y][h].kind = "SUB_REQ" THEN "active" ELSE "closed"
  <2>3. h \in DOMAIN Phases[y] /\ Service!Becomes(y, h, "granted", to)
    BY <1>1, <1>7, <1>8, <1>12, <2>1, <2>2, PhaseBecomes
  <2>. QED
    BY <1>10, <2>3 DEF Service!Confirm
<1>. QED
    BY <1>13, <1>14

\* Nodes that start, wait for their setup or send indications.
LEMMA AgQuiet ==
    ASSUME TypeOK, RoutingInv, OwnersInv, TokenState, TokenState', [Next]_vars, NEW k \in Nodes,
           AgStart(k) \/ AgResendSetup(k) \/ AgIndication(k)
             \/ (AgSetupResponse(k) /\ ~AgAbort(k))
    PROVE  UNCHANGED Service!vars
<1>1. UNCHANGED <<issued, xop, active, xst>>
    BY DEF AgStart, AgResendSetup, AgIndication, AgSetupResponse, xVars
<1>2. ASSUME NEW x \in XApps PROVE AnswersKept(x) /\ Same(x, {3})
  <2>1. CASE AgStart(k) \/ AgResendSetup(k)
    <3>1. Same(x, 0 .. 7)
      BY <2>1, MoveAgNothing
    <3>2. Same(x, {0, 1, 2}) /\ Same(x, {3})
      BY <3>1 DEF Same
    <3>. QED
      BY <3>2, AnswersSame
  <2>2. CASE AgIndication(k)
    <3>1. AgIndicates(x)
      BY <2>2, MoveAgIndication
    <3>2. Same(x, {3})
      BY <3>1 DEF AgIndicates, Same
    <3>. QED
      BY <3>1, <3>2, AnswersAgIndicates
  <2>3. CASE AgSetupResponse(k) /\ ~AgAbort(k)
    <3>1. AgReads(x, k)
      BY <2>3, MoveAgRead
    <3>2. Same(x, {0, 1, 2}) /\ Same(x, {3})
      BY <3>1 DEF AgReads, Same
    <3>. QED
      BY <3>2, AnswersSame
  <2>. QED
    BY <2>1, <2>2, <2>3
<1>. QED
    BY <1>1, <1>2, QuietStep

\* A node serves what one of its subscriptions names.
LEMMA ServesNames ==
    ASSUME NEW n, NEW x, NEW h
    PROVE  Serves(n, x, h) <=> \E q \in agSubs[n] : NamesAt(x, h, n, q.rid)
    BY DEF Serves, MsgAt

\* What the service makes of a change of the subscriptions of node k.
LEMMA ServingAt ==
    ASSUME TokenState, TokenState', NEW k \in Nodes, \A n \in Nodes \ {k} : ServesKept(n)
    PROVE  Serving' = [Serving EXCEPT ![k] = Serving'[k]]
<1>1. Serving' = [n \in Nodes |-> {p \in XApps \X (1 .. MaxReq) :
                                     xst'[p[1]] # "aborted" /\ Serves(n, p[1], p[2])'}]
    BY DEF TokenState
<1>2. Serving = [n \in Nodes |-> {p \in XApps \X (1 .. MaxReq) :
                                    xst[p[1]] # "aborted" /\ Serves(n, p[1], p[2])}]
    BY DEF TokenState
<1>3. ASSUME NEW n \in Nodes \ {k} PROVE Serving'[n] = Serving[n]
  <2>1. \A p \in XApps \X (1 .. MaxReq) : p[1] \in XApps /\ p[2] \in Nat
    BY ConstAssumption DEF ConstAssumption
  <2>2. \A p \in XApps \X (1 .. MaxReq) :
          xst'[p[1]] # "aborted" /\ Serves(n, p[1], p[2])'
            <=> xst[p[1]] # "aborted" /\ Serves(n, p[1], p[2])
    BY <2>1 DEF ServesKept
  <2>. QED
    BY <1>1, <1>2, <2>2
<1>4. Serving = [n \in Nodes |-> Serving[n]]
    BY <1>2, Zenon
<1>5. Serving' = [n \in Nodes |-> Serving'[n]]
    BY <1>1, Zenon
<1>. QED
    BY <1>3, <1>4, <1>5

\* A node that ends takes its subscriptions with it.
LEMMA AgEnds ==
    ASSUME TypeOK, RoutingInv, OwnersInv, TokenState, TokenState', [Next]_vars, NEW k \in Nodes,
           AgAbort(k) \/ AgStop(k)
    PROVE  Service!Lose(k)
<1>1. /\ agSubs' = [agSubs EXCEPT ![k] = {}]
      /\ UNCHANGED <<issued, xop, active, xst, reqId>>
    BY DEF AgAbort, AgStop, AgClose, xVars, shared
<1>s. ~IAppStartTimer
    BY <1>1 DEF IAppStartTimer, TypeOK, TypeShared
<1>t. agSubs \in [Nodes -> SUBSET [rid : ReqIds, rf : RanFuncs]]
    BY DEF TypeOK, TypeAgents
<1>2. ASSUME NEW x \in XApps PROVE PhaseKept(x)
  <2>1. AgLoses(x)
    BY MoveAgLose
  <2>2. Same(x, {0, 1, 2})
    BY <2>1 DEF AgLoses, Same
  <2>. QED
    BY <1>1, <2>2, AnswersSame, PhaseStays
<1>3. UNCHANGED Phases
    BY <1>1, <1>2, PhasesKept
<1>4. \A x \in XApps : \A h, n, rid : NamesAt(x, h, n, rid)' <=> NamesAt(x, h, n, rid)
    BY <1>s, NamesKept
<1>5. \A n \in Nodes, x \in XApps, h \in Nat :
        Serves(n, x, h)' <=> \E q \in agSubs'[n] : NamesAt(x, h, n, q.rid)'
    BY DEF Serves, MsgAt
<1>6. ASSUME NEW n \in Nodes \ {k} PROVE ServesKept(n)
  <2>1. agSubs'[n] = agSubs[n]
    BY <1>1, <1>t
  <2>. QED
    BY <1>1, <1>4, <1>5, <2>1, ServesNames DEF ServesKept
<1>7. Serving'[k] = {}
  <2>1. agSubs'[k] = {}
    BY <1>1, <1>t
  <2>2. \A p \in XApps \X (1 .. MaxReq) : p[1] \in XApps /\ p[2] \in Nat
    BY ConstAssumption DEF ConstAssumption
  <2>3. \A p \in XApps \X (1 .. MaxReq) : ~Serves(k, p[1], p[2])'
    BY <1>5, <2>1, <2>2
  <2>4. Serving'[k] = {p \in XApps \X (1 .. MaxReq) :
                         xst'[p[1]] # "aborted" /\ Serves(k, p[1], p[2])'}
    BY DEF TokenState
  <2>. QED
    BY <2>3, <2>4
<1>8. Serving' = [Serving EXCEPT ![k] = {}]
  <2>1. Serving' = [Serving EXCEPT ![k] = Serving'[k]]
    BY <1>6, ServingAt
  <2>. QED
    BY <1>7, <2>1
<1>. QED
    BY <1>1, <1>3, <1>8 DEF Service!Lose

\* The request that a node reads belongs to one xApp, which asked it of this node.
LEMMA AgToken ==
    ASSUME TypeOK, RoutingInv, OwnersInv, ~Clash, NEW k \in Nodes,
           agIn[k] # <<>>, Head(agIn[k]).type \in {"SUB_REQ", "DEL_REQ", "CTRL_REQ"}
    PROVE  \E x \in XApps, h \in Nat :
             /\ NamesAt(x, h, k, Head(agIn[k]).rid)
             /\ MsgAt(x, AnswerTo(Head(agIn[k]).type), h, 4, k, 1)
             /\ h \in DOMAIN issued[x] /\ issued[x][h].node = k
             /\ issued[x][h].kind = KindOf(Head(agIn[k]).type)
<1>. DEFINE m == Head(agIn[k])
<1>1. agIn[k] \in Seq(ToAgent)
    BY DEF TypeOK, TypeAgents
<1>2. m = agIn[k][1] /\ 1 \in DOMAIN agIn[k]
    BY <1>1, TailElements
<1>3. m \in Range(agIn[k]) /\ m.type # "SETUP_RESP"
    BY <1>2 DEF Range
<1>4. Traced(k, m.rid, m.rf, KindOf(m.type))
    BY <1>3 DEF RoutingInv, TracedInv
<1>5. PICK e \in Entries :
        /\ e.rid = m.rid /\ e.node = k
        /\ OwnedIn(xsad, issued, e.xid, e.h, KindOf(m.type), k, m.rf)
    BY <1>4 DEF Traced, TracedIn, Entries
<1>6. PICK r \in xsad : /\ r.xid = e.xid /\ e.h \in DOMAIN issued[r.x]
                        /\ issued[r.x][e.h] = [kind |-> KindOf(m.type), node |-> k, rf |-> m.rf]
    BY <1>5 DEF OwnedIn
<1>7. PICK x \in XApps : Registered(x) /\ xid[x] = e.xid
    BY EntriesKnown DEF Known
<1>8. r = [xid |-> xid[x], x |-> x]
    BY <1>6, <1>7 DEF RoutingInv, XAppIdsInv, Registered
<1>9. r.x = x
    BY <1>8
<1>10. issued[x] \in Seq(Requests)
    BY DEF TypeOK, TypeXApps
<1>11. e.h \in DOMAIN issued[x] /\ e.h \in Nat
    BY <1>6, <1>9, <1>10
<1>12. NamesAt(x, e.h, k, m.rid)
    BY <1>5, <1>7 DEF NamesAt, Entries
<1>13. MsgAt(x, AnswerTo(m.type), e.h, 4, k, 1)
    BY <1>2, <1>3, <1>12 DEF MsgAt
<1>14. issued[x][e.h].node = k /\ issued[x][e.h].kind = KindOf(m.type)
    BY <1>6, <1>9
<1>. QED
    BY <1>11, <1>12, <1>13, <1>14

\* The phases after node k has answered request h of x.
LEMMA AgPhases ==
    ASSUME TypeOK, RoutingInv, OwnersInv, WaitsInv, OneTokenInv, [Next]_vars, NEW k \in Nodes,
           AgSubscription(k) \/ AgDelete(k) \/ AgControl(k), ~AgAbort(k),
           NEW x \in XApps, NEW h \in Nat, NEW t, t = AnswerTo(Head(agIn[k]).type),
           NamesAt(x, h, k, Head(agIn[k]).rid), MsgAt(x, t, h, 4, k, 1)
    PROVE  /\ \A z \in XApps \ {x} : PhaseKept(z)
           /\ xst[x] = "aborted" => PhaseKept(x)
           /\ xst[x] # "aborted" =>
                /\ TokenPhase(x, h) = IF t = "DEL_RESP" THEN "leaving" ELSE "asked"
                /\ TokenPhase(x, h)' = IF t = "DEL_RESP" THEN "released" ELSE "granted"
                /\ \A g \in DOMAIN issued[x] \ {h} : TokenPhase(x, g)' = TokenPhase(x, g)
<1>u. UNCHANGED <<xst, xop, active, issued>>
    BY DEF AgSubscription, AgDelete, AgControl, xVars
<1>a. Head(agIn[k]).type \in {"SUB_REQ", "DEL_REQ", "CTRL_REQ"}
    BY DEF AgSubscription, AgDelete, AgControl, AgReceives
<1>b. t \in AnswerTypes /\ t \in E2Answers
    BY <1>a DEF AnswerTo, AnswerTypes, E2Answers
<1>m. \A z \in XApps : AgAnswers(z, k)
    BY MoveAgAnswer
<1>1. ASSUME NEW z \in XApps, z # x PROVE AnswersKept(z)
  <2>1. ASSUME NEW t2 \in AnswerTypes, NEW g \in Nat PROVE ~MsgAt(z, t2, g, 4, k, 1)
    <3>1. ASSUME MsgAt(z, t2, g, 4, k, 1) PROVE NamesAt(z, g, k, agIn[k][1].rid)
      BY <3>1 DEF MsgAt
    <3>2. NamesAt(x, h, k, agIn[k][1].rid)
      BY DEF MsgAt
    <3>. QED
      BY <1>1, <3>1, <3>2, NamesUnique
  <2>2. AnswerTypes \subseteq E2Answers /\ 0 .. 2 = {0, 1, 2}
    BY DEF AnswerTypes
  <2>3. \A t2 \in AnswerTypes, g \in Nat, n \in Nodes, i \in Nat :
          /\ MsgAt(z, t2, g, 0, n, i)' <=> MsgAt(z, t2, g, 0, n, i)
          /\ MsgAt(z, t2, g, 1, n, i)' <=> MsgAt(z, t2, g, 1, n, i)
    BY <1>m, <2>2 DEF AgAnswers, Same
  <2>4. \A t2 \in AnswerTypes, g \in Nat, n \in Nodes, i \in Nat :
          MsgAt(z, t2, g, 2, n, i)' <=> MsgAt(z, t2, g, 2, n, i)
    BY <1>m, <2>1, <2>2 DEF AgAnswers
  <2>. QED
    BY <2>2, <2>3, <2>4 DEF AnswersKept, Answered
<1>2. \A z \in XApps \ {x} : PhaseKept(z)
    BY <1>1, <1>u, PhaseStays
<1>3. xst[x] = "aborted" => PhaseKept(x)
    BY <1>u, PhaseStays
<1>4. ASSUME xst[x] # "aborted"
      PROVE  /\ TokenPhase(x, h) = IF t = "DEL_RESP" THEN "leaving" ELSE "asked"
             /\ TokenPhase(x, h)' = IF t = "DEL_RESP" THEN "released" ELSE "granted"
             /\ \A g \in DOMAIN issued[x] \ {h} : TokenPhase(x, g)' = TokenPhase(x, g)
  <2>1. 4 \in 0 .. 7 /\ 1 \in Nat
    OBVIOUS
  <2>2. xop[x] = [ans |-> t, h |-> h] /\ xop[x] # NoOp /\ h \in active[x]
    BY <1>b, <2>1, TokenOwner
  <2>3. ~Answered(x, t, h)
    <3>1. ASSUME Answered(x, t, h) PROVE FALSE
      <4>1. PICK s \in 0 .. 2, n \in Nodes, i \in Nat : MsgAt(x, t, h, s, n, i)
        BY <3>1 DEF Answered
      <4>2. s \in 0 .. 7 /\ s # 4
        OBVIOUS
      <4>3. Unique(x)
        BY DEF OneTokenInv
      <4>. QED
        BY <1>b, <2>1, <4>1, <4>2, <4>3, OnlyToken
    <3>. QED
      BY <3>1
  <2>4. Answered(x, t, h)'
    <3>1. AgAnswers(x, k)
      BY <1>m
    <3>2. PICK j \in Nat : j = Len(ricIn) + 1
      BY <3>1 DEF AgAnswers
    <3>3. MsgAt(x, t, h, 2, k, j)'
      BY <1>b, <3>1, <3>2 DEF AgAnswers
    <3>4. 2 \in 0 .. 2
      OBVIOUS
    <3>. QED
      BY <3>3, <3>4 DEF Answered
  <2>5. xop[x].ans = t /\ xop[x].h = h /\ xop'[x] = xop[x]
    BY <1>u, <2>2
  <2>6. ~Answered(x, xop[x].ans, h) /\ Answered(x, xop[x].ans, h)'
    BY <2>3, <2>4, <2>5 DEF Answered
  <2>. QED
    BY <1>4, <1>u, <2>2, <2>5, <2>6 DEF TokenPhase
<1>. QED
    BY <1>2, <1>3, <1>4


\* The subscriptions of the nodes after node k has answered request h of x.
LEMMA AgServes ==
    ASSUME TypeOK, RoutingInv, OwnersInv, [Next]_vars, NEW k \in Nodes,
           AgSubscription(k) \/ AgDelete(k) \/ AgControl(k), ~AgAbort(k),
           NEW x \in XApps, NEW h \in Nat, NamesAt(x, h, k, Head(agIn[k]).rid)
    PROVE  /\ \A n \in Nodes \ {k} : ServesKept(n)
           /\ AgSubscription(k) => \A z \in XApps, g \in Nat :
                Serves(k, z, g)' <=> Serves(k, z, g) \/ (z = x /\ g = h)
           /\ AgDelete(k) => /\ Serves(k, x, h)
                             /\ \A z \in XApps, g \in Nat :
                                  Serves(k, z, g)' <=> Serves(k, z, g) /\ ~(z = x /\ g = h)
           /\ AgControl(k) => ServesKept(k)
<1>. DEFINE m == Head(agIn[k])
            q0 == [rid |-> m.rid, rf |-> m.rf]
<1>t. agSubs \in [Nodes -> SUBSET [rid : ReqIds, rf : RanFuncs]] /\ agIn[k] \in Seq(ToAgent)
    BY DEF TypeOK, TypeAgents
<1>u. UNCHANGED <<xst, reqId>>
    BY DEF AgSubscription, AgDelete, AgControl, xVars, shared
<1>s. ~IAppStartTimer
    BY <1>u DEF IAppStartTimer, TypeOK, TypeShared
<1>k. \A z \in XApps : \A g, n, rid : NamesAt(z, g, n, rid)' <=> NamesAt(z, g, n, rid)
    BY <1>s, NamesKept
<1>e. \A n \in Nodes, z \in XApps, g \in Nat :
        /\ Serves(n, z, g)' <=> \E q \in agSubs'[n] : NamesAt(z, g, n, q.rid)
        /\ Serves(n, z, g) <=> \E q \in agSubs[n] : NamesAt(z, g, n, q.rid)
    BY <1>k DEF Serves, MsgAt
<1>n. \A z \in XApps, g \in Nat : NamesAt(z, g, k, m.rid) <=> z = x /\ g = h
    BY NamesUnique
<1>x. ASSUME NEW n \in Nodes, agSubs'[n] = agSubs[n] PROVE ServesKept(n)
    BY <1>u, <1>e, <1>x DEF ServesKept
<1>1. \A n \in Nodes \ {k} : agSubs'[n] = agSubs[n]
    BY <1>t DEF AgSubscription, AgDelete, AgControl
<1>2. ASSUME AgSubscription(k), NEW z \in XApps, NEW g \in Nat
      PROVE  Serves(k, z, g)' <=> Serves(k, z, g) \/ (z = x /\ g = h)
  <2>1. agSubs'[k] = agSubs[k] \cup {q0}
    BY <1>2, <1>t DEF AgSubscription
  <2>2. q0.rid = m.rid
    OBVIOUS
  <2>. HIDE DEF m, q0
  <2>. QED
    BY <1>e, <1>n, <2>1, <2>2
<1>3. ASSUME AgDelete(k)
      PROVE  /\ Serves(k, x, h)
             /\ \A z \in XApps, g \in Nat :
                  Serves(k, z, g)' <=> Serves(k, z, g) /\ ~(z = x /\ g = h)
  <2>1. q0 \in agSubs[k] /\ agSubs'[k] = agSubs[k] \ {q0}
    BY <1>3, <1>t DEF AgDelete
  <2>2. q0.rid = m.rid /\ q0.rf = m.rf
    OBVIOUS
  <2>3. \A q \in agSubs[k] : q = [rid |-> q.rid, rf |-> q.rf]
    BY <1>t
  <2>4. ASSUME NEW q \in agSubs[k], q.rid = m.rid PROVE q = q0
    <3>1. Traced(k, q.rid, q.rf, "SUB_REQ") /\ Traced(k, q0.rid, q0.rf, "SUB_REQ")
      BY <2>1 DEF RoutingInv, TracedInv
    <3>2. Traced(k, m.rid, q.rf, "SUB_REQ") /\ Traced(k, m.rid, m.rf, "SUB_REQ")
      BY <2>2, <2>4, <3>1
    <3>3. q.rf = m.rf
      BY <3>2, NamesOneFunction
    <3>. QED
      BY <2>3, <2>4, <3>3
  <2>5. ASSUME NEW q \in agSubs[k], NamesAt(x, h, k, q.rid) PROVE q = q0
    <3>1. q.rid = m.rid
      BY <2>5, NamesUnique
    <3>. QED
      BY <2>4, <3>1
  <2>. HIDE DEF m, q0
  <2>. QED
    BY <1>e, <1>n, <2>1, <2>2, <2>5
<1>4. AgControl(k) => agSubs'[k] = agSubs[k]
    BY DEF AgControl
<1>. QED
    BY <1>x, <1>1, <1>2, <1>3, <1>4

\* A node that answers a request has served it, unless its xApp has ended.
LEMMA AgAnswered ==
    ASSUME TypeOK, RoutingInv, OwnersInv, WaitsInv, OneTokenInv, HeldInv, ~Clash,
           TokenState, TokenState', [Next]_vars, NEW k \in Nodes,
           AgSubscription(k) \/ AgDelete(k) \/ AgControl(k), ~AgAbort(k)
    PROVE  \/ UNCHANGED Service!vars
           \/ \E x \in XApps : \E h \in DOMAIN Phases[x] :
                Service!Grant(x, h) \/ Service!Release(x, h)
<1>u. UNCHANGED <<xst, issued>>
    BY DEF AgSubscription, AgDelete, AgControl, xVars
<1>a. agIn[k] # <<>> /\ Head(agIn[k]).type \in {"SUB_REQ", "DEL_REQ", "CTRL_REQ"}
    BY DEF AgSubscription, AgDelete, AgControl, AgReceives
<1>t. PICK t : t = AnswerTo(Head(agIn[k]).type)
    OBVIOUS
<1>0. PICK x \in XApps, h \in Nat :
        /\ NamesAt(x, h, k, Head(agIn[k]).rid) /\ MsgAt(x, t, h, 4, k, 1)
        /\ h \in DOMAIN issued[x] /\ issued[x][h].node = k
        /\ issued[x][h].kind = KindOf(Head(agIn[k]).type)
    BY <1>a, <1>t, AgToken
<1>1. /\ \A z \in XApps \ {x} : PhaseKept(z)
      /\ xst[x] = "aborted" => PhaseKept(x)
      /\ xst[x] # "aborted" =>
           /\ TokenPhase(x, h) = IF t = "DEL_RESP" THEN "leaving" ELSE "asked"
           /\ TokenPhase(x, h)' = IF t = "DEL_RESP" THEN "released" ELSE "granted"
           /\ \A g \in DOMAIN issued[x] \ {h} : TokenPhase(x, g)' = TokenPhase(x, g)
    BY <1>0, <1>t, AgPhases
<1>2. /\ \A n \in Nodes \ {k} : ServesKept(n)
      /\ AgSubscription(k) => \A z \in XApps, g \in Nat :
           Serves(k, z, g)' <=> Serves(k, z, g) \/ (z = x /\ g = h)
      /\ AgDelete(k) => /\ Serves(k, x, h)
                        /\ \A z \in XApps, g \in Nat :
                             Serves(k, z, g)' <=> Serves(k, z, g) /\ ~(z = x /\ g = h)
      /\ AgControl(k) => ServesKept(k)
    BY <1>0, AgServes
<1>3. CASE xst[x] = "aborted"
  <2>1. UNCHANGED Phases
    BY <1>u, <1>1, <1>3, PhasesKept
  <2>2. ServesKept(k)
    BY <1>u, <1>2, <1>3 DEF ServesKept
  <2>3. UNCHANGED Serving
    BY <1>2, <2>2, ServingKept
  <2>. QED
    BY <1>u, <2>1, <2>3 DEF Service!vars
<1>4. CASE xst[x] # "aborted"
  <2>p. h \in DOMAIN Phases[x] /\ Service!Becomes(x, h, IF t = "DEL_RESP" THEN "leaving" ELSE "asked",
                                                  IF t = "DEL_RESP" THEN "released" ELSE "granted")
    <3>. DEFINE from == IF t = "DEL_RESP" THEN "leaving" ELSE "asked"
                to == IF t = "DEL_RESP" THEN "released" ELSE "granted"
    <3>1. TokenPhase(x, h) = from /\ TokenPhase(x, h)' = to
      BY <1>1, <1>4
    <3>. HIDE DEF from, to
    <3>2. h \in DOMAIN Phases[x] /\ Service!Becomes(x, h, from, to)
      BY <1>u, <1>0, <1>1, <1>4, <3>1, PhaseBecomes
    <3>. QED
      BY <3>2 DEF from, to
  <2>s. Serving' = [Serving EXCEPT ![k] = Serving'[k]]
    BY <1>2, ServingAt
  <2>h. <<x, h>> \in XApps \X (1 .. MaxReq)
    <3>1. issued[x] \in Seq(Requests) /\ Len(issued[x]) <= MaxReq
      BY DEF TypeOK, TypeXApps, HeldInv
    <3>2. h \in 1 .. Len(issued[x])
      BY <1>0, <3>1
    <3>3. MaxReq \in Nat
      BY ConstAssumption DEF ConstAssumption
    <3>. QED
      BY <3>1, <3>2, <3>3
  <2>c. \A p \in XApps \X (1 .. MaxReq) :
          p[1] \in XApps /\ p[2] \in Nat /\ (p = <<x, h>> <=> p[1] = x /\ p[2] = h)
    BY ConstAssumption DEF ConstAssumption
  <2>w. /\ Serving[k] = {p \in XApps \X (1 .. MaxReq) :
                           xst[p[1]] # "aborted" /\ Serves(k, p[1], p[2])}
        /\ Serving'[k] = {p \in XApps \X (1 .. MaxReq) :
                            xst[p[1]] # "aborted" /\ Serves(k, p[1], p[2])'}
    BY <1>u DEF TokenState
  <2>1. CASE AgSubscription(k)
    <3>1. t = "SUB_RESP" /\ issued[x][h].kind = "SUB_REQ"
      BY <1>0, <1>t, <2>1 DEF AgSubscription, AgReceives, AnswerTo, KindOf
    <3>2. \A p \in XApps \X (1 .. MaxReq) :
            Serves(k, p[1], p[2])' <=> Serves(k, p[1], p[2]) \/ p = <<x, h>>
      BY <1>2, <2>1, <2>c
    <3>3. Serving'[k] = Serving[k] \cup {<<x, h>>}
      BY <1>4, <2>w, <2>h, <2>c, <3>2
    <3>4. Serving' = [Serving EXCEPT ![k] = @ \cup {<<x, h>>}]
      BY <2>s, <3>3
    <3>5. Service!Becomes(x, h, "asked", "granted")
      BY <2>p, <3>1
    <3>6. Service!Grant(x, h)
      BY <1>0, <3>1, <3>4, <3>5 DEF Service!Grant
    <3>. QED
      BY <2>p, <3>6
  <2>2. CASE AgDelete(k)
    <3>1. t = "DEL_RESP"
      BY <1>t, <2>2 DEF AgDelete, AgReceives, AnswerTo
    <3>2. \A p \in XApps \X (1 .. MaxReq) :
            Serves(k, p[1], p[2])' <=> Serves(k, p[1], p[2]) /\ p # <<x, h>>
      BY <1>2, <2>2, <2>c
    <3>3. Serving'[k] = Serving[k] \ {<<x, h>>}
      BY <2>w, <2>c, <3>2
    <3>4. Serving' = [Serving EXCEPT ![k] = @ \ {<<x, h>>}]
      BY <2>s, <3>3
    <3>5. Service!Becomes(x, h, "leaving", "released")
      BY <2>p, <3>1
    <3>6. <<x, h>> \in Serving[k]
      BY <1>2, <1>4, <2>2, <2>w, <2>h
    <3>7. Service!Release(x, h)
      BY <1>0, <3>4, <3>5, <3>6 DEF Service!Release
    <3>. QED
      BY <2>p, <3>7
  <2>3. CASE AgControl(k)
    <3>1. t = "CTRL_ACK" /\ issued[x][h].kind = "CTRL_REQ"
      BY <1>0, <1>t, <2>3 DEF AgControl, AgReceives, AnswerTo, KindOf
    <3>2. UNCHANGED Serving
      BY <1>2, <2>3, ServingKept
    <3>3. Service!Becomes(x, h, "asked", "granted")
      BY <2>p, <3>1
    <3>4. Service!Grant(x, h)
      BY <3>1, <3>2, <3>3 DEF Service!Grant
    <3>. QED
      BY <2>p, <3>4
  <2>. QED
    BY <2>1, <2>2, <2>3
<1>. QED
    BY <1>3, <1>4

\* Every step of the system is a step of the service or leaves it alone.
LEMMA ServiceStep ==
    ASSUME TypeOK, RoutingInv, ArrivalsInv, HeldInv, ~Clash, ~Clash', TokenState, TokenState',
           [Next]_vars
    PROVE  Service!Next \/ UNCHANGED Service!vars
<1>i. OwnersInv /\ WaitsInv /\ OneTokenInv
    BY DEF ArrivalsInv
<1>1. CASE RicThread \/ RicTimeout \/ IAppThread \/ UNCHANGED vars
    BY <1>i, <1>1, RicServes
<1>2. ASSUME NEW k \in Nodes, AgStart(k) \/ AgResendSetup(k) \/ AgentLoop(k)
                                \/ AgIndication(k) \/ AgStop(k)
      PROVE  Service!Next \/ UNCHANGED Service!vars
  <2>1. CASE AgAbort(k) \/ AgStop(k)
    <3>1. Service!Lose(k)
      BY <1>i, <2>1, AgEnds
    <3>. QED
      BY <3>1 DEF Service!Next
  <2>2. CASE AgStart(k) \/ AgResendSetup(k) \/ AgIndication(k) \/ (AgSetupResponse(k) /\ ~AgAbort(k))
    BY <1>i, <2>2, AgQuiet
  <2>3. CASE (AgSubscription(k) \/ AgDelete(k) \/ AgControl(k)) /\ ~AgAbort(k)
    <3>1. \/ UNCHANGED Service!vars
          \/ \E x \in XApps : \E h \in DOMAIN Phases[x] :
               Service!Grant(x, h) \/ Service!Release(x, h)
      BY <1>i, <2>3, AgAnswered
    <3>. QED
      BY <3>1 DEF Service!Next
  <2>. QED
    BY <1>2, <2>1, <2>2, <2>3 DEF AgentLoop
<1>3. ASSUME NEW y \in XApps, XAppStart(y) \/ XAppResendSetup(y) \/ XAppUnsubscribe(y) \/ XAppLoop(y)
      PROVE  Service!Next \/ UNCHANGED Service!vars
  <2>1. CASE XAppAbort(y)
    <3>1. Service!Quit(y)
      BY <1>i, <2>1, XAppQuits
    <3>. QED
      BY <3>1 DEF Service!Next
  <2>2. CASE XAppStart(y) \/ XAppResendSetup(y) \/ XAppIndication(y)
               \/ (XAppSetupResponse(y) /\ ~XAppAbort(y))
    BY <1>i, <2>2, XAppQuiet
  <2>3. CASE XAppUnsubscribe(y)
    <3>1. \E h \in DOMAIN Phases[y] : Service!Remove(y, h)
      BY <1>i, <2>3, XAppRemoves
    <3>. QED
      BY <3>1 DEF Service!Next
  <2>4. CASE XAppAnswer(y)
    <3>1. \E h \in DOMAIN Phases[y] : Service!Confirm(y, h) \/ Service!Close(y, h)
      BY <1>i, <2>4, XAppLearns
    <3>. QED
      BY <3>1 DEF Service!Next
  <2>. QED
    BY <1>3, <2>1, <2>2, <2>3, <2>4 DEF XAppLoop, XAppTimeout
<1>4. ASSUME NEW y \in XApps, NEW c \in {"SUB_REQ", "CTRL_REQ"}, NEW k \in Nodes, NEW f \in RanFuncs,
             XAppRequest(y, c, k, f)
      PROVE  Service!Next \/ UNCHANGED Service!vars
  <2>1. \E req \in Requests : Service!Ask(y, req)
    BY <1>i, <1>4, XAppAsksFor
  <2>. QED
    BY <2>1 DEF Service!Next
<1>. QED
    BY <1>1, <1>2, <1>3, <1>4 DEF Next

\* Nobody has asked and nothing is served at first.
LEMMA ServiceInit == Init => Service!Init
<1>. SUFFICES ASSUME Init PROVE Service!Init
    OBVIOUS
<1>1. issued = [x \in XApps |-> <<>>] /\ agSubs = [n \in Nodes |-> {}]
    BY DEF Init
<1>2. \A x \in XApps : [h \in DOMAIN issued[x] |-> PhaseOf(x, h)] = <<>>
  <2>1. \A x \in XApps : DOMAIN issued[x] = {}
    BY <1>1
  <2>. QED
    BY <2>1
<1>3. Phases = [x \in XApps |-> <<>>]
    BY <1>2 DEF Phases
<1>4. Serving = [n \in Nodes |-> {}]
    BY <1>1 DEF Serving
<1>. QED
    BY <1>1, <1>3, <1>4 DEF Service!Init

\* As long as no request id is given out while the map still holds it, the
\* near-RT RIC, the iApp, the nodes and the xApps together implement the
\* service: each request of an xApp is served by one step of the node it names,
\* its answer is taken once and for that request only, and a subscription is
\* alive at the node exactly from the step that grants it to the step that
\* releases it, or until the node or the xApp ends.
THEOREM ServiceImplemented == Spec /\ []~Clash => ImplementsService
<1>1. TypeOK /\ RoutingInv /\ ArrivalsInv /\ HeldInv /\ ~Clash => TokenState
    BY TokensTell, ServiceState
<1>2. ASSUME TypeOK, RoutingInv, ArrivalsInv, HeldInv, ~Clash, ~Clash', TokenState, TokenState',
             [Next]_vars
      PROVE  [Service!Next]_(Service!vars)
    BY <1>2, ServiceStep
<1>3. TypeOK /\ RoutingInv /\ ArrivalsInv /\ HeldInv /\ ~Clash /\ (~Clash)' /\ TokenState /\ TokenState'
        /\ [Next]_vars => [Service!Next]_(Service!vars)
    BY <1>2
<1>. QED
    BY <1>1, <1>3, ServiceInit, TypeCorrect, RoutingInvariant, ArrivalsInvariant, HeldInvariant, PTL
    DEF Spec, ImplementsService, Service!Spec

\* In particular the service is kept until the 16-bit request id has been
\* through all its values, whatever the ids are used for.
THEOREM ServiceImplementedUntilWrap == Spec /\ [](reqId <= UINT16) => ImplementsService
<1>1. TypeOK /\ FreshIdInv /\ reqId <= UINT16 => ~Clash
  <2>. SUFFICES ASSUME TypeOK, FreshIdInv, reqId <= UINT16, NEW e \in mapRicId, NEW d \in InFlight,
                       e.rid = d.rid
                PROVE  FALSE
    BY DEF Clash
  <2>1. e.rid < d.rid
    BY DEF FreshIdInv
  <2>2. e.rid \in Int
    BY ConstAssumption DEF TypeOK, TypeShared, MapEntries, ReqIds, ConstAssumption
  <2>. QED
    BY <2>1, <2>2
<1>2. NodeInv => FreshIdInv
    BY DEF NodeInv
<1>. QED
    BY <1>1, <1>2, TypeCorrect, NodeInvariant, ServiceImplemented, PTL
=============================================================================

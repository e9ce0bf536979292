----------------------- MODULE E2RoutingTimerProofs ------------------------
(* Proof that the timers of the RIC and the requests of the xApps correspond. *)
EXTENDS E2RoutingRequestProofs, FiniteSetTheorems

-----------------------------------------------------------------------------
(* The inductive invariant *)

RequestTypes == {"SUB_REQ", "DEL_REQ", "CTRL_REQ"}

\* A timer of x is pending.
TimerOf(x, p) == p \in pending /\ \E h \in Nat, n \in Nodes : NamesAt(x, h, n, p.rid)

\* A timer belongs to an open operation, which has no other.
OwnTimersInv ==
    ~Clash =>
    /\ \A p \in pending : \E x \in XApps, h \in Nat, n \in Nodes :
         NamesAt(x, h, n, p.rid) /\ xop[x] = [ans |-> AnswerTo(p.ev), h |-> h]
    /\ \A x \in XApps, p, q \in pending : TimerOf(x, p) /\ TimerOf(x, q) => p = q

\* Before its timer is armed and after it is stopped a request has none.
UntimedInv ==
    \A x \in XApps, t \in AnswerTypes, h \in Nat, s \in {0, 1, 6, 7}, n \in Nodes, i \in Nat :
        MsgAt(x, t, h, s, n, i) => \A p \in pending : ~TimerOf(x, p)

\* Timers of new requests were created under smaller values of the counter.
AgesInv == \A p \in pending : p.ev # "DEL_REQ" => p.fd < reqId

\* The requests of type ev with id rid and RAN function f between the arming
\* of their timer and stop_pending_event, by stage, node and position.
Open(ev, rid, f) ==
    {l \in {2, 4, 5} \X Nodes \X Nat :
        \/ /\ l[1] = 2 /\ l[3] \in DOMAIN ricIn
           /\ ricIn[l[3]] = [type |-> AnswerTo(ev), node |-> l[2], rid |-> rid, rf |-> f]
        \/ /\ l[1] = 4 /\ l[3] \in DOMAIN agIn[l[2]]
           /\ agIn[l[2]][l[3]] = [type |-> ev, rid |-> rid, rf |-> f]
        \/ /\ l[1] = 5 /\ l[3] = 0 /\ ipc = "send" /\ imsg.node = l[2]
           /\ imsg.type = ev /\ irid = rid /\ imsg.rf = f}

\* The timers that stop_pending_event takes for theirs.
Armed(ev, rid, f) == {p \in pending : p.ev = ev /\ p.rid = rid /\ p.rf = f}

Paired(S, P) ==
    /\ S # {} => P # {}
    /\ \A a, b \in S : a # b => \E p, q \in P : p # q
    /\ \A a, b, c \in S : a = b \/ a = c \/ b = c

\* Each of these requests has a timer, and two that share an id have two; more
\* than two never do.
ArmedInv ==
    \A ev \in RequestTypes, rid \in ReqIds, f \in RanFuncs :
        Paired(Open(ev, rid, f), Armed(ev, rid, f))

\* The answer is in the socket of the xApp or about to be written to it.
Delivered(x) ==
    \E t \in AnswerTypes, h \in Nat, n \in Nodes, i \in Nat :
        MsgAt(x, t, h, 0, n, i) \/ (rpc = "notify" /\ MsgAt(x, t, h, 1, n, i))

\* The xApps in a call, those that ended in it included.
InCall == {x \in XApps : xop[x] # NoOp}
Unanswered == {x \in InCall : ~Delivered(x)}

\* Timers and the answer whose timer was stopped last.
Load == Cardinality(pending)
          + (IF rpc = "lookup" /\ rmsg.type \in AnswerTypes THEN 1 ELSE 0)

\* There are no more timers than operations to answer.
FewTimersInv ==
    /\ IsFiniteSet(pending) /\ IsFiniteSet(InCall)
    /\ Load <= Cardinality(Unanswered)
    /\ ricAbort = "pending size is 1" => \E x, y \in Unanswered : x # y

TimersInv ==
    /\ OwnTimersInv /\ UntimedInv /\ AgesInv /\ ArmedInv /\ FewTimersInv
    /\ ricAbort \notin {"key not in the tree", "Not found xApp RIC ID"}

-----------------------------------------------------------------------------
(* Open requests and their timers *)

Places == {2, 4, 5} \X Nodes \X Nat

\* Requests that moved, or were lost, keep the timers they had.
LEMMA PairedMoved ==
    ASSUME NEW S, NEW P, NEW T, NEW Q, Paired(S, P), P \subseteq Q, NEW g,
           \A a \in T : g[a] \in S,
           \A a, b \in T : g[a] = g[b] => a = b
    PROVE  Paired(T, Q)
<1>1. T # {} => Q # {}
    BY DEF Paired
<1>2. ASSUME NEW a \in T, NEW b \in T, a # b PROVE \E p, q \in Q : p # q
  <2>1. g[a] # g[b] /\ g[a] \in S /\ g[b] \in S
    BY <1>2
  <2>2. PICK p \in P, q \in P : p # q
    BY <2>1 DEF Paired
  <2>. QED
    BY <2>2
<1>3. ASSUME NEW a \in T, NEW b \in T, NEW c \in T PROVE a = b \/ a = c \/ b = c
  <2>1. g[a] \in S /\ g[b] \in S /\ g[c] \in S
    OBVIOUS
  <2>2. g[a] = g[b] \/ g[a] = g[c] \/ g[b] = g[c]
    BY <2>1 DEF Paired
  <2>. QED
    BY <2>2
<1>. QED
    BY <1>1, <1>2, <1>3 DEF Paired

\* Fewer requests and more timers are paired too.
LEMMA PairedLess ==
    ASSUME NEW S, NEW P, NEW T, NEW Q, Paired(S, P), P \subseteq Q, T \subseteq S
    PROVE  Paired(T, Q)
BY DEF Paired

\* An open request ends with one of its timers.
LEMMA PairedEnd ==
    ASSUME NEW S, NEW P, Paired(S, P), NEW a \in S, NEW p \in P
    PROVE  Paired(S \ {a}, P \ {p})
<1>1. ASSUME NEW b \in S \ {a} PROVE P \ {p} # {}
  <2>1. PICK q \in P, r \in P : q # r
    BY <1>1 DEF Paired
  <2>. QED
    BY <2>1
<1>2. \A b, c \in S \ {a} : b = c
    BY DEF Paired
<1>. QED
    BY <1>1, <1>2 DEF Paired

\* A request is added with a timer of its own to at most one.
LEMMA PairedStart ==
    ASSUME NEW S, NEW P, Paired(S, P), \A a, b \in S : a = b, NEW c, NEW p, p \notin P
    PROVE  Paired(S \cup {c}, P \cup {p})
<1>1. ASSUME NEW a \in S \cup {c}, NEW b \in S \cup {c}, a # b
      PROVE  \E q, r \in P \cup {p} : q # r
  <2>1. S # {}
    BY <1>1
  <2>2. PICK q : q \in P
    BY <2>1 DEF Paired
  <2>. QED
    BY <2>2
<1>. QED
    BY <1>1 DEF Paired

\* Where an open request can be.
LEMMA OpenIsPlace ==
    ASSUME NEW ev, NEW rid, NEW f
    PROVE  /\ \A a \in Open(ev, rid, f) : \E n \in Nodes, i \in Nat :
                a \in {<<2, n, i>>, <<4, n, i>>, <<5, n, i>>}
           /\ \A a \in Open(ev, rid, f)' : \E n \in Nodes, i \in Nat :
                a \in {<<2, n, i>>, <<4, n, i>>, <<5, n, i>>}
BY DEF Open

\* Nothing opens: messages that are no part of an open request arrive, queues
\* are lost, and the iApp thread sends nothing.
LEMMA NothingOpens ==
    ASSUME TypeOK, NEW ev \in RequestTypes, NEW rid, NEW f,
           \/ ricIn' = ricIn
           \/ \E m \in ToRic : m.type \notin AnswerTypes /\ ricIn' = Append(ricIn, m),
           \A n \in Nodes : \/ agIn'[n] = agIn[n] \/ agIn'[n] = <<>>
                            \/ agIn'[n] = Append(agIn[n], [type |-> "SETUP_RESP"]),
           ipc' # "send" \/ UNCHANGED iappVars
    PROVE  Open(ev, rid, f)' \subseteq Open(ev, rid, f)
<1>1. ASSUME NEW n \in Nodes, NEW i \in Nat, <<2, n, i>> \in Open(ev, rid, f)'
      PROVE  <<2, n, i>> \in Open(ev, rid, f)
  <2>1. AnswerTo(ev) \in AnswerTypes
    BY DEF AnswerTo, AnswerTypes, E2Answers, RequestTypes
  <2>2. i \in DOMAIN ricIn' /\ ricIn'[i] = [type |-> AnswerTo(ev), node |-> n, rid |-> rid, rf |-> f]
    BY <1>1 DEF Open
  <2>3. ricIn \in Seq(ToRic)
    BY DEF TypeOK, TypeSockets
  <2>4. i \in DOMAIN ricIn /\ ricIn'[i] = ricIn[i]
    <3>1. CASE ricIn' = ricIn
      BY <2>2, <3>1
    <3>2. ASSUME NEW m \in ToRic, m.type \notin AnswerTypes, ricIn' = Append(ricIn, m)
          PROVE  i \in DOMAIN ricIn /\ ricIn'[i] = ricIn[i]
      BY <2>1, <2>2, <2>3, <3>2
    <3>. QED
      BY <3>1, <3>2
  <2>. QED
    BY <2>2, <2>4 DEF Open
<1>2. ASSUME NEW n \in Nodes, NEW i \in Nat, <<4, n, i>> \in Open(ev, rid, f)'
      PROVE  <<4, n, i>> \in Open(ev, rid, f)
  <2>1. ev # "SETUP_RESP"
    BY DEF RequestTypes
  <2>2. i \in DOMAIN agIn'[n] /\ agIn'[n][i] = [type |-> ev, rid |-> rid, rf |-> f]
    BY <1>2 DEF Open
  <2>3. agIn[n] \in Seq(ToAgent)
    BY DEF TypeOK, TypeAgents
  <2>4. i \in DOMAIN agIn[n] /\ agIn'[n][i] = agIn[n][i]
    <3>1. CASE agIn'[n] = agIn[n]
      BY <2>2, <3>1
    <3>2. CASE agIn'[n] = <<>>
      BY <2>2, <3>2
    <3>3. CASE agIn'[n] = Append(agIn[n], [type |-> "SETUP_RESP"])
      <4>1. agIn'[n][i].type = ev
        BY <2>2
      <4>. QED
        BY <2>1, <2>2, <2>3, <3>3, <4>1
    <3>. QED
      BY <3>1, <3>2, <3>3
  <2>. QED
    BY <2>2, <2>4 DEF Open
<1>3. ASSUME NEW n \in Nodes, NEW i \in Nat, <<5, n, i>> \in Open(ev, rid, f)'
      PROVE  <<5, n, i>> \in Open(ev, rid, f)
    BY <1>3 DEF Open, iappVars
<1>. QED
    BY <1>1, <1>2, <1>3, OpenIsPlace

\* g takes the open requests after the step to what they were before.
Moved(ev, rid, f, g) ==
    /\ \A a \in Open(ev, rid, f)' : g[a] \in Open(ev, rid, f)
    /\ \A a, b \in Open(ev, rid, f)' : g[a] = g[b] => a = b

\* None of them was at the head of the RIC thread's queue.
Behind(ev, rid, f, g) == \A a \in Open(ev, rid, f)', n \in Nodes : g[a] # <<2, n, 1>>

\* Elements of the tail of a queue.
LEMMA TailAt ==
    ASSUME NEW S, NEW s \in Seq(S), s # <<>>, NEW i \in DOMAIN Tail(s)
    PROVE  i + 1 \in DOMAIN s /\ Tail(s)[i] = s[i + 1] /\ i > 0
OBVIOUS

\* The RIC thread takes the first message of its queue.
LEMMA RicTakesOpen ==
    ASSUME TypeOK, NEW ev, NEW rid, NEW f,
           ricIn # <<>>, ricIn' = Tail(ricIn), UNCHANGED <<agIn, iappVars>>
    PROVE  \E g : Moved(ev, rid, f, g) /\ Behind(ev, rid, f, g)
<1>. DEFINE g == [a \in Places |-> IF a[1] = 2 THEN <<2, a[2], a[3] + 1>> ELSE a]
<1>s. ricIn \in Seq(ToRic)
    BY DEF TypeOK, TypeSockets
<1>g. ASSUME NEW n \in Nodes, NEW i \in Nat
      PROVE  /\ g[<<2, n, i>>] = <<2, n, i + 1>>
             /\ g[<<4, n, i>>] = <<4, n, i>> /\ g[<<5, n, i>>] = <<5, n, i>>
    BY DEF Places
<1>. HIDE DEF g
<1>1. ASSUME NEW n \in Nodes, NEW i \in Nat, <<2, n, i>> \in Open(ev, rid, f)'
      PROVE  <<2, n, i + 1>> \in Open(ev, rid, f) /\ i > 0
  <2>1. i \in DOMAIN ricIn' /\ ricIn'[i] = [type |-> AnswerTo(ev), node |-> n, rid |-> rid, rf |-> f]
    BY <1>1 DEF Open
  <2>2. i + 1 \in DOMAIN ricIn /\ ricIn'[i] = ricIn[i + 1] /\ i > 0
    BY <1>s, <2>1
  <2>. QED
    BY <2>1, <2>2 DEF Open
<1>2. ASSUME NEW n \in Nodes, NEW i \in Nat
      PROVE  /\ <<4, n, i>> \in Open(ev, rid, f)' => <<4, n, i>> \in Open(ev, rid, f)
             /\ <<5, n, i>> \in Open(ev, rid, f)' => <<5, n, i>> \in Open(ev, rid, f)
    BY DEF Open, iappVars
<1>3. \A a \in Open(ev, rid, f)' : g[a] \in Open(ev, rid, f) /\ \A n \in Nodes : g[a] # <<2, n, 1>>
  <2>. SUFFICES ASSUME NEW a \in Open(ev, rid, f)', NEW n \in Nodes, NEW i \in Nat,
                       a \in {<<2, n, i>>, <<4, n, i>>, <<5, n, i>>}
                PROVE  g[a] \in Open(ev, rid, f) /\ \A k \in Nodes : g[a] # <<2, k, 1>>
    BY OpenIsPlace
  <2>1. CASE a = <<2, n, i>>
    <3>1. g[a] = <<2, n, i + 1>> /\ <<2, n, i + 1>> \in Open(ev, rid, f) /\ i > 0
      BY <1>1, <1>g, <2>1
    <3>. QED
      BY <3>1
  <2>2. CASE a = <<4, n, i>>
    <3>1. g[a] = <<4, n, i>> /\ <<4, n, i>> \in Open(ev, rid, f)
      BY <1>2, <1>g, <2>2
    <3>. QED
      BY <3>1
  <2>3. CASE a = <<5, n, i>>
    <3>1. g[a] = <<5, n, i>> /\ <<5, n, i>> \in Open(ev, rid, f)
      BY <1>2, <1>g, <2>3
    <3>. QED
      BY <3>1
  <2>. QED
    BY <2>1, <2>2, <2>3
<1>4. ASSUME NEW a \in Open(ev, rid, f)', NEW b \in Open(ev, rid, f)', g[a] = g[b] PROVE a = b
  <2>1. PICK n \in Nodes, i \in Nat : a \in {<<2, n, i>>, <<4, n, i>>, <<5, n, i>>}
    BY OpenIsPlace
  <2>2. PICK m \in Nodes, j \in Nat : b \in {<<2, m, j>>, <<4, m, j>>, <<5, m, j>>}
    BY OpenIsPlace
  <2>3. g[a] = IF a = <<2, n, i>> THEN <<2, n, i + 1>> ELSE a
    BY <1>g, <2>1
  <2>4. g[b] = IF b = <<2, m, j>> THEN <<2, m, j + 1>> ELSE b
    BY <1>g, <2>2
  <2>5. CASE a = <<2, n, i>> /\ b = <<2, m, j>>
    <3>1. <<2, n, i + 1>> = <<2, m, j + 1>>
      BY <1>4, <2>3, <2>4, <2>5
    <3>2. n = m /\ i = j
      BY <3>1
    <3>. QED
      BY <2>5, <3>2
  <2>6. CASE a = <<2, n, i>> /\ b # <<2, m, j>>
    <3>1. <<2, n, i + 1>> = b
      BY <1>4, <2>3, <2>4, <2>6
    <3>. QED
      BY <2>2, <2>6, <3>1
  <2>7. CASE a # <<2, n, i>> /\ b = <<2, m, j>>
    <3>1. <<2, m, j + 1>> = a
      BY <1>4, <2>3, <2>4, <2>7
    <3>. QED
      BY <2>1, <2>7, <3>1
  <2>8. CASE a # <<2, n, i>> /\ b # <<2, m, j>>
    BY <1>4, <2>3, <2>4, <2>8
  <2>. QED
    BY <2>5, <2>6, <2>7, <2>8
<1>. QED
    BY <1>3, <1>4 DEF Moved, Behind

\* Node k takes the first message of its queue, and may answer it.
LEMMA AgTakesOpen ==
    ASSUME TypeOK, NEW ev \in RequestTypes, NEW rid, NEW f, NEW k \in Nodes, agIn[k] # <<>>,
           agIn' = [agIn EXCEPT ![k] = Tail(@)], UNCHANGED iappVars,
           \/ ricIn' = ricIn
           \/ /\ Head(agIn[k]).type \in RequestTypes
              /\ ricIn' = Append(ricIn, [type |-> AnswerTo(Head(agIn[k]).type), node |-> k,
                                         rid |-> Head(agIn[k]).rid, rf |-> Head(agIn[k]).rf])
    PROVE  \E g : Moved(ev, rid, f, g)
<1>. DEFINE last == Len(ricIn) + 1
            g == [a \in Places |-> IF a[1] = 4 /\ a[2] = k THEN <<4, k, a[3] + 1>>
                                   ELSE IF a[1] = 2 /\ a[3] = last THEN <<4, k, 1>> ELSE a]
<1>s. ricIn \in Seq(ToRic) /\ \A n \in Nodes : agIn[n] \in Seq(ToAgent)
    BY DEF TypeOK, TypeSockets, TypeAgents
<1>l. last \in Nat /\ last = Len(ricIn) + 1
    BY <1>s
<1>. HIDE DEF last
<1>g. ASSUME NEW n \in Nodes, NEW i \in Nat
      PROVE  /\ g[<<2, n, i>>] = IF i = last THEN <<4, k, 1>> ELSE <<2, n, i>>
             /\ g[<<4, n, i>>] = IF n = k THEN <<4, n, i + 1>> ELSE <<4, n, i>>
             /\ g[<<5, n, i>>] = <<5, n, i>>
  <2>1. <<2, n, i>> \in Places /\ <<4, n, i>> \in Places /\ <<5, n, i>> \in Places
    BY DEF Places
  <2>2. g[<<2, n, i>>] = IF i = last THEN <<4, k, 1>> ELSE <<2, n, i>>
    <3>. DEFINE a == <<2, n, i>>
    <3>1. a \in Places /\ a[1] = 2 /\ a[3] = i
      BY <2>1
    <3>2. g[a] = IF i = last THEN <<4, k, 1>> ELSE a
      <4>. HIDE DEF a
      <4>. QED BY <3>1
    <3>. QED BY <3>2
  <2>3. g[<<4, n, i>>] = IF n = k THEN <<4, n, i + 1>> ELSE <<4, n, i>>
    <3>. DEFINE a == <<4, n, i>>
    <3>1. a \in Places /\ a[1] = 4 /\ a[2] = n /\ a[3] = i
      BY <2>1
    <3>. HIDE DEF a
    <3>2. CASE n = k
      <4>1. g[a] = <<4, k, a[3] + 1>>
        BY <3>1, <3>2
      <4>. QED BY <3>1, <3>2, <4>1 DEF a
    <3>3. CASE n # k
      <4>1. g[a] = a
        BY <3>1, <3>3
      <4>. QED BY <3>3, <4>1 DEF a
    <3>. QED BY <3>2, <3>3
  <2>4. g[<<5, n, i>>] = <<5, n, i>>
    <3>. DEFINE a == <<5, n, i>>
    <3>1. a \in Places /\ a[1] = 5
      BY <2>1
    <3>2. g[a] = a
      <4>. HIDE DEF a
      <4>. QED BY <3>1
    <3>. QED BY <3>2
  <2>. QED
    BY <2>2, <2>3, <2>4
<1>. HIDE DEF g
<1>1. ASSUME NEW n \in Nodes, NEW i \in Nat, <<2, n, i>> \in Open(ev, rid, f)'
      PROVE  IF i = last THEN n = k /\ <<4, k, 1>> \in Open(ev, rid, f)
             ELSE <<2, n, i>> \in Open(ev, rid, f)
  <2>1. i \in DOMAIN ricIn' /\ ricIn'[i] = [type |-> AnswerTo(ev), node |-> n, rid |-> rid, rf |-> f]
    BY <1>1 DEF Open
  <2>2. CASE i # last
    <3>1. i \in DOMAIN ricIn /\ ricIn'[i] = ricIn[i]
      <4>1. CASE ricIn' = ricIn
        BY <2>1, <4>1
      <4>2. ASSUME NEW m, ricIn' = Append(ricIn, m)
            PROVE  i \in DOMAIN ricIn /\ ricIn'[i] = ricIn[i]
        <5>1. i # Len(ricIn) + 1 /\ ricIn \in Seq(ToRic) /\ i \in DOMAIN ricIn'
          BY <1>l, <1>s, <2>1, <2>2
        <5>. QED
          BY <4>2, <5>1
      <4>. QED
        BY <4>1, <4>2
    <3>. QED
      BY <2>1, <2>2, <3>1 DEF Open
  <2>3. CASE i = last
    <3>1. /\ Head(agIn[k]).type \in RequestTypes
          /\ ricIn'[i] = [type |-> AnswerTo(Head(agIn[k]).type), node |-> k,
                          rid |-> Head(agIn[k]).rid, rf |-> Head(agIn[k]).rf]
      BY <1>l, <1>s, <2>1, <2>3
    <3>2. /\ AnswerTo(Head(agIn[k]).type) = AnswerTo(ev) /\ n = k
          /\ Head(agIn[k]).rid = rid /\ Head(agIn[k]).rf = f
      BY <2>1, <3>1
    <3>3. Head(agIn[k]).type = ev
      BY <3>1, <3>2 DEF AnswerTo, RequestTypes
    <3>4. Head(agIn[k]) \in ToAgent /\ Head(agIn[k]) = agIn[k][1] /\ 1 \in DOMAIN agIn[k]
      BY <1>s
    <3>5. Head(agIn[k]) = [type |-> ev, rid |-> rid, rf |-> f]
      BY <3>2, <3>3, <3>4 DEF ToAgent, RequestTypes
    <3>. QED
      BY <2>3, <3>2, <3>4, <3>5 DEF Open
  <2>. QED
    BY <2>2, <2>3
<1>2. ASSUME NEW n \in Nodes, NEW i \in Nat, <<4, n, i>> \in Open(ev, rid, f)'
      PROVE  IF n = k THEN <<4, n, i + 1>> \in Open(ev, rid, f) /\ i > 0
             ELSE <<4, n, i>> \in Open(ev, rid, f)
  <2>1. i \in DOMAIN agIn'[n] /\ agIn'[n][i] = [type |-> ev, rid |-> rid, rf |-> f]
    BY <1>2 DEF Open
  <2>2. CASE n # k
    <3>1. agIn'[n] = agIn[n]
      BY <2>2 DEF TypeOK, TypeAgents
    <3>. QED
      BY <2>1, <2>2, <3>1 DEF Open
  <2>3. CASE n = k
    <3>1. agIn'[n] = Tail(agIn[n])
      BY <2>3 DEF TypeOK, TypeAgents
    <3>2. i + 1 \in DOMAIN agIn[n] /\ agIn'[n][i] = agIn[n][i + 1] /\ i > 0
      BY <1>s, <2>1, <2>3, <3>1, TailAt
    <3>. QED
      BY <2>1, <2>3, <3>2 DEF Open
  <2>. QED
    BY <2>2, <2>3
<1>3. ASSUME NEW n \in Nodes, NEW i \in Nat, <<5, n, i>> \in Open(ev, rid, f)'
      PROVE  <<5, n, i>> \in Open(ev, rid, f)
    BY <1>3 DEF Open, iappVars
<1>4. \A a \in Open(ev, rid, f)' : g[a] \in Open(ev, rid, f)
  <2>. SUFFICES ASSUME NEW a \in Open(ev, rid, f)', NEW n \in Nodes, NEW i \in Nat,
                       a \in {<<2, n, i>>, <<4, n, i>>, <<5, n, i>>}
                PROVE  g[a] \in Open(ev, rid, f)
    BY OpenIsPlace
  <2>1. CASE a = <<2, n, i>>
    BY <1>1, <1>g, <2>1
  <2>2. CASE a = <<4, n, i>>
    BY <1>2, <1>g, <2>2
  <2>3. CASE a = <<5, n, i>>
    BY <1>3, <1>g, <2>3
  <2>. QED
    BY <2>1, <2>2, <2>3
<1>c. ASSUME NEW a \in Open(ev, rid, f)', NEW n \in Nodes, NEW i \in Nat
      PROVE  /\ a = <<2, n, i>> => IF i = last THEN n = k /\ g[a] = <<4, k, 1>> ELSE g[a] = a
             /\ a = <<4, n, i>> => IF n = k THEN g[a] = <<4, n, i + 1>> /\ i > 0 ELSE g[a] = a
             /\ a = <<5, n, i>> => g[a] = a
  <2>1. a = <<2, n, i>> => IF i = last THEN n = k /\ g[a] = <<4, k, 1>> ELSE g[a] = a
    BY <1>1, <1>g
  <2>2. a = <<4, n, i>> => IF n = k THEN g[a] = <<4, n, i + 1>> /\ i > 0 ELSE g[a] = a
    BY <1>2, <1>g
  <2>3. a = <<5, n, i>> => g[a] = a
    BY <1>g
  <2>. QED
    BY <2>1, <2>2, <2>3
<1>5. ASSUME NEW a \in Open(ev, rid, f)', NEW b \in Open(ev, rid, f)', g[a] = g[b] PROVE a = b
  <2>1. PICK n \in Nodes, i \in Nat : a \in {<<2, n, i>>, <<4, n, i>>, <<5, n, i>>}
    BY OpenIsPlace
  <2>2. PICK m \in Nodes, j \in Nat : b \in {<<2, m, j>>, <<4, m, j>>, <<5, m, j>>}
    BY OpenIsPlace
  <2>3. /\ a = <<2, n, i>> => IF i = last THEN n = k /\ g[a] = <<4, k, 1>> ELSE g[a] = a
        /\ a = <<4, n, i>> => IF n = k THEN g[a] = <<4, n, i + 1>> /\ i > 0 ELSE g[a] = a
        /\ a = <<5, n, i>> => g[a] = a
    BY <1>c
  <2>4. /\ b = <<2, m, j>> => IF j = last THEN m = k /\ g[b] = <<4, k, 1>> ELSE g[b] = b
        /\ b = <<4, m, j>> => IF m = k THEN g[b] = <<4, m, j + 1>> /\ j > 0 ELSE g[b] = b
        /\ b = <<5, m, j>> => g[b] = b
    BY <1>c
  <2>5. CASE a = <<2, n, i>>
    BY <1>5, <2>2, <2>3, <2>4, <2>5
  <2>6. CASE a = <<4, n, i>>
    BY <1>5, <2>2, <2>3, <2>4, <2>6
  <2>7. CASE a = <<5, n, i>>
    BY <1>5, <2>2, <2>3, <2>4, <2>7
  <2>. QED
    BY <2>1, <2>5, <2>6, <2>7
<1>. QED
    BY <1>4, <1>5 DEF Moved

\* The iApp thread sends its request, or loses it.
LEMMA IAppSendsOpen ==
    ASSUME TypeOK, NEW ev \in RequestTypes, NEW rid, NEW f,
           IAppForward, ~\E why : Abort(why)
    PROVE  \E g : Moved(ev, rid, f, g)
<1>. DEFINE k == imsg.node
            last == Len(agIn[k]) + 1
            g == [a \in Places |-> IF a[1] = 4 /\ a[2] = k /\ a[3] = last THEN <<5, k, 0>> ELSE a]
<1>s. /\ ipc = "send" /\ ipc' # "send" /\ ricIn' = ricIn /\ k \in Nodes
      /\ \A n \in Nodes : agIn[n] \in Seq(ToAgent)
      /\ \/ agIn' = agIn
         \/ agIn' = [agIn EXCEPT ![k] = Append(@, [type |-> imsg.type, rid |-> irid, rf |-> imsg.rf])]
    BY DEF IAppForward, SendToNode, TypeOK, TypeIApp, TypeAgents, ToIApp
<1>l. last \in Nat
    BY <1>s
<1>g. ASSUME NEW n \in Nodes, NEW i \in Nat
      PROVE  /\ g[<<2, n, i>>] = <<2, n, i>> /\ g[<<5, n, i>>] = <<5, n, i>>
             /\ g[<<4, n, i>>] = IF n = k /\ i = last THEN <<5, k, 0>> ELSE <<4, n, i>>
    BY DEF Places
<1>. HIDE DEF g
<1>1. ASSUME NEW n \in Nodes, NEW i \in Nat, <<4, n, i>> \in Open(ev, rid, f)'
      PROVE  IF n = k /\ i = last THEN <<5, k, 0>> \in Open(ev, rid, f)
             ELSE <<4, n, i>> \in Open(ev, rid, f)
  <2>1. i \in DOMAIN agIn'[n] /\ agIn'[n][i] = [type |-> ev, rid |-> rid, rf |-> f]
    BY <1>1 DEF Open
  <2>2. CASE n # k \/ i # last
    <3>1. \/ agIn'[n] = agIn[n]
          \/ n = k /\ agIn'[n] = Append(agIn[n], [type |-> imsg.type, rid |-> irid, rf |-> imsg.rf])
      BY <1>s DEF TypeOK, TypeAgents
    <3>2. i \in DOMAIN agIn[n] /\ agIn'[n][i] = agIn[n][i]
      BY <1>s, <2>1, <2>2, <3>1
    <3>. QED
      BY <2>1, <2>2, <3>2 DEF Open
  <2>3. CASE n = k /\ i = last
    <3>1. agIn'[n][i] = [type |-> imsg.type, rid |-> irid, rf |-> imsg.rf]
      BY <1>s, <2>1, <2>3 DEF TypeOK, TypeAgents
    <3>2. imsg.type = ev /\ irid = rid /\ imsg.rf = f
      BY <2>1, <3>1
    <3>. QED
      BY <1>s, <2>3, <3>2 DEF Open
  <2>. QED
    BY <2>2, <2>3
<1>2. ASSUME NEW n \in Nodes, NEW i \in Nat
      PROVE  /\ <<2, n, i>> \in Open(ev, rid, f)' => <<2, n, i>> \in Open(ev, rid, f)
             /\ <<5, n, i>> \notin Open(ev, rid, f)'
    BY <1>s DEF Open
<1>3. ASSUME NEW a \in Open(ev, rid, f)'
      PROVE  \E n \in Nodes, i \in Nat :
               /\ a \in {<<2, n, i>>, <<4, n, i>>} /\ g[a] \in Open(ev, rid, f)
               /\ g[a] = IF a = <<4, k, last>> THEN <<5, k, 0>> ELSE a
  <2>1. PICK n \in Nodes, i \in Nat : a \in {<<2, n, i>>, <<4, n, i>>, <<5, n, i>>}
    BY OpenIsPlace
  <2>2. CASE a = <<2, n, i>>
    BY <1>2, <1>g, <2>2
  <2>3. CASE a = <<4, n, i>>
    BY <1>1, <1>g, <2>3
  <2>. QED
    BY <1>2, <2>1, <2>2, <2>3
<1>4. ASSUME NEW a \in Open(ev, rid, f)', NEW b \in Open(ev, rid, f)', g[a] = g[b] PROVE a = b
  <2>1. PICK n \in Nodes, i \in Nat : a \in {<<2, n, i>>, <<4, n, i>>}
    BY <1>3
  <2>2. PICK m \in Nodes, j \in Nat : b \in {<<2, m, j>>, <<4, m, j>>}
    BY <1>3
  <2>3. a # <<5, k, 0>> /\ b # <<5, k, 0>>
    BY <2>1, <2>2
  <2>. QED
    BY <1>3, <1>4, <2>3
<1>. QED
    BY <1>3, <1>4 DEF Moved

-----------------------------------------------------------------------------
(* Open requests are tokens *)

\* An id that leads back to a request names it.
LEMMA TracedIsNamed ==
    ASSUME TypeOK, OwnersInv, ~Clash, NEW n, NEW rid, NEW f, NEW kind, Traced(n, rid, f, kind)
    PROVE  \E x \in XApps, h \in Nat : NamesAt(x, h, n, rid)
<1>1. PICK e \in Entries : e.rid = rid /\ e.node = n
    BY DEF Traced, TracedIn, Entries
<1>2. PICK x \in XApps : Registered(x) /\ xid[x] = e.xid
    BY EntriesKnown DEF Known
<1>3. e.h \in Nat
  <2>1. CASE e \in mapRicId
    BY <2>1 DEF TypeOK, TypeShared, MapEntries
  <2>2. CASE e \in InFlight
    <3>1. e.h = imsg.h /\ imsg \in ToIApp /\ imsg.type \in RequestTypes
      BY <2>2 DEF InFlight, TypeOK, TypeIApp, RequestTypes
    <3>. QED
      BY <3>1 DEF ToIApp, RequestTypes
  <2>. QED
    BY <2>1, <2>2 DEF Entries
<1>. QED
    BY <1>1, <1>2, <1>3 DEF NamesAt, Entries

\* The type of a request and the type of its answer.
LEMMA AnswerTypesOf ==
    /\ \A ev \in RequestTypes : AnswerTo(ev) \in AnswerTypes /\ AnswerTo(ev) \in E2Answers
    /\ \A ev, ev2 \in RequestTypes : AnswerTo(ev) = AnswerTo(ev2) => ev = ev2
    BY DEF RequestTypes, AnswerTypes, E2Answers, AnswerTo

\* While no id is taken twice, an open request is the token of an xApp.
LEMMA OpenIsToken ==
    ASSUME TypeOK, RoutingInv, OwnersInv, ~Clash, NEW ev \in RequestTypes, NEW rid, NEW f,
           NEW s, NEW n \in Nodes, NEW i \in Nat, <<s, n, i>> \in Open(ev, rid, f)
    PROVE  \E x \in XApps, h \in Nat : /\ NamesAt(x, h, n, rid) /\ s \in 0 .. 7
                                       /\ MsgAt(x, AnswerTo(ev), h, s, n, i)
<1>a. AnswerTo(ev) \in E2Answers
    BY AnswerTypesOf
<1>1. \/ /\ s = 2 /\ i \in DOMAIN ricIn
         /\ ricIn[i] = [type |-> AnswerTo(ev), node |-> n, rid |-> rid, rf |-> f]
      \/ s = 4 /\ i \in DOMAIN agIn[n] /\ agIn[n][i] = [type |-> ev, rid |-> rid, rf |-> f]
      \/ s = 5 /\ i = 0 /\ ipc = "send" /\ imsg.node = n /\ imsg.type = ev /\ irid = rid
    BY DEF Open
<1>2. CASE /\ s = 2 /\ i \in DOMAIN ricIn
           /\ ricIn[i] = [type |-> AnswerTo(ev), node |-> n, rid |-> rid, rf |-> f]
  <2>1. ricIn[i] \in Range(ricIn)
    BY <1>2 DEF Range
  <2>2. Traced(n, rid, f, KindOf(AnswerTo(ev)))
    BY <1>2, <1>a, <2>1 DEF RoutingInv, TracedInv
  <2>3. PICK x \in XApps, h \in Nat : NamesAt(x, h, n, rid)
    BY <2>2, TracedIsNamed
  <2>. QED
    BY <1>2, <2>3 DEF MsgAt
<1>3. CASE s = 4 /\ i \in DOMAIN agIn[n] /\ agIn[n][i] = [type |-> ev, rid |-> rid, rf |-> f]
  <2>1. agIn[n][i] \in Range(agIn[n]) /\ ev # "SETUP_RESP"
    BY <1>3 DEF Range, RequestTypes
  <2>2. Traced(n, rid, f, KindOf(ev))
    BY <1>3, <2>1 DEF RoutingInv, TracedInv
  <2>3. PICK x \in XApps, h \in Nat : NamesAt(x, h, n, rid)
    BY <2>2, TracedIsNamed
  <2>. QED
    BY <1>3, <2>1, <2>3 DEF MsgAt
<1>4. CASE s = 5 /\ i = 0 /\ ipc = "send" /\ imsg.node = n /\ imsg.type = ev /\ irid = rid
  <2>2. Traced(imsg.node, irid, imsg.rf, KindOf(imsg.type))
    BY <1>4 DEF RoutingInv, RequestsInv
  <2>3. PICK x \in XApps, h \in Nat : NamesAt(x, h, n, rid)
    BY <1>4, <2>2, TracedIsNamed
  <2>. QED
    BY <1>4, <2>3 DEF MsgAt
<1>. QED
    BY <1>1, <1>2, <1>3, <1>4

\* While no id is taken twice, at most one request is open under it.
LEMMA OneOpen ==
    ASSUME TypeOK, RoutingInv, OwnersInv, OneTokenInv, ~Clash,
           NEW ev \in RequestTypes, NEW rid, NEW f
    PROVE  \A a, b \in Open(ev, rid, f) : a = b
<1>. SUFFICES ASSUME NEW a \in Open(ev, rid, f), NEW b \in Open(ev, rid, f) PROVE a = b
    OBVIOUS
<1>1. PICK n \in Nodes, i \in Nat : a \in {<<2, n, i>>, <<4, n, i>>, <<5, n, i>>}
    BY OpenIsPlace
<1>2. PICK m \in Nodes, j \in Nat : b \in {<<2, m, j>>, <<4, m, j>>, <<5, m, j>>}
    BY OpenIsPlace
<1>3. PICK s : a = <<s, n, i>>
    BY <1>1
<1>4. PICK r : b = <<r, m, j>>
    BY <1>2
<1>5. PICK x \in XApps, h \in Nat : /\ NamesAt(x, h, n, rid) /\ s \in 0 .. 7
                                    /\ MsgAt(x, AnswerTo(ev), h, s, n, i)
    BY <1>3, OpenIsToken
<1>6. PICK y \in XApps, g \in Nat : /\ NamesAt(y, g, m, rid) /\ r \in 0 .. 7
                                    /\ MsgAt(y, AnswerTo(ev), g, r, m, j)
    BY <1>4, OpenIsToken
<1>7. x = y /\ h = g
    BY <1>5, <1>6, NamesUnique
<1>8. Unique(x) /\ AnswerTo(ev) \in AnswerTypes
    BY AnswerTypesOf DEF OneTokenInv
<1>9. s = r /\ n = m /\ i = j
    BY <1>5, <1>6, <1>7, <1>8, OnlyToken
<1>. QED
    BY <1>3, <1>4, <1>9

-----------------------------------------------------------------------------
(* Whose timers they are *)

\* stop_pending_event takes one timer of the answer at the head of the queue.
Stopped(q) ==
    /\ RicAnswer /\ ~(\E why : Abort(why)) /\ rpc' = "lookup" /\ ricIn # <<>>
    /\ ricIn' = Tail(ricIn) /\ rmsg' = Head(ricIn)
    /\ q \in pending /\ q.rid = Head(ricIn).rid /\ q.rf = Head(ricIn).rf
    /\ q.ev \in RequestTypes /\ AnswerTo(q.ev) = Head(ricIn).type
    /\ pending' = pending \ {q} /\ UNCHANGED <<agIn, iappVars, xIn>>

\* The timer that the iApp thread creates for the request it holds.
NewEvent == [ev |-> imsg.type, rid |-> irid', rf |-> imsg.rf, fd |-> reqId]

\* The iApp thread creates the timer of the request it holds.
Arms ==
    /\ IAppStartTimer \/ IAppDeleteTimer
    /\ ipc \in {"timer", "del_timer"} /\ pending' = pending \cup {NewEvent}
    /\ ipc' = "send" /\ imsg' = imsg
    /\ UNCHANGED <<agIn, ricIn, xIn, xop, rpc, rmsg, ricAbort>>

\* Timers are created by the iApp thread and stopped by the RIC thread.
LEMMA PendingStep ==
    ASSUME TypeOK, [Next]_vars
    PROVE  \/ pending' = pending /\ ~IAppStartTimer /\ ~IAppDeleteTimer
           \/ ~IAppStartTimer /\ ~IAppDeleteTimer /\ \E q : Stopped(q)
           \/ Arms
<1>1. CASE RicAnswer
  <2>0. ~IAppStartTimer /\ ~IAppDeleteTimer
    <3>1. CASE \E why : Abort(why)
      <4>1. ipc' = ipc
        BY <3>1 DEF Abort, iappVars
      <4>. QED
        BY <4>1 DEF IAppStartTimer, IAppDeleteTimer
    <3>2. CASE ipc' = ipc
      BY <3>2 DEF IAppStartTimer, IAppDeleteTimer
    <3>. QED
      BY <1>1, <3>1, <3>2 DEF RicAnswer, iappVars
  <2>1. CASE \E why : Abort(why)
    BY <2>0, <2>1 DEF Abort, shared
  <2>2. CASE ~\E why : Abort(why)
    <3>1. PICK ev \in RequestTypes :
            /\ AnswerTo(ev) = Head(ricIn).type
            /\ \E q \in StopPendingEvent(ev, Head(ricIn)) : pending' = pending \ {q}
            /\ rpc' = "lookup" /\ rmsg' = Head(ricIn) /\ ricIn' = Tail(ricIn)
            /\ UNCHANGED <<iappVars, agVars, xVars>>
      BY <1>1, <2>2 DEF RicAnswer, RequestTypes
    <3>2. PICK q \in StopPendingEvent(ev, Head(ricIn)) : pending' = pending \ {q}
      BY <3>1
    <3>3. q \in pending /\ q.ev = ev /\ q.rid = Head(ricIn).rid /\ q.rf = Head(ricIn).rf
      BY <3>2 DEF StopPendingEvent
    <3>4. ricIn # <<>>
      BY <1>1 DEF RicAnswer, RicReceives
    <3>5. Stopped(q)
      BY <1>1, <2>2, <3>1, <3>2, <3>3, <3>4 DEF Stopped, agVars, xVars
    <3>. QED
      BY <2>0, <3>5
  <2>. QED
    BY <2>1, <2>2
<1>2. CASE IAppStartTimer \/ IAppDeleteTimer
  <2>1. ipc = "del_timer" => imsg.type = "DEL_REQ"
    BY DEF TypeOK, TypeIApp
  <2>2. pending' = pending \cup {NewEvent}
    BY <1>2, <2>1 DEF IAppStartTimer, IAppDeleteTimer, NewEvent
  <2>. QED
    BY <1>2, <2>2 DEF IAppStartTimer, IAppDeleteTimer, Arms, agVars, xVars, ricVars
<1>3. CASE ~RicAnswer /\ ~IAppStartTimer /\ ~IAppDeleteTimer
  <2>1. ASSUME RicThread \/ RicTimeout PROVE pending' = pending
    BY <1>3, <2>1 DEF RicThread, RicTimeout, Abort, RicSetupRequest, RicAddNode,
         RicAcceptNode, RicIndication, RicLookup, RicNotify, RicShutdown,
         RicEraseConn, RicRmNode, shared, vars
  <2>2. ASSUME IAppThread PROVE pending' = pending
    BY <1>3, <2>2 DEF IAppThread, Abort, IAppSetupRequest, IAppRegXApp, IAppSetupResponse,
         IAppRequest, IAppLock, IAppForward, IAppAddMap, IAppDelete, shared
  <2>3. ASSUME NEW n \in Nodes, AgentStep(n) PROVE pending' = pending
    BY <2>3, AgFrames DEF AgFrame, shared
  <2>4. ASSUME NEW x \in XApps, XAppStep(x) PROVE pending' = pending
    BY <2>4, XFrames DEF XFrame, shared
  <2>5. CASE UNCHANGED vars
    BY <1>3, <2>5 DEF vars, shared
  <2>. QED
    BY <1>3, <2>1, <2>2, <2>3, <2>4, <2>5 DEF Next, AgentStep, XAppStep, XAppRequests
<1>. QED
    BY <1>1, <1>2, <1>3

\* The mutex is free to be taken: no id is taken twice before a timer starts.
LEMMA ClashStays ==
    ASSUME TypeOK, [Next]_vars
    PROVE  Clash => Clash'
<1>1. CASE IAppStartTimer
  <2>1. InFlight = {}
    BY <1>1 DEF IAppStartTimer, InFlight
  <2>. QED
    BY <2>1 DEF Clash
<1>. QED
    BY <1>1, EntriesKept

\* Who has a timer has an open operation.
LEMMA TimerOwner ==
    ASSUME TypeOK, RoutingInv, OwnersInv, OwnTimersInv, NEW x \in XApps, NEW p, TimerOf(x, p)
    PROVE  /\ xop[x] # NoOp /\ ~Clash
           /\ \E h \in Nat, n \in Nodes : NamesAt(x, h, n, p.rid)
                                          /\ xop[x] = [ans |-> AnswerTo(p.ev), h |-> h]
<1>1. PICK h \in Nat, n \in Nodes : NamesAt(x, h, n, p.rid)
    BY DEF TimerOf
<1>2. ~Clash /\ p \in pending
    BY <1>1 DEF NamesAt, TimerOf
<1>3. PICK y \in XApps, g \in Nat, m \in Nodes :
        NamesAt(y, g, m, p.rid) /\ xop[y] = [ans |-> AnswerTo(p.ev), h |-> g]
    BY <1>2 DEF OwnTimersInv
<1>4. x = y /\ h = g /\ n = m
    BY <1>1, <1>3, NamesUnique
<1>5. AnswerTo(p.ev) # "NONE"
    BY <1>2 DEF TypeOK, TypeShared, PendingEvents, AnswerTo
<1>. QED
    BY <1>1, <1>2, <1>3, <1>4, <1>5 DEF NoOp

\* x holds the new timer: it has no other, and the id of the timer is its own.
Holder(x) ==
    /\ imsg.h \in Nat /\ imsg.node \in Nodes /\ imsg.type \in RequestTypes
    /\ \A h, n, r : h = imsg.h /\ n = imsg.node /\ r = irid' => NamesAt(x, h, n, r)'
    /\ xop[x] = [ans |-> AnswerTo(imsg.type), h |-> imsg.h]
    /\ MsgAt(x, AnswerTo(imsg.type), imsg.h, 6, imsg.node, 0)
    /\ \A p \in pending : ~TimerOf(x, p)
    /\ \A y \in XApps : \A h, n, r : r = irid' /\ NamesAt(y, h, n, r)' => y = x
    /\ \A p \in pending, y \in XApps : \A h, n, r : r = p.rid =>
         (NamesAt(y, h, n, r)' <=> NamesAt(y, h, n, r))

\* The timer that the iApp thread creates has a holder.
LEMMA NewTimer ==
    ASSUME TypeOK, RoutingInv, OwnersInv, OneTokenInv, OwnTimersInv, UntimedInv, [Next]_vars,
           Arms, ~Clash'
    PROVE  \E x \in XApps : Holder(x)
<1>c. ~Clash
    BY ClashStays
<1>i. ipc \in {"timer", "del_timer"}
    BY DEF Arms
<1>1. PICK x \in XApps :
        /\ Registered(x) /\ xid[x] = imsg.xid /\ AnswerTo(imsg.type) \in AnswerTypes
        /\ imsg.h \in Nat /\ imsg.node \in Nodes
        /\ MsgAt(x, AnswerTo(imsg.type), imsg.h, 6, imsg.node, 0)
    BY <1>i, HeldRequest
<1>2. imsg.type \in RequestTypes
    BY <1>i DEF TypeOK, TypeIApp, RequestTypes
<1>3. xop[x] = [ans |-> AnswerTo(imsg.type), h |-> imsg.h]
    BY <1>1 DEF OneTokenInv
<1>4. \A p \in pending : ~TimerOf(x, p)
    BY <1>1 DEF UntimedInv
<1>5. CASE IAppStartTimer
  <2>1. /\ irid' = reqId % UINT16 /\ ipc = "timer" /\ ipc' = "send" /\ imsg' = imsg
        /\ imsg.type \in {"SUB_REQ", "CTRL_REQ"}
    BY <1>5 DEF IAppStartTimer, TypeOK, TypeIApp
  <2>2. InFlight = {}
    BY <2>1 DEF InFlight
  <2>3. InFlight' = {[rid |-> irid', node |-> imsg.node, xid |-> imsg.xid, h |-> imsg.h,
                      rf |-> imsg.rf]}
    BY <2>1 DEF InFlight
  <2>4. Registered(x)' /\ xid'[x] = imsg.xid
    BY <1>1, RegisteredGrows
  <2>5. \A h, n, r : h = imsg.h /\ n = imsg.node /\ r = irid' => NamesAt(x, h, n, r)'
    BY <2>1, <2>3, <2>4 DEF NamesAt
  <2>6. ASSUME NEW y \in XApps, NEW h, NEW n, NEW r, r = irid', NamesAt(y, h, n, r)'
        PROVE  y = x
    <3>1. Registered(y) /\ xid[y] = imsg.xid
      BY <1>5, <2>6, NamesAdded
    <3>. QED
      BY <1>1, <3>1, IdsDiffer
  <2>7. ASSUME NEW p \in pending, NEW y \in XApps, NEW h, NEW n, NEW r, r = p.rid
        PROVE  NamesAt(y, h, n, r)' <=> NamesAt(y, h, n, r)
    <3>1. PICK z \in XApps, g \in Nat, m \in Nodes : NamesAt(z, g, m, p.rid)
      BY <1>c DEF OwnTimersInv
    <3>2. PICK e \in mapRicId : e.rid = p.rid
      BY <2>2, <3>1 DEF NamesAt
    <3>. QED
      BY <1>5, <2>7, <3>2, StartNames
  <2>. QED
    BY <1>1, <1>2, <1>3, <1>4, <2>5, <2>6, <2>7 DEF Holder
<1>6. CASE IAppDeleteTimer
  <2>1. irid' = irid /\ ipc = "del_timer" /\ ~IAppStartTimer
    BY <1>6 DEF IAppDeleteTimer, IAppStartTimer
  <2>2. \A y \in XApps : \A h, n, r : NamesAt(y, h, n, r)' <=> NamesAt(y, h, n, r)
    BY <2>1, NamesKept
  <2>3. PICK e \in mapRicId : e.rid = irid /\ e.node = imsg.node /\ e.xid = imsg.xid
                              /\ e.h = imsg.h
    BY <2>1 DEF OwnersInv
  <2>4. NamesAt(x, imsg.h, imsg.node, irid)
    BY <1>1, <1>c, <2>3 DEF NamesAt
  <2>5. \A h, n, r : h = imsg.h /\ n = imsg.node /\ r = irid' => NamesAt(x, h, n, r)'
    BY <2>1, <2>2, <2>4
  <2>6. ASSUME NEW y \in XApps, NEW h, NEW n, NEW r, r = irid', NamesAt(y, h, n, r)'
        PROVE  y = x
    <3>1. NamesAt(y, h, n, irid)
      BY <2>1, <2>2, <2>6
    <3>. QED
      BY <2>4, <3>1, NamesUnique
  <2>. QED
    BY <1>1, <1>2, <1>3, <1>4, <2>2, <2>5, <2>6 DEF Holder
<1>. QED
    BY <1>5, <1>6 DEF Arms

\* Timers that are not new stay with whom they belong to.
LEMMA OldTimer ==
    ASSUME TypeOK, RoutingInv, OwnersInv, [Next]_vars, ~Arms, NEW x \in XApps, NEW p,
           TimerOf(x, p)'
    PROVE  TimerOf(x, p) /\ p \in pending' /\ ~Clash'
<1>1. ~IAppStartTimer /\ pending' \subseteq pending
    BY PendingStep DEF Stopped
<1>2. p \in pending' /\ \E h \in Nat, n \in Nodes : NamesAt(x, h, n, p.rid)'
    BY DEF TimerOf
<1>3. \A h, n, r : NamesAt(x, h, n, r)' <=> NamesAt(x, h, n, r)
    BY <1>1, NamesKept
<1>4. p \in pending' /\ \E h \in Nat, n \in Nodes : NamesAt(x, h, n, p.rid)
    BY <1>2, <1>3
<1>5. ~Clash'
    BY <1>2 DEF NamesAt
<1>. QED
    BY <1>1, <1>4, <1>5 DEF TimerOf

\* The same when the iApp thread creates one.
LEMMA HeldTimer ==
    ASSUME Arms, NEW z \in XApps, Holder(z), NEW x \in XApps, NEW p, TimerOf(x, p)'
    PROVE  \/ p \in pending /\ TimerOf(x, p)
           \/ p = NewEvent /\ x = z
<1>1. p \in pending' /\ \E h \in Nat, n \in Nodes : NamesAt(x, h, n, p.rid)'
    BY DEF TimerOf
<1>2. PICK h \in Nat, n \in Nodes : NamesAt(x, h, n, p.rid)'
    BY <1>1
<1>3. CASE p \in pending
  <2>1. NamesAt(x, h, n, p.rid)
    BY <1>2, <1>3 DEF Holder
  <2>. QED
    BY <1>3, <2>1 DEF TimerOf
<1>4. CASE p = NewEvent
  <2>1. p.rid = irid'
    BY <1>4 DEF NewEvent
  <2>. QED
    BY <1>2, <1>4, <2>1 DEF Holder
<1>. QED
    BY <1>1, <1>3, <1>4 DEF Arms

\* A timer keeps its owner, and a new one goes to an owner without timer.
LEMMA OwnTimersStep ==
    ASSUME TypeOK, RoutingInv, OwnersInv, WaitsInv, OneTokenInv, OwnTimersInv, UntimedInv,
           [Next]_vars
    PROVE  OwnTimersInv'
<1>. SUFFICES ASSUME ~Clash' PROVE
       /\ \A p \in pending' : \E x \in XApps, h \in Nat, n \in Nodes :
            NamesAt(x, h, n, p.rid)' /\ xop'[x] = [ans |-> AnswerTo(p.ev), h |-> h]
       /\ \A x \in XApps, p, q \in pending' : TimerOf(x, p)' /\ TimerOf(x, q)' => p = q
    BY DEF OwnTimersInv
<1>c. ~Clash
    BY ClashStays
<1>1. CASE ~Arms
  <2>1. ~IAppStartTimer /\ pending' \subseteq pending
    BY <1>1, PendingStep DEF Stopped
  <2>2. ASSUME NEW p \in pending'
        PROVE  \E x \in XApps, h \in Nat, n \in Nodes :
                 NamesAt(x, h, n, p.rid)' /\ xop'[x] = [ans |-> AnswerTo(p.ev), h |-> h]
    <3>1. p \in pending
      BY <2>1, <2>2
    <3>2. PICK x \in XApps, h \in Nat, n \in Nodes :
            NamesAt(x, h, n, p.rid) /\ xop[x] = [ans |-> AnswerTo(p.ev), h |-> h]
      BY <1>c, <3>1 DEF OwnTimersInv
    <3>3. TimerOf(x, p)
      BY <3>1, <3>2 DEF TimerOf
    <3>4. xop[x] # NoOp
      BY <3>3, TimerOwner
    <3>5. xst[x] # "idle"
      BY <3>4 DEF WaitsInv
    <3>6. ~XAppAnswer(x)
      <4>1. SUFFICES ASSUME XAppAnswer(x) PROVE FALSE
        OBVIOUS
      <4>2. \E t \in AnswerTypes, g \in Nat, m \in Nodes : MsgAt(x, t, g, 0, m, 1)
        BY <4>1, AnswerAtHead
      <4>. QED
        BY <3>1, <3>3, <4>2 DEF UntimedInv
    <3>7. xop'[x] = xop[x]
      BY <3>5, <3>6, WaitKept
    <3>8. \A r : r = p.rid => NamesAt(x, h, n, r)'
      BY <2>1, <3>2, NamesKept
    <3>9. NamesAt(x, h, n, p.rid)'
      BY <3>8
    <3>. QED
      BY <3>2, <3>7, <3>9
  <2>3. ASSUME NEW x \in XApps, NEW p \in pending', NEW q \in pending',
               TimerOf(x, p)', TimerOf(x, q)'
        PROVE  p = q
    <3>1. TimerOf(x, p) /\ TimerOf(x, q)
      BY <1>1, <2>3, OldTimer
    <3>2. p \in pending /\ q \in pending
      BY <2>1, <2>3
    <3>. QED
      BY <1>c, <3>1, <3>2 DEF OwnTimersInv
  <2>. QED
    BY <2>2, <2>3
<1>2. CASE Arms
  <2>1. PICK z \in XApps : Holder(z)
    BY <1>2, NewTimer
  <2>2. pending' = pending \cup {NewEvent} /\ xop' = xop
    BY <1>2 DEF Arms
  <2>3. ASSUME NEW p \in pending'
        PROVE  \E x \in XApps, h \in Nat, n \in Nodes :
                 NamesAt(x, h, n, p.rid)' /\ xop'[x] = [ans |-> AnswerTo(p.ev), h |-> h]
    <3>1. CASE p \in pending
      <4>1. PICK x \in XApps, h \in Nat, n \in Nodes :
              NamesAt(x, h, n, p.rid) /\ xop[x] = [ans |-> AnswerTo(p.ev), h |-> h]
        BY <1>c, <3>1 DEF OwnTimersInv
      <4>2. \A r : r = p.rid => NamesAt(x, h, n, r)'
        BY <2>1, <3>1, <4>1 DEF Holder
      <4>3. NamesAt(x, h, n, p.rid)'
        BY <4>2
      <4>. QED
        BY <2>2, <4>1, <4>3
    <3>2. CASE p = NewEvent
      <4>1. p.rid = irid' /\ p.ev = imsg.type
        BY <3>2 DEF NewEvent
      <4>2. \A h, n : h = imsg.h /\ n = imsg.node => NamesAt(z, h, n, p.rid)'
        BY <2>1, <4>1 DEF Holder
      <4>3. /\ imsg.h \in Nat /\ imsg.node \in Nodes
            /\ xop'[z] = [ans |-> AnswerTo(p.ev), h |-> imsg.h]
        BY <2>1, <2>2, <4>1 DEF Holder
      <4>. QED
        BY <4>2, <4>3
    <3>. QED
      BY <2>2, <3>1, <3>2
  <2>4. ASSUME NEW x \in XApps, NEW p \in pending', NEW q \in pending',
               TimerOf(x, p)', TimerOf(x, q)'
        PROVE  p = q
    <3>1. /\ (p \in pending /\ TimerOf(x, p)) \/ (p = NewEvent /\ x = z)
          /\ (q \in pending /\ TimerOf(x, q)) \/ (q = NewEvent /\ x = z)
      BY <1>2, <2>1, <2>4, HeldTimer
    <3>2. \A r \in pending : ~TimerOf(z, r)
      BY <2>1 DEF Holder
    <3>. QED
      BY <1>c, <3>1, <3>2 DEF OwnTimersInv
  <2>. QED
    BY <2>3, <2>4
<1>. QED
    BY <1>1, <1>2

\* The RIC thread starts to look for an owner when it takes a message.
LEMMA LookupFrom ==
    ASSUME TypeOK, [Next]_vars, rpc' = "lookup"
    PROVE  \/ UNCHANGED ricVars
           \/ (RicAnswer \/ RicIndication) /\ ~(\E why : Abort(why))
<1>a. CASE \E why : Abort(why)
    BY <1>a DEF Abort
<1>0. SUFFICES ASSUME ~\E why : Abort(why)
               PROVE  UNCHANGED ricVars \/ RicAnswer \/ RicIndication
    BY <1>a
<1>1. ASSUME RicThread, ~RicAnswer, ~RicIndication PROVE FALSE
    BY <1>0, <1>1 DEF RicThread, RicSetupRequest, RicAddNode, RicAcceptNode, RicLookup,
         RicNotify, RicShutdown, RicEraseConn, RicRmNode
<1>2. ASSUME RicTimeout PROVE UNCHANGED ricVars
    BY <1>0, <1>2 DEF RicTimeout, vars
<1>3. ASSUME IAppThread PROVE UNCHANGED ricVars
    BY <1>3, IAppFrames DEF IAppFrame
<1>4. ASSUME NEW n \in Nodes, AgentStep(n) PROVE UNCHANGED ricVars
    BY <1>4, AgFrames DEF AgFrame
<1>5. ASSUME NEW x \in XApps, XAppStep(x) PROVE UNCHANGED ricVars
    BY <1>5, XFrames DEF XFrame
<1>6. CASE UNCHANGED vars
    BY <1>6 DEF vars
<1>. QED
    BY <1>1, <1>2, <1>3, <1>4, <1>5, <1>6 DEF Next, AgentStep, XAppStep, XAppRequests

\* An answer that the RIC thread takes loses its timer.
LEMMA TakenUntimed ==
    ASSUME TypeOK, RoutingInv, OwnersInv, OwnTimersInv, [Next]_vars, NEW x \in XApps,
           RicAnswer \/ RicIndication, ~(\E why : Abort(why)),
           NEW t \in AnswerTypes, NEW h \in Nat, NEW n \in Nodes, NEW i \in Nat,
           MsgAt(x, t, h, 1, n, i)', NEW p, TimerOf(x, p), p \in pending'
    PROVE  FALSE
<1>t. t \in E2Answers /\ t # "IND"
    BY DEF AnswerTypes
<1>1. RicTakes(x)
    BY MoveRicTake
<1>2. MsgAt(x, t, h, 2, n, 1)
    BY <1>1, <1>t DEF RicTakes
<1>3. ricIn[1].type = t /\ ricIn[1].node = n /\ NamesAt(x, h, n, ricIn[1].rid)
    BY <1>2 DEF MsgAt
<1>4. ricIn # <<>> /\ Head(ricIn) = ricIn[1]
    BY TailElements DEF RicAnswer, RicIndication, RicReceives, TypeOK, TypeSockets
<1>5. ~RicIndication
    BY <1>3, <1>4, <1>t DEF RicIndication, RicReceives
<1>6. rpc = "idle" /\ rpc' = "lookup"
    BY <1>5 DEF RicAnswer, RicReceives
<1>7. ~Arms
    BY <1>6 DEF Arms
<1>8. PICK q : Stopped(q)
  <2>1. \E q \in pending : pending' = pending \ {q}
    BY <1>5 DEF RicAnswer, StopPendingEvent
  <2>. QED
    BY <1>7, <2>1, PendingStep
<1>9. q \in pending /\ q.rid = ricIn[1].rid /\ pending' = pending \ {q}
    BY <1>4, <1>8 DEF Stopped
<1>10. TimerOf(x, q)
    BY <1>3, <1>9 DEF TimerOf
<1>11. ~Clash
    BY <1>3 DEF NamesAt
<1>12. p = q
    BY <1>9, <1>10, <1>11 DEF OwnTimersInv
<1>. QED
    BY <1>9, <1>12

\* A request gets its timer when it is forwarded and loses it with its answer.
LEMMA UntimedStep ==
    ASSUME TypeOK, RoutingInv, OwnersInv, WaitsInv, OneTokenInv, OwnTimersInv, UntimedInv,
           [Next]_vars
    PROVE  UntimedInv'
<1>. SUFFICES ASSUME NEW x \in XApps, NEW t \in AnswerTypes, NEW h \in Nat, NEW s \in {0, 1, 6, 7},
                     NEW n \in Nodes, NEW i \in Nat, MsgAt(x, t, h, s, n, i)',
                     NEW p \in pending', TimerOf(x, p)'
              PROVE  FALSE
    BY DEF UntimedInv
<1>t. t \in E2Answers /\ Unique(x)
    BY DEF AnswerTypes, OneTokenInv
<1>u. \A s0 \in {0, 1, 6, 7}, i0 \in Nat : MsgAt(x, t, h, s0, n, i0) => \A q \in pending : ~TimerOf(x, q)
    BY DEF UntimedInv
<1>c. ~Clash'
    BY DEF TimerOf, NamesAt
<1>1. CASE Arms
  <2>1. PICK z \in XApps : Holder(z)
    BY <1>1, <1>c, NewTimer
  <2>2. IAppArms(x)
    BY <1>1, MoveStartTimer, MoveDeleteTimer DEF Arms
  <2>3. s # 6
    BY <1>t, <2>2 DEF IAppArms
  <2>4. MsgAt(x, t, h, s, n, i)
    <3>1. CASE s = 1
      BY <1>t, <2>2, <3>1 DEF IAppArms
    <3>2. CASE s \in {0, 7}
      BY <1>t, <2>2, <3>2 DEF IAppArms, Same
    <3>. QED
      BY <2>3, <3>1, <3>2
  <2>5. \A q \in pending : ~TimerOf(x, q)
    BY <1>u, <2>4
  <2>6. x = z
    BY <1>1, <2>1, <2>5, HeldTimer
  <2>7. /\ xop[x] = [ans |-> AnswerTo(imsg.type), h |-> imsg.h] /\ imsg.node \in Nodes
        /\ MsgAt(x, AnswerTo(imsg.type), imsg.h, 6, imsg.node, 0)
    BY <2>1, <2>6 DEF Holder
  <2>8. xop[x] = [ans |-> t, h |-> h]
    BY <2>4 DEF OneTokenInv
  <2>9. MsgAt(x, t, h, 6, imsg.node, 0)
    BY <2>7, <2>8
  <2>10. s = 6
    BY <1>t, <2>4, <2>7, <2>9, OnlyToken
  <2>. QED
    BY <2>3, <2>10
<1>2. CASE ~Arms
  <2>1. TimerOf(x, p) /\ p \in pending
    BY <1>2, OldTimer DEF TimerOf
  <2>2. CASE Follow(x)
    <3>1. PICK s0 \in 0 .. 7, i0 \in Nat : MsgAt(x, t, h, s0, n, i0) /\ CameFrom(s0, s)
      BY <2>2 DEF Follow
    <3>2. s0 \notin {0, 1, 6, 7}
      BY <1>u, <2>1, <3>1
    <3>3. s = 1 /\ rpc' = "lookup"
      BY <3>1, <3>2 DEF CameFrom
    <3>4. ~UNCHANGED ricVars
      <4>1. SUFFICES ASSUME UNCHANGED ricVars PROVE FALSE
        OBVIOUS
      <4>2. ~IAppStartTimer
        BY <1>2, PendingStep DEF Stopped
      <4>3. Same(x, {1})
        BY <4>1, <4>2, SameStages
      <4>4. MsgAt(x, t, h, 1, n, i)
        BY <1>t, <3>3, <4>3 DEF Same
      <4>. QED
        BY <1>u, <2>1, <4>4
    <3>. QED
      BY <2>1, <3>3, <3>4, LookupFrom, TakenUntimed
  <2>3. CASE NewToken(x)
    <3>1. xop[x] = NoOp
      BY <2>3 DEF NewToken, WaitsInv
    <3>. QED
      BY <2>1, <3>1, TimerOwner
  <2>. QED
    BY <1>t, <2>2, <2>3, FollowStep
<1>. QED
    BY <1>1, <1>2

-----------------------------------------------------------------------------
(* How many timers there are *)

\* Timers whose owners are all in U, but not a (if i = 1) and not b (if j = 1).
LEMMA Room ==
    ASSUME NEW P, NEW U, IsFiniteSet(U), NEW f \in [P -> U],
           \A p, q \in P : f[p] = f[q] => p = q,
           NEW i \in {0, 1}, NEW j \in {0, 1}, NEW a, NEW b,
           i = 1 => a \in U /\ \A p \in P : f[p] # a,
           j = 1 => b \in U /\ \A p \in P : f[p] # b,
           i = 1 /\ j = 1 => a # b
    PROVE  /\ IsFiniteSet(P) /\ Cardinality(P) \in Nat /\ Cardinality(U) \in Nat
           /\ Cardinality(P) + i + j <= Cardinality(U)
<1>1. ASSUME NEW V \in SUBSET U, \A p \in P : f[p] \in V
      PROVE  IsFiniteSet(P) /\ Cardinality(P) \in Nat /\ Cardinality(P) <= Cardinality(V)
  <2>1. f \in Injection(P, V)
    BY <1>1 DEF Injection, IsInjective
  <2>2. IsFiniteSet(V)
    BY FS_Subset
  <2>3. IsFiniteSet(P) /\ Cardinality(P) <= Cardinality(V)
    BY <2>1, <2>2, FS_Injection
  <2>. QED
    BY <2>3, FS_CardinalityType
<1>2. Cardinality(U) \in Nat
    BY FS_CardinalityType
<1>3. CASE i = 0 /\ j = 0
    BY <1>1, <1>2, <1>3
<1>4. ASSUME NEW c \in U, \A p \in P : f[p] # c
      PROVE  IsFiniteSet(P) /\ Cardinality(P) \in Nat /\ Cardinality(P) <= Cardinality(U) - 1
  <2>1. Cardinality(U \ {c}) = Cardinality(U) - 1
    BY FS_RemoveElement
  <2>2. \A p \in P : f[p] \in U \ {c}
    BY <1>4
  <2>. QED
    BY <1>1, <2>1, <2>2
<1>5. CASE i = 1 /\ j = 1
  <2>1. Cardinality(U \ {a}) = Cardinality(U) - 1 /\ IsFiniteSet(U \ {a})
    BY <1>5, FS_RemoveElement
  <2>2. b \in U \ {a}
    BY <1>5
  <2>3. Cardinality((U \ {a}) \ {b}) = Cardinality(U) - 1 - 1
    BY <2>1, <2>2, FS_RemoveElement
  <2>4. (U \ {a}) \ {b} \in SUBSET U /\ \A p \in P : f[p] \in (U \ {a}) \ {b}
    BY <1>5
  <2>5. /\ IsFiniteSet(P) /\ Cardinality(P) \in Nat
        /\ Cardinality(P) <= Cardinality((U \ {a}) \ {b})
    BY <1>1, <2>4
  <2>. QED
    BY <1>2, <1>5, <2>3, <2>5
<1>6. CASE i = 1 /\ j = 0
    BY <1>2, <1>4, <1>6
<1>7. CASE i = 0 /\ j = 1
    BY <1>2, <1>4, <1>7
<1>. QED
    BY <1>3, <1>5, <1>6, <1>7

\* A request whose token is neither at its xApp nor about to get there.
LEMMA NotDelivered ==
    ASSUME TypeOK, OneTokenInv, WaitsInv, NEW x \in XApps, NEW t \in AnswerTypes, NEW h \in Nat,
           NEW s \in 1 .. 7, NEW n \in Nodes, NEW i \in Nat, MsgAt(x, t, h, s, n, i),
           s = 1 => rpc # "notify"
    PROVE  x \in Unanswered
<1>s. s \in 0 .. 7
    OBVIOUS
<1>o. xop[x] = [ans |-> t, h |-> h] /\ xop[x] # NoOp
    BY <1>s, TokenOwner
<1>1. xop[x] = [ans |-> t, h |-> h] /\ xop[x] # NoOp /\ Unique(x)
    BY <1>o DEF OneTokenInv
<1>2. ASSUME NEW t2 \in AnswerTypes, NEW h2 \in Nat, NEW n2 \in Nodes, NEW i2 \in Nat,
             NEW s2 \in {0, 1}, MsgAt(x, t2, h2, s2, n2, i2)
      PROVE  s2 = s
  <2>1. xop[x] = [ans |-> t2, h |-> h2]
    BY <1>2 DEF OneTokenInv
  <2>2. MsgAt(x, t, h, s2, n2, i2)
    BY <1>1, <1>2, <2>1
  <2>. QED
    BY <1>1, <2>2, OnlyToken
<1>3. ~Delivered(x)
    BY <1>2 DEF Delivered
<1>. QED
    BY <1>1, <1>3 DEF Unanswered, InCall

\* The answer whose owner the RIC thread looks for has one.
LEMMA LookupOwner ==
    ASSUME TypeOK, RoutingInv, OwnersInv, ~Clash, rpc = "lookup", rmsg.type \in AnswerTypes
    PROVE  \E x \in XApps, h \in Nat : rmsg.node \in Nodes /\ MsgAt(x, rmsg.type, h, 1, rmsg.node, 0)
<1>1. Traced(rmsg.node, rmsg.rid, rmsg.rf, KindOf(rmsg.type))
    BY DEF RoutingInv, TracedInv
<1>2. PICK x \in XApps, h \in Nat : NamesAt(x, h, rmsg.node, rmsg.rid)
    BY <1>1, TracedIsNamed
<1>3. rmsg.node \in Nodes
    BY DEF TypeOK, TypeRic, ToRic
<1>4. MsgAt(x, rmsg.type, h, 1, rmsg.node, 0)
    BY <1>2 DEF MsgAt, RicFor
<1>. QED
    BY <1>3, <1>4

Few ==
    /\ IsFiniteSet(pending)
    /\ Load + (IF ipc = "timer" THEN 1 ELSE 0) <= Cardinality(Unanswered)

\* While no id is taken twice: each timer has an owner to be answered, which is
\* neither the one the iApp thread holds a request of nor the one the RIC thread
\* looks for.
LEMMA FewIfNamed ==
    TypeOK /\ RoutingInv /\ OwnersInv /\ WaitsInv /\ OneTokenInv /\ OwnTimersInv /\ UntimedInv
    /\ IsFiniteSet(InCall) => (~Clash => Few)
<1>. SUFFICES ASSUME TypeOK, RoutingInv, OwnersInv, WaitsInv, OneTokenInv, OwnTimersInv,
                     UntimedInv, IsFiniteSet(InCall), ~Clash
              PROVE  Few
    OBVIOUS
<1>. DEFINE f == [p \in pending |-> CHOOSE x \in XApps : TimerOf(x, p)]
<1>1. ASSUME NEW p \in pending PROVE f[p] \in XApps /\ TimerOf(f[p], p)
  <2>1. \E x \in XApps : TimerOf(x, p)
    BY DEF OwnTimersInv, TimerOf
  <2>. QED
    BY <2>1
<1>d. DOMAIN f = pending
    OBVIOUS
<1>i. f = [p \in pending |-> f[p]]
    OBVIOUS
<1>. HIDE DEF f
<1>2. \A p, q \in pending : f[p] = f[q] => p = q
    BY <1>1 DEF OwnTimersInv
<1>3. ASSUME NEW p \in pending PROVE f[p] \in Unanswered
  <2>1. xop[f[p]] # NoOp
    BY <1>1, TimerOwner
  <2>2. ~Delivered(f[p])
    BY <1>1 DEF Delivered, UntimedInv
  <2>. QED
    BY <1>1, <2>1, <2>2 DEF Unanswered, InCall
<1>4. f \in [pending -> Unanswered]
    BY <1>3, <1>i
<1>5. IsFiniteSet(Unanswered)
    BY FS_Subset DEF Unanswered
<1>. DEFINE i == IF rpc = "lookup" /\ rmsg.type \in AnswerTypes THEN 1 ELSE 0
            j == IF ipc = "timer" THEN 1 ELSE 0
            A(x) == \E t \in AnswerTypes, h \in Nat, n \in Nodes :
                      rpc = "lookup" /\ MsgAt(x, t, h, 1, n, 0)
            B(x) == \E t \in AnswerTypes, h \in Nat, n \in Nodes : MsgAt(x, t, h, 6, n, 0)
            a == CHOOSE x \in XApps : A(x)
            b == CHOOSE x \in XApps : B(x)
<1>6. ASSUME i = 1 PROVE a \in XApps /\ A(a)
  <2>1. \E x \in XApps : A(x)
    BY <1>6, LookupOwner
  <2>. HIDE DEF A
  <2>. QED
    BY <2>1
<1>7. ASSUME j = 1 PROVE b \in XApps /\ B(b)
  <2>1. \E x \in XApps : B(x)
    BY <1>7, HeldRequest
  <2>. HIDE DEF B
  <2>. QED
    BY <2>1
<1>l. Load = Cardinality(pending) + i
    BY DEF Load
<1>ij. i \in {0, 1} /\ j \in {0, 1} /\ (j = IF ipc = "timer" THEN 1 ELSE 0)
    OBVIOUS
<1>. HIDE DEF i, j, a, b
<1>8. ASSUME i = 1 PROVE a \in Unanswered /\ \A p \in pending : f[p] # a
  <2>1. PICK t \in AnswerTypes, h \in Nat, n \in Nodes : rpc = "lookup" /\ MsgAt(a, t, h, 1, n, 0)
    BY <1>6, <1>8
  <2>2. a \in Unanswered
    BY <1>6, <1>8, <2>1, NotDelivered
  <2>3. \A p \in pending : ~TimerOf(a, p)
    BY <1>6, <1>8, <2>1 DEF UntimedInv
  <2>. QED
    BY <1>1, <2>2, <2>3
<1>9. ASSUME j = 1 PROVE b \in Unanswered /\ \A p \in pending : f[p] # b
  <2>1. PICK t \in AnswerTypes, h \in Nat, n \in Nodes : MsgAt(b, t, h, 6, n, 0)
    BY <1>7, <1>9
  <2>2. b \in Unanswered
    BY <1>7, <1>9, <2>1, NotDelivered
  <2>3. \A p \in pending : ~TimerOf(b, p)
    BY <1>7, <1>9, <2>1 DEF UntimedInv
  <2>. QED
    BY <1>1, <2>2, <2>3
<1>10. ASSUME i = 1, j = 1 PROVE a # b
  <2>1. PICK t \in AnswerTypes, h \in Nat, n \in Nodes : MsgAt(a, t, h, 1, n, 0)
    BY <1>6, <1>10
  <2>2. PICK u \in AnswerTypes, g \in Nat, m \in Nodes : MsgAt(b, u, g, 6, m, 0)
    BY <1>7, <1>10
  <2>3. SUFFICES ASSUME a = b PROVE FALSE
    OBVIOUS
  <2>4. xop[a] = [ans |-> t, h |-> h] /\ xop[a] = [ans |-> u, h |-> g] /\ Unique(a)
    BY <1>6, <1>10, <2>1, <2>2, <2>3 DEF OneTokenInv
  <2>5. MsgAt(a, t, h, 6, m, 0)
    BY <2>2, <2>3, <2>4
  <2>6. 1 = 6
    BY <1>6, <1>10, <2>1, <2>4, <2>5, OnlyToken
  <2>. QED
    BY <2>6
<1>11. /\ IsFiniteSet(pending) /\ Cardinality(pending) \in Nat
       /\ Cardinality(Unanswered) \in Nat
       /\ Cardinality(pending) + i + j <= Cardinality(Unanswered)
    BY <1>2, <1>4, <1>5, <1>8, <1>9, <1>10, <1>ij, Room
<1>. QED
    BY <1>11, <1>l, <1>ij DEF Few

\* Only the RIC thread's lookup makes an answer one that is delivered.
LEMMA DeliveredStep ==
    ASSUME TypeOK, RoutingInv, OwnersInv, WaitsInv, OneTokenInv, [Next]_vars,
           ~RicLookup, NEW x \in XApps, Delivered(x)'
    PROVE  Delivered(x)
<1>n. rpc' = "notify" => rpc = "notify"
  <2>1. ASSUME RicThread PROVE rpc' = "notify" => rpc = "notify"
    BY <2>1 DEF RicThread, RicSetupRequest, RicAddNode, RicAcceptNode, RicAnswer, RicIndication,
         RicNotify, RicShutdown, RicEraseConn, RicRmNode, Abort, ricVars
  <2>2. ASSUME RicTimeout PROVE rpc' = rpc
    BY <2>2 DEF RicTimeout, vars, Abort, ricVars
  <2>3. ASSUME IAppThread PROVE rpc' = rpc
    BY <2>3, IAppFrames DEF IAppFrame, ricVars
  <2>4. ASSUME NEW n \in Nodes, AgentStep(n) PROVE rpc' = rpc
    BY <2>4, AgFrames DEF AgFrame, ricVars
  <2>5. ASSUME NEW y \in XApps, XAppStep(y) PROVE rpc' = rpc
    BY <2>5, XFrames DEF XFrame, ricVars
  <2>6. CASE UNCHANGED vars
    BY <2>6 DEF vars, ricVars
  <2>. QED
    BY <2>1, <2>2, <2>3, <2>4, <2>5, <2>6 DEF Next, AgentStep, XAppStep, XAppRequests
<1>1. PICK t \in AnswerTypes, h \in Nat, n \in Nodes, i \in Nat :
        MsgAt(x, t, h, 0, n, i)' \/ (rpc' = "notify" /\ MsgAt(x, t, h, 1, n, i)')
    BY DEF Delivered
<1>2. Unique(x)
    BY DEF OneTokenInv
<1>3. CASE Follow(x)
  <2>1. CASE MsgAt(x, t, h, 0, n, i)'
    <3>1. PICK s0 \in 0 .. 7, i0 \in Nat : MsgAt(x, t, h, s0, n, i0) /\ CameFrom(s0, 0)
      BY <1>3, <2>1 DEF Follow
    <3>2. s0 = 0 \/ (s0 = 1 /\ rpc = "notify")
      BY <3>1 DEF CameFrom
    <3>. QED
      BY <3>1, <3>2 DEF Delivered
  <2>2. CASE rpc' = "notify" /\ MsgAt(x, t, h, 1, n, i)'
    <3>1. PICK s0 \in 0 .. 7, i0 \in Nat : MsgAt(x, t, h, s0, n, i0) /\ CameFrom(s0, 1)
      BY <1>3, <2>2 DEF Follow
    <3>2. s0 = 1 /\ rpc = "notify"
      BY <1>n, <2>2, <3>1 DEF CameFrom
    <3>. QED
      BY <3>1, <3>2 DEF Delivered
  <2>. QED
    BY <1>1, <2>1, <2>2
<1>4. CASE NewToken(x)
  <2>1. PICK a \in AnswerTypes, g \in Nat, k \in Nodes : XAsks(x, a, g, k) /\ xst[x] = "idle"
    BY <1>4 DEF NewToken
  <2>2. ~MsgAt(x, t, h, 0, n, i)' /\ ~MsgAt(x, t, h, 1, n, i)'
    BY <2>1, NewTokenOnly
  <2>. QED
    BY <1>1, <2>2
<1>. QED
    BY <1>2, <1>3, <1>4, FollowStep

\* An operation without answer stays so while the RIC thread looks up none.
LEMMA UnansweredStays ==
    ASSUME TypeOK, RoutingInv, OwnersInv, WaitsInv, OneTokenInv, [Next]_vars,
           ~RicLookup
    PROVE  Unanswered \subseteq Unanswered'
<1>. SUFFICES ASSUME NEW x \in Unanswered PROVE x \in Unanswered'
    OBVIOUS
<1>1. x \in XApps /\ xop[x] # NoOp /\ ~Delivered(x)
    BY DEF Unanswered, InCall
<1>2. ~Delivered(x)'
    BY <1>1, DeliveredStep
<1>3. xst[x] # "idle"
    BY <1>1 DEF WaitsInv
<1>4. ~XAppAnswer(x)
  <2>1. SUFFICES ASSUME XAppAnswer(x) PROVE FALSE
    OBVIOUS
  <2>2. \E t \in AnswerTypes, h \in Nat, n \in Nodes : MsgAt(x, t, h, 0, n, 1)
    BY <1>1, <2>1, AnswerAtHead
  <2>. QED
    BY <1>1, <2>2 DEF Delivered
<1>5. xop'[x] = xop[x]
    BY <1>1, <1>3, <1>4, WaitKept
<1>. QED
    BY <1>1, <1>2, <1>5 DEF Unanswered, InCall

\* One xApp at a time starts to wait.
LEMMA InCallFinite ==
    ASSUME TypeOK, [Next]_vars, IsFiniteSet(InCall)
    PROVE  IsFiniteSet(InCall')
<1>1. \E y : InCall' \subseteq InCall \cup {y}
  <2>1. ASSUME NEW y \in XApps, XAppStep(y) PROVE InCall' \subseteq InCall \cup {y}
    <3>1. \A x \in XApps : x # y => xop'[x] = xop[x]
      <4>1. CASE XAppAbort(y)
        BY <4>1 DEF XAppAbort
      <4>2. CASE XAppLoop(y) /\ ~XAppAbort(y)
        BY <4>2 DEF XAppLoop, XAppTimeout, XAppSetupResponse, XAppAnswer, XAppIndication, TypeOK, TypeXApps
      <4>3. CASE XAppStart(y) \/ XAppResendSetup(y)
        BY <4>3 DEF XAppStart, XAppResendSetup
      <4>4. CASE XAppUnsubscribe(y)
        BY <4>4 DEF XAppUnsubscribe, TypeOK, TypeXApps
      <4>5. CASE XAppRequests(y)
        BY <4>5 DEF XAppRequests, XAppRequest, TypeOK, TypeXApps
      <4>. QED
        BY <2>1, <4>1, <4>2, <4>3, <4>4, <4>5 DEF XAppStep
    <3>. QED
      BY <3>1 DEF InCall
  <2>2. ASSUME xop' = xop PROVE InCall' = InCall
    BY <2>2 DEF InCall
  <2>3. CASE RicThread \/ RicTimeout
    BY <2>2, <2>3, RicFrames DEF RicFrame
  <2>4. CASE IAppThread
    BY <2>2, <2>4, IAppFrames DEF IAppFrame
  <2>5. ASSUME NEW n \in Nodes, AgentStep(n) PROVE InCall' = InCall
    BY <2>2, <2>5, AgFrames DEF AgFrame, xVars
  <2>6. CASE UNCHANGED vars
    BY <2>2, <2>6 DEF vars, xVars
  <2>. QED
    BY <2>1, <2>3, <2>4, <2>5, <2>6 DEF Next, AgentStep, XAppStep, XAppRequests
<1>2. PICK y : InCall' \subseteq InCall \cup {y}
    BY <1>1
<1>3. IsFiniteSet(InCall \cup {y})
    BY FS_AddElement
<1>. QED
    BY <1>2, <1>3, FS_Subset

\* pend_event's assert fails with two timers.
LEMMA TimeoutAbort ==
    ASSUME TypeOK, [Next]_vars, ricAbort' = "pending size is 1", ricAbort' # ricAbort
    PROVE  RicTimeout /\ Cardinality(pending) # 1 /\ pending # {} /\ ~RicLookup
<1>1. ASSUME RicThread PROVE FALSE
    BY <1>1 DEF RicThread, RicSetupRequest, RicAddNode, RicAcceptNode, RicAnswer, RicIndication,
         RicLookup, RicNotify, RicShutdown, RicEraseConn, RicRmNode, Abort
<1>2. ASSUME IAppThread PROVE FALSE
    BY <1>2 DEF IAppThread, Abort, IAppSetupRequest, IAppRegXApp, IAppSetupResponse,
         IAppRequest, IAppLock, IAppStartTimer, IAppForward, IAppAddMap, IAppDelete, IAppDeleteTimer
<1>3. ASSUME NEW n \in Nodes, AgentStep(n) PROVE FALSE
    BY <1>3, AgFrames DEF AgFrame
<1>4. ASSUME NEW y \in XApps, XAppStep(y) PROVE FALSE
    BY <1>4, XFrames DEF XFrame
<1>5. RicTimeout
    BY <1>1, <1>2, <1>3, <1>4 DEF Next, vars, AgentStep, XAppStep, XAppRequests
<1>6. ~RicLookup
    BY <1>5 DEF RicTimeout, RicLookup
<1>. QED
    BY <1>5, <1>6 DEF RicTimeout, vars

\* A set of at least two elements has two that differ.
LEMMA TwoElements ==
    ASSUME NEW S, IsFiniteSet(S), Cardinality(S) >= 2
    PROVE  \E x, y \in S : x # y
<1>1. Cardinality(S) \in Nat
    BY FS_CardinalityType
<1>2. S # {}
    BY FS_EmptySet
<1>3. PICK x : x \in S
    BY <1>2
<1>4. Cardinality(S) # 1
    OBVIOUS
<1>5. S # {x}
    BY <1>4, FS_Singleton
<1>. QED
    BY <1>3, <1>5

\* Without a new timer and without a lookup the load does not grow.
LEMMA LoadKept ==
    ASSUME TypeOK, [Next]_vars, ~Arms, IsFiniteSet(pending)
    PROVE  IsFiniteSet(pending') /\ Load' <= Load /\ Load' \in Nat /\ Load \in Nat
<1>1. Cardinality(pending) \in Nat
    BY FS_CardinalityType
<1>2. ASSUME NEW q, Stopped(q) PROVE IsFiniteSet(pending') /\ Load' <= Load /\ Load' \in Nat /\ Load \in Nat
  <2>1. /\ q \in pending /\ pending' = pending \ {q} /\ rpc' = "lookup" /\ rpc = "idle"
    BY <1>2 DEF Stopped, RicAnswer, RicReceives
  <2>2. IsFiniteSet(pending') /\ Cardinality(pending') = Cardinality(pending) - 1
    BY <2>1, FS_RemoveElement
  <2>3. Cardinality(pending') \in Nat
    BY <2>2, FS_CardinalityType
  <2>. QED
    BY <1>1, <2>1, <2>2, <2>3 DEF Load
<1>3. CASE pending' = pending
  <2>1. rpc' = "lookup" /\ rmsg'.type \in AnswerTypes => rpc = "lookup" /\ rmsg.type \in AnswerTypes
    <3>1. CASE rpc' = "lookup" /\ rmsg'.type \in AnswerTypes /\ ~UNCHANGED ricVars
      <4>1. (RicAnswer \/ RicIndication) /\ ~(\E why : Abort(why))
        BY <3>1, LookupFrom
      <4>2. ~RicIndication
        BY <3>1 DEF RicIndication, RicReceives, AnswerTypes
      <4>3. \E q \in pending : pending' = pending \ {q}
        BY <4>1, <4>2 DEF RicAnswer, StopPendingEvent
      <4>. QED
        BY <1>3, <4>3
    <3>2. CASE UNCHANGED ricVars
      BY <3>2 DEF ricVars
    <3>. QED
      BY <3>1, <3>2
  <2>. QED
    BY <1>1, <1>3, <2>1 DEF Load
<1>. QED
    BY <1>2, <1>3, PendingStep

\* There stay no more timers than operations to answer.
\* While an id is taken twice the mutex keeps the RIC thread from any lookup.
LEMMA FewTimersStep ==
    ASSUME TypeOK, RoutingInv, OwnersInv, WaitsInv, OneTokenInv, OwnTimersInv, UntimedInv,
           FewTimersInv, [Next]_vars,
           TypeOK', RoutingInv', OwnersInv', WaitsInv', OneTokenInv', OwnTimersInv', UntimedInv'
    PROVE  FewTimersInv'
<1>w. IsFiniteSet(InCall) /\ IsFiniteSet(InCall')
    BY InCallFinite DEF FewTimersInv
<1>u. /\ IsFiniteSet(Unanswered) /\ IsFiniteSet(Unanswered')
      /\ Cardinality(Unanswered) \in Nat /\ Cardinality(Unanswered') \in Nat
  <2>1. Unanswered \in SUBSET InCall /\ Unanswered' \in SUBSET InCall'
    BY DEF Unanswered
  <2>2. IsFiniteSet(Unanswered) /\ IsFiniteSet(Unanswered')
    BY <1>w, <2>1, FS_Subset
  <2>. QED
    BY <2>2, FS_CardinalityType
<1>p. IsFiniteSet(pending) /\ Cardinality(pending) \in Nat /\ Load <= Cardinality(Unanswered)
    BY FS_CardinalityType DEF FewTimersInv
<1>k. ASSUME ~RicLookup
      PROVE  Unanswered \subseteq Unanswered' /\ Cardinality(Unanswered) <= Cardinality(Unanswered')
  <2>1. Unanswered \subseteq Unanswered'
    BY <1>k, UnansweredStays
  <2>2. Unanswered \in SUBSET Unanswered'
    BY <2>1
  <2>. QED
    BY <1>u, <2>1, <2>2, FS_Subset
<1>1. IsFiniteSet(pending') /\ Load' <= Cardinality(Unanswered')
  <2>1. CASE ~Clash'
    <3>1. IsFiniteSet(InCall)'
      BY <1>w
    <3>2. (~Clash => Few)'
      BY <3>1, FewIfNamed, PTL
    <3>3. IsFiniteSet(pending')
      BY <2>1, <3>2 DEF Few
    <3>4. Cardinality(pending') \in Nat
      BY <3>3, FS_CardinalityType
    <3>5. Load' \in Nat
      BY <3>4 DEF Load
    <3>6. Load' + (IF ipc' = "timer" THEN 1 ELSE 0) <= Cardinality(Unanswered')
      BY <2>1, <3>2 DEF Few
    <3>. QED
      BY <1>u, <3>3, <3>5, <3>6
  <2>2. CASE Clash
    <3>1. ipc \in {"send", "add_map"} /\ imsg.type \in {"SUB_REQ", "CTRL_REQ"}
      BY <2>2 DEF Clash, InFlight
    <3>2. mtx = "iapp"
      BY <3>1 DEF RoutingInv, MutexInv
    <3>3. ~RicLookup /\ ~Arms
      BY <3>1, <3>2 DEF RicLookup, Arms
    <3>. QED
      BY <1>k, <1>p, <1>u, <3>3, LoadKept
  <2>3. CASE ~Clash /\ Clash'
    <3>1. IAppStartTimer
      BY <2>3, EntriesKept
    <3>2. ipc = "timer" /\ ~IAppDeleteTimer
      BY <3>1 DEF IAppStartTimer, IAppDeleteTimer
    <3>3. Arms
      BY <3>1, PendingStep
    <3>4. Few
      BY <1>w, <2>3, FewIfNamed
    <3>5. Load + 1 <= Cardinality(Unanswered)
      BY <3>2, <3>4 DEF Few
    <3>6. pending' = pending \cup {NewEvent} /\ rpc' = rpc /\ rmsg' = rmsg
      BY <3>3 DEF Arms
    <3>a. /\ IsFiniteSet(pending \cup {NewEvent})
          /\ Cardinality(pending \cup {NewEvent}) =
               IF NewEvent \in pending THEN Cardinality(pending) ELSE Cardinality(pending) + 1
      <4>. HIDE DEF NewEvent
      <4>. QED
        BY <1>p, FS_AddElement
    <3>7. IsFiniteSet(pending') /\ Cardinality(pending') <= Cardinality(pending) + 1
      BY <1>p, <3>6, <3>a
    <3>8. Cardinality(pending') \in Nat
      BY <3>7, FS_CardinalityType
    <3>9. Load' <= Load + 1 /\ Load' \in Nat /\ Load \in Nat
      BY <1>p, <3>6, <3>7, <3>8 DEF Load
    <3>10. ~RicLookup
      <4>1. reqId' = reqId + 1 /\ reqId \in Nat
        BY <3>1 DEF IAppStartTimer, TypeOK, TypeShared
      <4>2. RicLookup => reqId' = reqId
        BY DEF RicLookup, Abort, shared
      <4>. QED
        BY <4>1, <4>2
    <3>. QED
      BY <1>k, <1>u, <3>5, <3>7, <3>9, <3>10
  <2>. QED
    BY <2>1, <2>2, <2>3
<1>2. ASSUME ricAbort' = "pending size is 1" PROVE \E x, y \in Unanswered' : x # y
  <2>1. CASE ricAbort = "pending size is 1"
    <3>1. ~RicLookup
      BY <2>1 DEF RicLookup, RicUp
    <3>2. PICK x \in Unanswered, y \in Unanswered : x # y
      BY <2>1 DEF FewTimersInv
    <3>. QED
      BY <1>k, <3>1, <3>2
  <2>2. CASE ricAbort # "pending size is 1"
    <3>1. RicTimeout /\ Cardinality(pending) # 1 /\ pending # {} /\ ~RicLookup
      BY <1>2, <2>2, TimeoutAbort
    <3>2. Cardinality(pending) # 0
      BY <1>p, <3>1, FS_EmptySet
    <3>3. Cardinality(pending) >= 2
      BY <1>p, <3>1, <3>2
    <3>4. Load >= 2 /\ Load \in Nat
      BY <1>p, <3>3 DEF Load
    <3>5. Cardinality(Unanswered) >= 2
      BY <1>p, <1>u, <3>4
    <3>6. PICK x \in Unanswered, y \in Unanswered : x # y
      BY <1>u, <3>5, TwoElements
    <3>. QED
      BY <1>k, <3>1, <3>6
  <2>. QED
    BY <2>1, <2>2
<1>. QED
    BY <1>1, <1>2, <1>w DEF FewTimersInv

-----------------------------------------------------------------------------
(* Every open request has a timer *)

\* What is open was so before, in the same or in another place.
Opens(ev, rid, f) ==
    Open(ev, rid, f)' \subseteq Open(ev, rid, f) \/ \E g : Moved(ev, rid, f, g)

\* The RIC thread opens no request.
LEMMA RicOpens ==
    ASSUME TypeOK, RicThread \/ RicTimeout, NEW ev \in RequestTypes, NEW rid, NEW f
    PROVE  Opens(ev, rid, f)
<1>i. UNCHANGED iappVars
    BY RicFrames DEF RicFrame
<1>1. CASE RicAcceptNode
  <2>1. /\ ricIn' = ricIn /\ rmsg.node \in Nodes
        /\ SendToNode(rmsg.node, [type |-> "SETUP_RESP"])
    BY <1>1 DEF RicAcceptNode, TypeOK, TypeRic, ToRic
  <2>2. \A n \in Nodes : \/ agIn'[n] = agIn[n]
                         \/ agIn'[n] = Append(agIn[n], [type |-> "SETUP_RESP"])
    BY <2>1 DEF SendToNode, TypeOK, TypeAgents
  <2>. QED
    BY <1>i, <2>1, <2>2, NothingOpens DEF Opens
<1>2. CASE ricIn # <<>> /\ ricIn' = Tail(ricIn) /\ ~RicAcceptNode
  <2>1. agIn' = agIn
    BY <1>2 DEF RicThread, RicTimeout, RicSetupRequest, RicAddNode, RicAnswer, RicIndication,
         RicLookup, RicNotify, RicShutdown, RicEraseConn, RicRmNode, Abort, agVars, vars
  <2>2. \E g : Moved(ev, rid, f, g)
    BY <1>2, <1>i, <2>1, RicTakesOpen
  <2>. QED
    BY <2>2 DEF Opens
<1>3. CASE ricIn' = ricIn /\ ~RicAcceptNode
  <2>1. agIn' = agIn
    BY <1>3 DEF RicThread, RicTimeout, RicSetupRequest, RicAddNode, RicAnswer, RicIndication,
         RicLookup, RicNotify, RicShutdown, RicEraseConn, RicRmNode, Abort, agVars, vars
  <2>. QED
    BY <1>3, <1>i, <2>1, NothingOpens DEF Opens
<1>. QED
    BY <1>1, <1>2, <1>3, RicNodeFrames

\* The iApp thread opens none unless it creates a timer.
LEMMA IAppOpens ==
    ASSUME TypeOK, IAppThread, ~IAppStartTimer, ~IAppDeleteTimer,
           NEW ev \in RequestTypes, NEW rid, NEW f
    PROVE  Opens(ev, rid, f)
<1>1. CASE IAppForward /\ ~\E why : Abort(why)
    BY <1>1, IAppSendsOpen DEF Opens
<1>2. CASE \E why : Abort(why)
  <2>1. UNCHANGED <<ricIn, agIn, iappVars>>
    BY <1>2 DEF Abort, agVars
  <2>. QED
    BY <2>1, NothingOpens DEF Opens
<1>3. CASE ~IAppForward /\ ~\E why : Abort(why)
  <2>1. UNCHANGED <<ricIn, agIn>> /\ ipc' # "send"
    BY <1>3 DEF IAppThread, IAppSetupRequest, IAppRegXApp, IAppSetupResponse,
         IAppRequest, IAppLock, IAppAddMap, IAppDelete, agVars
  <2>. QED
    BY <2>1, NothingOpens DEF Opens
<1>. QED
    BY <1>1, <1>2, <1>3

\* Nodes open none: an answer takes the place of its request.
LEMMA AgentOpens ==
    ASSUME TypeOK, NEW k \in Nodes, AgentStep(k), NEW ev \in RequestTypes, NEW rid, NEW f
    PROVE  Opens(ev, rid, f)
<1>i. UNCHANGED iappVars
    BY AgFrames DEF AgFrame
<1>q. \A n \in Nodes : agIn[n] \in Seq(ToAgent)
    BY DEF TypeOK, TypeAgents
<1>a. assoc \in [Nodes -> Nat]
    BY DEF TypeOK, TypeAgents
<1>1. CASE AgStart(k) \/ AgResendSetup(k)
  <2>1. PICK a \in Nat : ricIn' = Append(ricIn, SetupRequest(k, a))
    BY <1>1, <1>a DEF AgStart, AgResendSetup, AgSend
  <2>2. SetupRequest(k, a) \in ToRic /\ SetupRequest(k, a).type \notin AnswerTypes
    BY DEF SetupRequest, ToRic, AnswerTypes, E2Answers
  <2>3. agIn' = agIn
    BY <1>1 DEF AgStart, AgResendSetup
  <2>. QED
    BY <1>i, <2>1, <2>2, <2>3, NothingOpens DEF Opens
<1>2. CASE AgIndication(k)
  <2>1. PICK s \in agSubs[k] : ricIn' = Append(ricIn, [type |-> "IND", node |-> k, rid |-> s.rid, rf |-> s.rf])
    BY <1>2 DEF AgIndication, AgSend
  <2>2. s \in [rid : ReqIds, rf : RanFuncs]
    BY <2>1 DEF TypeOK, TypeAgents
  <2>. DEFINE m == [type |-> "IND", node |-> k, rid |-> s.rid, rf |-> s.rf]
  <2>3. m \in ToRic /\ m.type \notin AnswerTypes
    BY <2>2 DEF ToRic, AnswerTypes, E2Answers
  <2>4. agIn' = agIn
    BY <1>2 DEF AgIndication
  <2>. QED
    BY <1>i, <2>1, <2>3, <2>4, NothingOpens DEF Opens
<1>3. ASSUME NEW u, AgClose(k, u) PROVE Opens(ev, rid, f)
  <2>. DEFINE m == [type |-> "SHUTDOWN", node |-> k, assoc |-> assoc[k]]
  <2>1. m \in ToRic /\ m.type \notin AnswerTypes
    BY <1>a DEF ToRic, AnswerTypes, E2Answers
  <2>2. ricIn' = ricIn \/ ricIn' = Append(ricIn, m)
    BY <1>3 DEF AgClose, AgSend
  <2>3. \A n \in Nodes : agIn'[n] = agIn[n] \/ agIn'[n] = <<>>
    BY <1>3 DEF AgClose, TypeOK, TypeAgents
  <2>. QED
    BY <1>i, <2>1, <2>2, <2>3, NothingOpens DEF Opens
<1>4. CASE AgStop(k) \/ AgAbort(k)
    BY <1>3, <1>4 DEF AgStop, AgAbort
<1>5. CASE AgSetupResponse(k) /\ ~AgAbort(k)
  <2>1. agIn[k] # <<>> /\ agIn' = [agIn EXCEPT ![k] = Tail(@)] /\ ricIn' = ricIn
    BY <1>5 DEF AgSetupResponse, AgReceives, AgConsume
  <2>2. \E g : Moved(ev, rid, f, g)
    BY <1>i, <2>1, AgTakesOpen
  <2>. QED
    BY <2>2 DEF Opens
<1>6. CASE (AgSubscription(k) \/ AgDelete(k) \/ AgControl(k)) /\ ~AgAbort(k)
  <2>1. /\ agIn[k] # <<>> /\ agIn' = [agIn EXCEPT ![k] = Tail(@)]
        /\ Head(agIn[k]).type \in RequestTypes
        /\ ricIn' = Append(ricIn, [type |-> AnswerTo(Head(agIn[k]).type), node |-> k,
                                   rid |-> Head(agIn[k]).rid, rf |-> Head(agIn[k]).rf])
    BY <1>6 DEF AgSubscription, AgDelete, AgControl, AgReceives, AgAnswer, AgConsume, AgSend,
         RequestTypes
  <2>2. \E g : Moved(ev, rid, f, g)
    BY <1>i, <2>1, AgTakesOpen
  <2>. QED
    BY <2>2 DEF Opens
<1>. QED
    BY <1>1, <1>2, <1>4, <1>5, <1>6 DEF AgentStep, AgentLoop

\* Only the creation of a timer opens a request.
LEMMA OpenStep ==
    ASSUME TypeOK, [Next]_vars, ~Arms, NEW ev \in RequestTypes, NEW rid, NEW f
    PROVE  Opens(ev, rid, f)
<1>0. ~IAppStartTimer /\ ~IAppDeleteTimer
    BY PendingStep
<1>1. ASSUME NEW x \in XApps, XAppStep(x) PROVE Opens(ev, rid, f)
  <2>1. UNCHANGED <<ricIn, agIn, iappVars>>
    BY <1>1, XFrames DEF XFrame, agVars
  <2>. QED
    BY <2>1, NothingOpens DEF Opens
<1>2. CASE UNCHANGED vars
  <2>1. UNCHANGED <<ricIn, agIn, iappVars>>
    BY <1>2 DEF vars, agVars
  <2>. QED
    BY <2>1, NothingOpens DEF Opens
<1>. QED
    BY <1>0, <1>1, <1>2, RicOpens, IAppOpens, AgentOpens
    DEF Next, AgentStep, XAppStep, XAppRequests

\* The request whose timer is created is the only one that opens.
LEMMA ArmsOpen ==
    ASSUME TypeOK, Arms, NEW ev, NEW rid, NEW f
    PROVE  /\ Open(ev, rid, f)' \subseteq Open(ev, rid, f) \cup {<<5, imsg.node, 0>>}
           /\ ~(ev = imsg.type /\ rid = irid' /\ f = imsg.rf) =>
                Open(ev, rid, f)' \subseteq Open(ev, rid, f)
<1>1. ricIn' = ricIn /\ agIn' = agIn /\ imsg' = imsg
    BY DEF Arms
<1>2. ASSUME NEW n \in Nodes, NEW i \in Nat
      PROVE  /\ <<2, n, i>> \in Open(ev, rid, f)' => <<2, n, i>> \in Open(ev, rid, f)
             /\ <<4, n, i>> \in Open(ev, rid, f)' => <<4, n, i>> \in Open(ev, rid, f)
             /\ <<5, n, i>> \in Open(ev, rid, f)' =>
                  n = imsg.node /\ i = 0 /\ ev = imsg.type /\ rid = irid' /\ f = imsg.rf
    BY <1>1 DEF Open
<1>3. ASSUME NEW a \in Open(ev, rid, f)', a \notin Open(ev, rid, f)
      PROVE  a = <<5, imsg.node, 0>> /\ ev = imsg.type /\ rid = irid' /\ f = imsg.rf
  <2>1. PICK n \in Nodes, i \in Nat : a \in {<<2, n, i>>, <<4, n, i>>, <<5, n, i>>}
    BY OpenIsPlace
  <2>2. a = <<5, n, i>>
    BY <1>2, <1>3, <2>1
  <2>3. n = imsg.node /\ i = 0 /\ ev = imsg.type /\ rid = irid' /\ f = imsg.rf
    BY <1>2, <1>3, <2>2
  <2>. QED
    BY <2>2, <2>3
<1>. QED
    BY <1>3

\* While its deletion waits for its timer a subscription has no other open.
LEMMA OneDelete ==
    ASSUME TypeOK, RoutingInv, OwnersInv, OneTokenInv, ~Clash, ipc = "del_timer", NEW f
    PROVE  Open("DEL_REQ", irid, f) = {}
<1>. SUFFICES ASSUME NEW a \in Open("DEL_REQ", irid, f) PROVE FALSE
    OBVIOUS
<1>t. /\ imsg.type = "DEL_REQ" /\ AnswerTo("DEL_REQ") = "DEL_RESP"
      /\ "DEL_REQ" \in RequestTypes /\ "DEL_RESP" \in AnswerTypes
    BY DEF TypeOK, TypeIApp, AnswerTo, RequestTypes, AnswerTypes, E2Answers
<1>1. PICK n \in Nodes, i \in Nat : a \in {<<2, n, i>>, <<4, n, i>>, <<5, n, i>>}
    BY OpenIsPlace
<1>2. PICK s \in {2, 4, 5} : a = <<s, n, i>>
    BY <1>1
<1>3. PICK x \in XApps, h \in Nat : /\ NamesAt(x, h, n, irid) /\ s \in 0 .. 7
                                    /\ MsgAt(x, "DEL_RESP", h, s, n, i)
    BY <1>2, <1>t, OpenIsToken
<1>4. PICK y \in XApps :
        /\ Registered(y) /\ xid[y] = imsg.xid /\ imsg.h \in Nat /\ imsg.node \in Nodes
        /\ MsgAt(y, "DEL_RESP", imsg.h, 6, imsg.node, 0)
    BY <1>t, HeldRequest
<1>5. PICK e \in mapRicId : e.rid = irid /\ e.node = imsg.node /\ e.xid = imsg.xid
                            /\ e.h = imsg.h
    BY DEF OwnersInv
<1>6. NamesAt(y, imsg.h, imsg.node, irid)
    BY <1>4, <1>5 DEF NamesAt
<1>7. x = y /\ h = imsg.h
    BY <1>3, <1>6, NamesUnique
<1>8. MsgAt(x, "DEL_RESP", h, 6, imsg.node, 0) /\ Unique(x)
    BY <1>4, <1>7 DEF OneTokenInv
<1>9. s = 6
    BY <1>3, <1>4, <1>8, <1>t, OnlyToken
<1>. QED
    BY <1>2, <1>9

\* The request that opens has the timer that was created for it.
LEMMA ArmedStart ==
    ASSUME TypeOK, RoutingInv, OwnersInv, OneTokenInv, AgesInv, ArmedInv, [Next]_vars, Arms,
           NEW ev \in RequestTypes, NEW rid \in ReqIds, NEW f \in RanFuncs
    PROVE  Paired(Open(ev, rid, f)', Armed(ev, rid, f)')
<1>. DEFINE S == Open(ev, rid, f)
            P == Armed(ev, rid, f)
            c == <<5, imsg.node, 0>>
<1>1. pending' = pending \cup {NewEvent} /\ ipc \in {"timer", "del_timer"}
    BY DEF Arms
<1>2. P \subseteq P' /\ Paired(S, P)
    BY <1>1 DEF Armed, ArmedInv
<1>3. CASE ~(ev = imsg.type /\ rid = irid' /\ f = imsg.rf)
  <2>1. S' \subseteq S
    BY <1>3, ArmsOpen
  <2>. HIDE DEF S, P
  <2>2. Paired(S', P')
    BY <1>2, <2>1, PairedLess
  <2>. QED
    BY <2>2 DEF S, P
<1>4. CASE ev = imsg.type /\ rid = irid' /\ f = imsg.rf
  <2>1. S' \subseteq S \cup {c}
    BY ArmsOpen
  <2>2. NewEvent.ev = ev /\ NewEvent.rid = rid /\ NewEvent.rf = f /\ NewEvent.fd = reqId
    BY <1>4 DEF NewEvent
  <2>3. P' = P \cup {NewEvent}
    BY <1>1, <2>2 DEF Armed
  <2>c. ~Clash
    <3>1. InFlight = {}
      BY <1>1 DEF InFlight
    <3>. QED
      BY <3>1 DEF Clash
  <2>4. CASE ipc = "timer"
    <3>1. ev # "DEL_REQ"
      BY <1>4, <2>4 DEF TypeOK, TypeIApp
    <3>2. NewEvent \notin P
      <4>1. SUFFICES ASSUME NewEvent \in P PROVE FALSE
        OBVIOUS
      <4>2. NewEvent.fd < reqId
        BY <2>2, <3>1, <4>1 DEF Armed, AgesInv
      <4>. QED
        BY <2>2, <4>2 DEF TypeOK, TypeShared
    <3>3. \A a, b \in S : a = b
      BY <2>c, OneOpen
    <3>. HIDE DEF S, P, c, NewEvent
    <3>4. Paired(S \cup {c}, P \cup {NewEvent})
      BY <1>2, <3>2, <3>3, PairedStart
    <3>5. Paired(S', P')
      BY <2>1, <2>3, <3>4, PairedLess
    <3>. QED
      BY <3>5 DEF S, P
  <2>5. CASE ipc = "del_timer"
    <3>1. ev = "DEL_REQ" /\ rid = irid
      <4>1. ~IAppStartTimer
        BY <2>5 DEF IAppStartTimer
      <4>2. irid' = irid
        BY <4>1 DEF Arms, IAppDeleteTimer
      <4>. QED
        BY <1>4, <2>5, <4>2 DEF TypeOK, TypeIApp
    <3>2. S = {}
      BY <2>5, <2>c, <3>1, OneDelete
    <3>3. S' \subseteq {c} /\ P' # {}
      BY <2>1, <2>3, <3>2
    <3>. HIDE DEF S, P, c
    <3>4. Paired(S', P')
      BY <3>3 DEF Paired
    <3>. QED
      BY <3>4 DEF S, P
  <2>. QED
    BY <1>1, <2>4, <2>5
<1>. QED
    BY <1>3, <1>4

\* The answer at the head of the queue of the RIC thread is open.
LEMMA HeadIsOpen ==
    ASSUME TypeOK, ricIn # <<>>, NEW ev \in RequestTypes, AnswerTo(ev) = Head(ricIn).type
    PROVE  /\ <<2, Head(ricIn).node, 1>> \in Open(ev, Head(ricIn).rid, Head(ricIn).rf)
           /\ Head(ricIn).rid \in ReqIds /\ Head(ricIn).rf \in RanFuncs /\ Head(ricIn).node \in Nodes
<1>. DEFINE m == Head(ricIn)
<1>1. m = ricIn[1] /\ 1 \in DOMAIN ricIn /\ m \in ToRic
    BY TailElements DEF TypeOK, TypeSockets
<1>2. m.type \in E2Answers
    BY AnswerTypesOf
<1>3. m \in [type : E2Answers, node : Nodes, rid : ReqIds, rf : RanFuncs]
    BY <1>1, <1>2 DEF ToRic, E2Answers
<1>4. m = [type |-> AnswerTo(ev), node |-> m.node, rid |-> m.rid, rf |-> m.rf]
    BY <1>3
<1>5. ricIn[1] = [type |-> AnswerTo(ev), node |-> m.node, rid |-> m.rid, rf |-> m.rf]
    BY <1>1, <1>4
<1>. HIDE DEF m
<1>6. <<2, m.node, 1>> \in Open(ev, m.rid, m.rf)
    BY <1>1, <1>3, <1>5 DEF Open
<1>. QED
    BY <1>3, <1>6 DEF m

\* The request that ends takes one timer of its id with it.
LEMMA ArmedStop ==
    ASSUME TypeOK, ArmedInv, NEW q, Stopped(q),
           NEW ev \in RequestTypes, NEW rid \in ReqIds, NEW f \in RanFuncs
    PROVE  Paired(Open(ev, rid, f)', Armed(ev, rid, f)')
<1>. DEFINE S == Open(ev, rid, f)
            P == Armed(ev, rid, f)
            a == <<2, Head(ricIn).node, 1>>
<1>1. /\ ricIn # <<>> /\ ricIn' = Tail(ricIn) /\ UNCHANGED <<agIn, iappVars>>
      /\ q \in pending /\ q.rid = Head(ricIn).rid /\ q.rf = Head(ricIn).rf
      /\ q.ev \in RequestTypes /\ AnswerTo(q.ev) = Head(ricIn).type
      /\ pending' = pending \ {q}
    BY DEF Stopped
<1>2. PICK g : Moved(ev, rid, f, g) /\ Behind(ev, rid, f, g)
    BY <1>1, RicTakesOpen
<1>3. (\A b \in S' : g[b] \in S) /\ (\A b, d \in S' : g[b] = g[d] => b = d)
    BY <1>2 DEF Moved
<1>4. Paired(S, P)
    BY DEF ArmedInv
<1>5. CASE q.ev = ev /\ q.rid = rid /\ q.rf = f
  <2>1. a \in S /\ Head(ricIn).node \in Nodes
    BY <1>1, <1>5, HeadIsOpen
  <2>2. q \in P /\ P' = P \ {q}
    BY <1>1, <1>5 DEF Armed
  <2>3. \A b \in S' : g[b] \in S \ {a}
    BY <1>2, <1>3, <2>1 DEF Behind
  <2>. HIDE DEF S, P, a
  <2>4. Paired(S \ {a}, P \ {q})
    BY <1>4, <2>1, <2>2, PairedEnd
  <2>5. Paired(S', P')
    BY <1>3, <2>2, <2>3, <2>4, PairedMoved
  <2>. QED
    BY <2>5 DEF S, P
<1>6. CASE ~(q.ev = ev /\ q.rid = rid /\ q.rf = f)
  <2>1. P \subseteq P'
    BY <1>1, <1>6 DEF Armed
  <2>. HIDE DEF S, P
  <2>2. Paired(S', P')
    BY <1>3, <1>4, <2>1, PairedMoved
  <2>. QED
    BY <2>2 DEF S, P
<1>. QED
    BY <1>5, <1>6

\* Open requests stay paired with timers.
LEMMA ArmedStep ==
    ASSUME TypeOK, RoutingInv, OwnersInv, OneTokenInv, AgesInv, ArmedInv, [Next]_vars
    PROVE  ArmedInv'
<1>. SUFFICES ASSUME NEW ev \in RequestTypes, NEW rid \in ReqIds, NEW f \in RanFuncs
              PROVE  Paired(Open(ev, rid, f)', Armed(ev, rid, f)')
    BY DEF ArmedInv
<1>1. CASE Arms
    BY <1>1, ArmedStart
<1>2. CASE \E q : Stopped(q)
    BY <1>2, ArmedStop
<1>3. CASE pending' = pending /\ ~Arms
  <2>. DEFINE S == Open(ev, rid, f)
              P == Armed(ev, rid, f)
  <2>1. P' = P /\ Paired(S, P)
    BY <1>3 DEF Armed, ArmedInv
  <2>2. CASE S' \subseteq S
    <3>. HIDE DEF S, P
    <3>1. Paired(S', P')
      BY <2>1, <2>2, PairedLess
    <3>. QED
      BY <3>1 DEF S, P
  <2>3. CASE \E g : Moved(ev, rid, f, g)
    <3>1. PICK g : (\A b \in S' : g[b] \in S) /\ (\A b, d \in S' : g[b] = g[d] => b = d)
      BY <2>3 DEF Moved
    <3>. HIDE DEF S, P
    <3>2. Paired(S', P')
      BY <2>1, <3>1, PairedMoved
    <3>. QED
      BY <3>2 DEF S, P
  <2>. QED
    BY <1>3, <2>2, <2>3, OpenStep DEF Opens
<1>. QED
    BY <1>1, <1>2, <1>3, PendingStep

-----------------------------------------------------------------------------
(* The asserts that never fail *)

\* The counter stays above the timers of new requests.
LEMMA AgesStep ==
    ASSUME TypeOK, AgesInv, [Next]_vars
    PROVE  AgesInv'
<1>1. reqId \in Nat /\ reqId' \in Nat /\ reqId' >= reqId
    BY CounterGrows DEF TypeOK, TypeShared
<1>2. CASE ~Arms
  <2>1. pending' \subseteq pending
    BY <1>2, PendingStep DEF Stopped
  <2>2. \A p \in pending : p.fd \in Nat
    BY DEF TypeOK, TypeShared, PendingEvents
  <2>. QED
    BY <1>1, <2>1, <2>2 DEF AgesInv
<1>3. CASE Arms
  <2>1. pending' = pending \cup {NewEvent} /\ NewEvent.fd = reqId /\ NewEvent.ev = imsg.type
    BY <1>3 DEF Arms, NewEvent
  <2>2. imsg.type # "DEL_REQ" => reqId' = reqId + 1
    BY <1>3 DEF Arms, IAppStartTimer, IAppDeleteTimer, TypeOK, TypeIApp
  <2>3. \A p \in pending : p.fd \in Nat
    BY DEF TypeOK, TypeShared, PendingEvents
  <2>4. ASSUME NEW p \in pending', p.ev # "DEL_REQ" PROVE p.fd < reqId'
    <3>1. CASE p \in pending
      BY <1>1, <2>3, <2>4, <3>1 DEF AgesInv
    <3>2. CASE p = NewEvent
      BY <1>1, <2>1, <2>2, <2>4, <3>2
    <3>. QED
      BY <2>1, <3>1, <3>2
  <2>. QED
    BY <2>4 DEF AgesInv
<1>. QED
    BY <1>2, <1>3

\* An answer finds its timer.
LEMMA AnswerFinds ==
    ASSUME TypeOK, ArmedInv, ricIn # <<>>, NEW ev \in RequestTypes,
           AnswerTo(ev) = Head(ricIn).type
    PROVE  StopPendingEvent(ev, Head(ricIn)) # {}
<1>. DEFINE m == Head(ricIn)
<1>1. /\ <<2, m.node, 1>> \in Open(ev, m.rid, m.rf) /\ m.rid \in ReqIds /\ m.rf \in RanFuncs
    BY HeadIsOpen
<1>. HIDE DEF m
<1>2. Armed(ev, m.rid, m.rf) # {}
    BY <1>1 DEF ArmedInv, Paired
<1>3. StopPendingEvent(ev, m) = Armed(ev, m.rid, m.rf)
    BY DEF StopPendingEvent, Armed
<1>. QED
    BY <1>2, <1>3 DEF m

\* A deletion finds the subscription it names.
LEMMA DeleteFinds ==
    ASSUME TypeOK, RoutingInv, OwnersInv, WaitsInv, OneTokenInv, iappIn # <<>>,
           Head(iappIn).type = "DEL_REQ"
    PROVE  \E e \in mapRicId : /\ e.xid = Head(iappIn).xid /\ e.h = Head(iappIn).h
                               /\ e.rf = Head(iappIn).rf
<1>. DEFINE m == Head(iappIn)
<1>1. m = iappIn[1] /\ 1 \in DOMAIN iappIn /\ m \in ToIApp /\ m \in Range(iappIn)
    BY TailElements DEF TypeOK, TypeSockets, Range
<1>2. m.type = "DEL_REQ"
    OBVIOUS
<1>. HIDE DEF m
<1>3. m.h \in Nat /\ m.node \in Nodes
    BY <1>1, <1>2 DEF ToIApp
<1>4. PICK x \in XApps : Registered(x) /\ xid[x] = m.xid
    BY <1>1, <1>2 DEF OwnersInv, Known
<1>5. MsgAt(x, "DEL_RESP", m.h, 7, m.node, 1)
    BY <1>1, <1>2, <1>4 DEF MsgAt, AsksFor, AnswerTo
<1>6. "DEL_RESP" \in AnswerTypes /\ 7 \in 0 .. 7 /\ 1 \in Nat
    BY DEF AnswerTypes, E2Answers
<1>7. xop[x] = [ans |-> "DEL_RESP", h |-> m.h] /\ m.h \in active[x]
    BY <1>3, <1>5, <1>6, TokenOwner
<1>8. Mapped(x, m.h)
    BY <1>7 DEF WaitsInv
<1>9. PICK e \in mapRicId : e.xid = xid[x] /\ e.h = m.h /\ e.rf = issued[x][m.h].rf
    BY <1>8 DEF Mapped
<1>10. Owned(m.xid, m.h, KindOf(m.type), m.node, m.rf)
    BY <1>1, <1>2 DEF RoutingInv, RequestsInv
<1>11. PICK r \in xsad : /\ r.xid = m.xid
                         /\ issued[r.x][m.h] = [kind |-> KindOf(m.type), node |-> m.node, rf |-> m.rf]
    BY <1>10 DEF Owned, OwnedIn
<1>12. r = [xid |-> xid[x], x |-> x]
    BY <1>4, <1>11 DEF Registered, RoutingInv, XAppIdsInv
<1>13. issued[x][m.h].rf = m.rf
    BY <1>11, <1>12
<1>. QED
    BY <1>4, <1>9, <1>13 DEF m

\* A shutdown is of the association on record.
LEMMA ShutdownFinds ==
    ASSUME TypeOK, LinkInv, ricIn # <<>>, Head(ricIn).type = "SHUTDOWN"
    PROVE  sad[Head(ricIn).node] = Head(ricIn).assoc
<1>1. Head(ricIn) = ricIn[1] /\ 1 \in DOMAIN ricIn
    BY TailElements DEF TypeOK, TypeSockets
<1>2. LatestIn(ricIn, sad[ricIn[1].node], 1, ricIn[1].node, ricIn[1].assoc)
    BY <1>1 DEF LinkInv
<1>. QED
    BY <1>1, <1>2, LatestHead

LookupAborts == {"key not in the tree", "Not found xApp RIC ID"}

\* The lookups of timers, associations and subscriptions succeed.
LEMMA LookupAbortsStep ==
    ASSUME TypeOK, RoutingInv, NodeInv, OwnersInv, WaitsInv, OneTokenInv, ArmedInv,
           ricAbort \notin LookupAborts, [Next]_vars
    PROVE  ricAbort' \notin LookupAborts
<1>1. CASE RicAnswer
    BY <1>1, AnswerFinds DEF RicAnswer, RicReceives, RequestTypes
<1>2. CASE RicShutdown
    BY <1>2, ShutdownFinds DEF RicShutdown, RicReceives, NodeInv
<1>3. CASE IAppDelete
  <2>1. \E e \in mapRicId : /\ e.xid = Head(iappIn).xid /\ e.h = Head(iappIn).h
                            /\ e.rf = Head(iappIn).rf
    BY <1>3, DeleteFinds DEF IAppDelete, IAppReceives
  <2>2. ricAbort' = ricAbort
    BY <1>3, <2>1 DEF IAppDelete
  <2>. QED
    BY <2>2
<1>4. ASSUME RicThread \/ RicTimeout, ~RicAnswer, ~RicShutdown PROVE ricAbort' \notin LookupAborts
    BY <1>4 DEF LookupAborts, RicThread, RicTimeout, RicSetupRequest, RicAddNode, RicAcceptNode,
         RicIndication, RicLookup, RicNotify, RicEraseConn, RicRmNode, Abort, vars
<1>5. ASSUME IAppThread, ~IAppDelete PROVE ricAbort' \notin LookupAborts
    BY <1>5 DEF LookupAborts, IAppThread, Abort, IAppSetupRequest, IAppRegXApp, IAppSetupResponse,
         IAppRequest, IAppLock, IAppStartTimer, IAppForward, IAppAddMap, IAppDeleteTimer
<1>6. ASSUME NEW n \in Nodes, AgentStep(n) PROVE ricAbort' = ricAbort
    BY <1>6, AgFrames DEF AgFrame
<1>7. ASSUME NEW y \in XApps, XAppStep(y) PROVE ricAbort' = ricAbort
    BY <1>7, XFrames DEF XFrame
<1>8. CASE UNCHANGED vars
    BY <1>8 DEF vars
<1>. QED
    BY <1>1, <1>2, <1>3, <1>4, <1>5, <1>6, <1>7, <1>8 DEF Next, AgentStep, XAppStep, XAppRequests

-----------------------------------------------------------------------------
(* The theorems *)

\* Nothing is open and no timer runs in the initial state.
LEMMA TimersInit == Init => TimersInv
<1>. SUFFICES ASSUME Init PROVE TimersInv
    OBVIOUS
<1>1. /\ pending = {} /\ ricIn = <<>> /\ ipc = "idle" /\ rpc = "idle" /\ ricAbort = "none"
      /\ agIn = [n \in Nodes |-> <<>>] /\ xop = [x \in XApps |-> NoOp]
    BY DEF Init
<1>2. OwnTimersInv /\ UntimedInv /\ AgesInv
    BY <1>1 DEF OwnTimersInv, UntimedInv, AgesInv
<1>3. ArmedInv
  <2>1. \A ev \in RequestTypes, rid \in ReqIds, f \in RanFuncs : Open(ev, rid, f) = {}
    BY <1>1 DEF Open
  <2>. QED
    BY <2>1 DEF ArmedInv, Paired
<1>4. InCall = {} /\ Unanswered = {}
    BY <1>1 DEF InCall, Unanswered
<1>5. FewTimersInv
    BY <1>1, <1>4, FS_EmptySet DEF FewTimersInv, Load
<1>. QED
    BY <1>1, <1>2, <1>3, <1>5 DEF TimersInv

\* Timers belong to open operations and open requests have timers, in every
\* state: the reason why stop_pending_event finds what it stops.
THEOREM TimersInvariant == Spec => []TimersInv
<1>1. TypeOK /\ RoutingInv /\ NodeInv /\ ArrivalsInv /\ TimersInv /\ [Next]_vars
        /\ TypeOK' /\ RoutingInv' /\ ArrivalsInv' => TimersInv'
  <2>. SUFFICES ASSUME TypeOK, RoutingInv, NodeInv, ArrivalsInv, TimersInv, [Next]_vars,
                       TypeOK', RoutingInv', ArrivalsInv'
                PROVE  TimersInv'
    OBVIOUS
  <2>1. /\ OwnersInv /\ WaitsInv /\ OneTokenInv
        /\ OwnersInv' /\ WaitsInv' /\ OneTokenInv'
    BY DEF ArrivalsInv
  <2>2. OwnTimersInv /\ UntimedInv /\ AgesInv /\ ArmedInv /\ FewTimersInv
    BY DEF TimersInv
  <2>3. ricAbort \notin LookupAborts
    BY DEF TimersInv, LookupAborts
  <2>4. OwnTimersInv'
    BY <2>1, <2>2, OwnTimersStep
  <2>5. UntimedInv'
    BY <2>1, <2>2, UntimedStep
  <2>6. AgesInv'
    BY <2>2, AgesStep
  <2>7. ArmedInv'
    BY <2>1, <2>2, ArmedStep
  <2>8. FewTimersInv'
    BY <2>1, <2>2, <2>4, <2>5, FewTimersStep
  <2>9. ricAbort' \notin LookupAborts
    BY <2>1, <2>2, <2>3, LookupAbortsStep
  <2>. QED
    BY <2>4, <2>5, <2>6, <2>7, <2>8, <2>9 DEF TimersInv, LookupAborts
<1>. QED
    BY <1>1, TimersInit, TypeCorrect, RoutingInvariant, NodeInvariant, ArrivalsInvariant, PTL
    DEF Spec

\* What the invariant says of timers, waits and failed asserts.
LEMMA TimersImply ==
    TypeOK /\ ArrivalsInv /\ TimersInv => TimersMatchRequests /\ RequestAborts
<1>. SUFFICES ASSUME TypeOK, ArrivalsInv, TimersInv PROVE TimersMatchRequests /\ RequestAborts
    OBVIOUS
<1>1. AnswerHasTimer
  <2>. SUFFICES ASSUME NEW m \in Range(ricIn), NEW ev \in RequestTypes, m.type = AnswerTo(ev)
                PROVE  StopPendingEvent(ev, m) # {}
    BY DEF AnswerHasTimer, RequestTypes
  <2>1. PICK i \in DOMAIN ricIn : m = ricIn[i]
    BY DEF Range
  <2>2. m \in ToRic /\ i \in Nat
    BY <2>1 DEF TypeOK, TypeSockets
  <2>3. m.type \in E2Answers
    BY AnswerTypesOf
  <2>4. m \in [type : E2Answers, node : Nodes, rid : ReqIds, rf : RanFuncs]
    BY <2>2, <2>3 DEF ToRic, E2Answers
  <2>5. ricIn[i] = [type |-> AnswerTo(ev), node |-> m.node, rid |-> m.rid, rf |-> m.rf]
    BY <2>1, <2>4
  <2>6. <<2, m.node, i>> \in Open(ev, m.rid, m.rf)
    BY <2>2, <2>4, <2>5 DEF Open
  <2>7. Armed(ev, m.rid, m.rf) # {}
    <3>1. Paired(Open(ev, m.rid, m.rf), Armed(ev, m.rid, m.rf))
      BY <2>4 DEF TimersInv, ArmedInv
    <3>. QED
      BY <2>6, <3>1 DEF Paired
  <2>. QED
    BY <2>7 DEF Armed, StopPendingEvent
<1>w. InCall = LeftUnanswered
    BY DEF InCall, LeftUnanswered, ArrivalsInv, WaitsInv
<1>2. PendingAreUnanswered
  <2>1. /\ IsFiniteSet(pending) /\ IsFiniteSet(InCall) /\ Load <= Cardinality(Unanswered)
    BY DEF TimersInv, FewTimersInv
  <2>2. Unanswered \in SUBSET InCall
    BY DEF Unanswered
  <2>3. IsFiniteSet(Unanswered) /\ Cardinality(Unanswered) <= Cardinality(InCall)
    BY <2>1, <2>2, FS_Subset
  <2>4. /\ Cardinality(pending) \in Nat /\ Cardinality(Unanswered) \in Nat
        /\ Cardinality(InCall) \in Nat
    BY <2>1, <2>3, FS_CardinalityType
  <2>5. Cardinality(pending) <= Load /\ Load \in Nat
    BY <2>4 DEF Load
  <2>6. Cardinality(pending) <= Cardinality(InCall)
    BY <2>1, <2>3, <2>4, <2>5
  <2>. QED
    BY <1>w, <2>6 DEF PendingAreUnanswered
<1>3. RequestAborts
  <2>1. /\ ricAbort = "pending size is 1" => \E x, y \in Unanswered : x # y
        /\ ricAbort \notin {"key not in the tree", "Not found xApp RIC ID"}
    BY DEF TimersInv, FewTimersInv
  <2>2. Unanswered \subseteq LeftUnanswered
    BY <1>w DEF Unanswered
  <2>. QED
    BY <2>1, <2>2 DEF RequestAborts
<1>. QED
    BY <1>1, <1>2, <1>3 DEF TimersMatchRequests

\* An answer on its way finds its timer in stop_pending_event, and the RIC never
\* has more timers than there are xApps that wait for an answer or that ended
\* while they waited.
THEOREM TimersCorrect == Spec => []TimersMatchRequests
BY TimersInvariant, TypeCorrect, ArrivalsInvariant, TimersImply, PTL

\* Every failed assert of the RIC is explained by a node that ended, a setup
\* sent again, a counter that wrapped or two unanswered xApps; the lookups of
\* timers, associations and subscriptions never fail.
THEOREM AbortsAreExplained == Spec => []AbortsExplained
<1>1. NodeAborts /\ TimersMatchRequests /\ RequestAborts => AbortsExplained
    BY DEF AbortsExplained
<1>. QED
    BY <1>1, NodeAbortsExplained, TimersInvariant, TypeCorrect, ArrivalsInvariant, TimersImply, PTL
=============================================================================

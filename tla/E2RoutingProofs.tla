-------------------------- MODULE E2RoutingProofs --------------------------
(* Proofs about E2Routing, for every set of nodes, xApps and RAN functions:  *)
(* its types, and that answers and indications are routed to the xApp that  *)
(* asked, for every number of requests and every interleaving; that the     *)
(* near-RT RIC's views of the connected nodes agree; and which asserts the  *)
(* churn of nodes and the wrap of the request counter can make fail.        *)
EXTENDS E2Routing, SequenceTheorems, TLAPS

\* Receiving from and sending to a queue keep its element type.
LEMMA QueueTypes ==
    ASSUME NEW S, NEW s \in Seq(S)
    PROVE  /\ s # <<>> => Head(s) \in S /\ Tail(s) \in Seq(S)
           /\ \A e \in S : Append(s, e) \in Seq(S)
    OBVIOUS

\* A failed assert changes nothing but ricAbort.
LEMMA AbortTypes ==
    ASSUME TypeOK, NEW why \in RicAsserts, Abort(why)
    PROVE  TypeOK'
<1>1. ricAbort' \in RicAsserts \cup {"none"}
    BY DEF Abort
<1>2. UNCHANGED <<shared, ricVars, iappVars, ricIn, iappSock, agVars, xVars>>
    BY DEF Abort
<1>. QED
    BY <1>1, <1>2 DEF TypeOK, TypeShared, TypeRic, TypeIApp, TypeSockets, TypeAgents, TypeXApps,
       shared, ricVars, iappVars, iappSock, agVars, xVars

\* The initial state of a freshly started near-RT RIC has the right types.
LEMMA TypeInit == Init => TypeOK
<1>. SUFFICES ASSUME Init PROVE TypeOK
    OBVIOUS
<1>1. TypeShared
    BY ConstAssumption DEF ConstAssumption, Init, TypeShared
<1>e. ricIn \in Seq(ToRic) /\ iappIn \in Seq(ToIApp)
    BY DEF Init
<1>s. TypeSockets /\ ricAbort \in RicAsserts \cup {"none"}
    BY <1>e DEF Init, TypeSockets
<1>2. TypeRic /\ TypeIApp
    BY ConstAssumption DEF ConstAssumption, Init, TypeRic, TypeIApp, ReqIds
<1>3. TypeAgents /\ TypeXApps
    BY DEF Init, TypeAgents, TypeXApps
<1>. QED
    BY <1>1, <1>s, <1>2, <1>3 DEF TypeOK

\* What an agent's, an xApp's and the iApp's queue hold after a send.
LEMMA SendTypes ==
    ASSUME TypeOK
    PROVE  /\ \A n \in Nodes, m \in ToAgent : SendToNode(n, m) =>
                agIn' \in [Nodes -> Seq(ToAgent)] /\ agEdge' \in [Nodes -> BOOLEAN]
           /\ \A x \in XApps, m \in ToXApp : SendToXApp(x, m) => xIn' \in [XApps -> Seq(ToXApp)]
           /\ \A m \in ToIApp : SendToIApp(m) =>
                iappIn' \in Seq(ToIApp) /\ iappEdge' \in BOOLEAN
<1>1. ASSUME NEW n \in Nodes, NEW m \in ToAgent, SendToNode(n, m)
      PROVE  agIn' \in [Nodes -> Seq(ToAgent)] /\ agEdge' \in [Nodes -> BOOLEAN]
  <2>1. Append(agIn[n], m) \in Seq(ToAgent)
    BY QueueTypes DEF TypeOK, TypeAgents
  <2>2. agIn' \in [Nodes -> Seq(ToAgent)]
    BY <1>1, <2>1 DEF SendToNode, TypeOK, TypeAgents
  <2>. QED
    BY <1>1, <2>2 DEF SendToNode, TypeOK, TypeAgents
<1>2. ASSUME NEW x \in XApps, NEW m \in ToXApp, SendToXApp(x, m)
      PROVE  xIn' \in [XApps -> Seq(ToXApp)]
  <2>1. Append(xIn[x], m) \in Seq(ToXApp)
    BY QueueTypes DEF TypeOK, TypeXApps
  <2>. QED
    BY <1>2, <2>1 DEF SendToXApp, TypeOK, TypeXApps
<1>3. ASSUME NEW m \in ToIApp, SendToIApp(m)
      PROVE  iappIn' \in Seq(ToIApp) /\ iappEdge' \in BOOLEAN
    BY <1>3, QueueTypes DEF SendToIApp, TypeOK, TypeSockets
<1>. QED
    BY <1>1, <1>2, <1>3

\* The RIC thread keeps the types.
LEMMA RicTypes == TypeOK /\ (RicThread \/ RicTimeout) => TypeOK'
<1>. SUFFICES ASSUME TypeOK, RicThread \/ RicTimeout PROVE TypeOK'
    OBVIOUS
<1>. USE DEF TypeOK
<1>h. ricIn # <<>> => Head(ricIn) \in ToRic /\ Tail(ricIn) \in Seq(ToRic)
    BY QueueTypes DEF TypeSockets
<1>m. \A m \in ToRic : m.node \in Nodes
    BY DEF ToRic
<1>1. CASE RicSetupRequest
  <2>1. Head(ricIn) \in ToRic /\ Tail(ricIn) \in Seq(ToRic) /\ Head(ricIn).type = "SETUP_REQ"
    BY <1>1, <1>h DEF RicSetupRequest, RicReceives
  <2>2. Head(ricIn).node \in Nodes /\ Head(ricIn).assoc \in Nat
    BY <2>1 DEF ToRic, E2Answers
  <2>3. TypeShared' /\ TypeRic' /\ TypeSockets'
    BY <1>1, <2>1, <2>2 DEF RicSetupRequest, TypeShared, TypeRic, TypeSockets, iappSock
  <2>. QED
    BY <1>1, <2>3 DEF RicSetupRequest, TypeIApp, TypeAgents, TypeXApps, iappVars, agVars, xVars
<1>2. CASE RicAddNode
  <2>1. CASE rmsg.node \in reg
    BY <1>2, <2>1, AbortTypes DEF RicAddNode, RicAsserts
  <2>2. CASE rmsg.node \notin reg
    <3>1. TypeShared' /\ TypeRic' /\ TypeSockets'
      BY <1>2, <1>m, <2>2 DEF RicAddNode, TypeShared, TypeRic, TypeSockets, iappSock
    <3>. QED
      BY <1>2, <2>2, <3>1 DEF RicAddNode, TypeIApp, TypeAgents, TypeXApps, iappVars, agVars, xVars
  <2>. QED
    BY <2>1, <2>2
<1>3. CASE RicAcceptNode
  <2>1. [type |-> "SETUP_RESP"] \in ToAgent /\ rmsg.node \in Nodes
    BY <1>3, <1>m DEF RicAcceptNode, TypeRic, ToAgent
  <2>2. agIn' \in [Nodes -> Seq(ToAgent)] /\ agEdge' \in [Nodes -> BOOLEAN]
    BY <1>3, <2>1, SendTypes DEF RicAcceptNode
  <2>3. TypeShared' /\ TypeRic' /\ TypeSockets' /\ TypeAgents'
    BY <1>3, <2>1, <2>2 DEF RicAcceptNode, TypeShared, TypeRic, TypeSockets, iappSock, TypeAgents
  <2>. QED
    BY <1>3, <2>3 DEF RicAcceptNode, TypeIApp, TypeXApps, iappVars, xVars
<1>4. CASE RicAnswer
  <2>1. PICK ev \in {"SUB_REQ", "DEL_REQ", "CTRL_REQ"} :
          IF StopPendingEvent(ev, Head(ricIn)) = {}
          THEN Abort("key not in the tree")
          ELSE /\ \E p \in StopPendingEvent(ev, Head(ricIn)) : pending' = pending \ {p}
               /\ rpc' = "lookup" /\ rmsg' = Head(ricIn) /\ ricIn' = Tail(ricIn)
               /\ UNCHANGED <<sad, conn, reg, reqId, mapRicId, mtx, xappId, xsad,
                              ricAbort, rto, iappVars, iappSock, agVars, xVars>>
    BY <1>4 DEF RicAnswer
  <2>2. CASE StopPendingEvent(ev, Head(ricIn)) = {}
    BY <2>1, <2>2, AbortTypes DEF RicAsserts
  <2>3. CASE StopPendingEvent(ev, Head(ricIn)) # {}
    <3>1. Head(ricIn) \in ToRic /\ Tail(ricIn) \in Seq(ToRic) /\ Head(ricIn).type \in E2Answers
      BY <1>4, <1>h DEF RicAnswer, RicReceives, E2Answers
    <3>2. TypeShared' /\ TypeRic' /\ TypeSockets'
      BY <2>1, <2>3, <3>1 DEF TypeShared, TypeRic, TypeSockets, iappSock
    <3>. QED
      BY <2>1, <2>3, <3>2 DEF TypeIApp, TypeAgents, TypeXApps, iappVars, agVars, xVars
  <2>. QED
    BY <2>2, <2>3
<1>5. CASE RicIndication
  <2>1. Head(ricIn) \in ToRic /\ Tail(ricIn) \in Seq(ToRic) /\ Head(ricIn).type \in E2Answers
    BY <1>5, <1>h DEF RicIndication, RicReceives, E2Answers
  <2>2. TypeRic' /\ TypeSockets'
    BY <1>5, <2>1 DEF RicIndication, TypeRic, TypeSockets, iappSock
  <2>. QED
    BY <1>5, <2>2 DEF RicIndication, TypeShared, TypeIApp, TypeAgents, TypeXApps,
       shared, iappVars, agVars, xVars
<1>6. CASE RicLookup
  <2>1. CASE \E why \in RicAsserts : Abort(why)
    BY <2>1, AbortTypes
  <2>2. CASE \E e \in mapRicId :
               /\ rto' = e /\ rpc' = "notify"
               /\ UNCHANGED <<shared, ricAbort, rmsg, iappVars, ricIn, iappSock, agVars, xVars>>
    <3>1. TypeRic'
      BY <1>6, <2>2 DEF RicLookup, TypeRic, TypeShared
    <3>. QED
      BY <2>2, <3>1 DEF TypeShared, TypeSockets, TypeIApp, TypeAgents, TypeXApps,
         shared, iappSock, iappVars, agVars, xVars
  <2>. QED
    BY <1>6, <2>1, <2>2 DEF RicLookup, RicAsserts
<1>7. CASE RicNotify
  <2>1. CASE Abort("xApp ID not found")
    BY <2>1, AbortTypes DEF RicAsserts
  <2>2. CASE ~ Abort("xApp ID not found")
    <3>1. PICK r \in xsad : SendToXApp(r.x, [type |-> rmsg.type, h |-> rto.h,
                                             rf |-> rmsg.rf, node |-> rmsg.node])
      BY <1>7, <2>2 DEF RicNotify
    <3>2. r.x \in XApps /\ [type |-> rmsg.type, h |-> rto.h, rf |-> rmsg.rf,
                            node |-> rmsg.node] \in ToXApp
      BY <1>7 DEF RicNotify, TypeShared, TypeRic, XAppRegs, ToRic, E2Answers, MapEntries, ToXApp
    <3>3. xIn' \in [XApps -> Seq(ToXApp)]
      BY <3>1, <3>2, SendTypes
    <3>4. TypeXApps' /\ TypeRic'
      BY <1>7, <2>2, <3>3 DEF RicNotify, TypeXApps, TypeRic
    <3>. QED
      BY <1>7, <2>2, <3>4 DEF RicNotify, TypeShared, TypeSockets, TypeIApp, TypeAgents,
         shared, iappSock, iappVars, agVars
  <2>. QED
    BY <2>1, <2>2
<1>8. CASE RicShutdown
  <2>1. CASE sad[Head(ricIn).node] # Head(ricIn).assoc
    BY <1>8, <2>1, AbortTypes DEF RicShutdown, RicAsserts
  <2>2. CASE sad[Head(ricIn).node] = Head(ricIn).assoc
    <3>1. Head(ricIn) \in ToRic /\ Tail(ricIn) \in Seq(ToRic) /\ Head(ricIn).type = "SHUTDOWN"
      BY <1>8, <1>h DEF RicShutdown, RicReceives
    <3>2. TypeShared'
      BY <1>8, <2>2, <3>1, <1>m DEF RicShutdown, TypeShared
    <3>3. TypeRic' /\ TypeSockets'
      BY <1>8, <2>2, <3>1 DEF RicShutdown, TypeRic, TypeSockets, iappSock
    <3>. QED
      BY <1>8, <2>2, <3>2, <3>3 DEF RicShutdown, TypeIApp, TypeAgents, TypeXApps, iappVars, agVars, xVars
  <2>. QED
    BY <2>1, <2>2
<1>9. CASE RicEraseConn
  <2>1. CASE rmsg.node \notin conn
    BY <1>9, <2>1, AbortTypes DEF RicEraseConn, RicAsserts
  <2>2. CASE rmsg.node \in conn
    <3>1. TypeShared' /\ TypeRic'
      BY <1>9, <2>2 DEF RicEraseConn, TypeShared, TypeRic
    <3>. QED
      BY <1>9, <2>2, <3>1 DEF RicEraseConn, TypeSockets, TypeIApp, TypeAgents, TypeXApps,
         iappSock, iappVars, agVars, xVars
  <2>. QED
    BY <2>1, <2>2
<1>10. CASE RicRmNode
  <2>1. CASE rmsg.node \notin reg
    BY <1>10, <2>1, AbortTypes DEF RicRmNode, RicAsserts
  <2>2. CASE rmsg.node \in reg
    <3>1. TypeShared' /\ TypeRic'
      BY <1>10, <2>2 DEF RicRmNode, TypeShared, TypeRic
    <3>. QED
      BY <1>10, <2>2, <3>1 DEF RicRmNode, TypeSockets, TypeIApp, TypeAgents, TypeXApps,
         iappSock, iappVars, agVars, xVars
  <2>. QED
    BY <2>1, <2>2
<1>11. CASE RicTimeout
  <2>1. CASE Abort("pending size is 1")
    BY <2>1, AbortTypes DEF RicAsserts
  <2>2. CASE UNCHANGED vars
    BY <2>2 DEF TypeShared, TypeRic, TypeSockets, TypeIApp, TypeAgents, TypeXApps,
       shared, ricVars, iappSock, iappVars, agVars, xVars, vars
  <2>. QED
    BY <1>11, <2>1, <2>2 DEF RicTimeout
<1>. QED
    BY <1>1, <1>2, <1>3, <1>4, <1>5, <1>6, <1>7, <1>8, <1>9, <1>10, <1>11 DEF RicThread

\* The iApp thread keeps the types.
LEMMA IAppTypes == TypeOK /\ IAppThread => TypeOK'
<1>. SUFFICES ASSUME TypeOK, IAppThread PROVE TypeOK'
    OBVIOUS
<1>. USE DEF TypeOK
<1>h. iappIn # <<>> => Head(iappIn) \in ToIApp /\ Tail(iappIn) \in Seq(ToIApp)
    BY QueueTypes DEF TypeSockets
<1>c. iappIn # <<>> /\ IAppConsume /\ ricIn' = ricIn => TypeSockets'
    BY <1>h DEF IAppConsume, TypeSockets
<1>r. \A m \in ToIApp : m.type \in {"SUB_REQ", "DEL_REQ", "CTRL_REQ"} =>
         m.xid \in Nat /\ m.h \in Nat /\ m.node \in Nodes /\ m.rf \in RanFuncs
    BY DEF ToIApp
<1>z. 0 \in ReqIds
    BY ConstAssumption DEF ConstAssumption, ReqIds
<1>1. CASE IAppSetupRequest
  <2>1. Head(iappIn) \in ToIApp /\ Head(iappIn).type = "E42_SETUP_REQ"
    BY <1>1, <1>h DEF IAppSetupRequest, IAppReceives
  <2>2. Head(iappIn).x \in XApps
    BY <2>1 DEF ToIApp
  <2>3. imsg' \in SetupReplies
    BY <1>1, <2>2 DEF IAppSetupRequest, SetupReplies, TypeShared
  <2>4. TypeShared' /\ TypeIApp'
    BY <1>1, <2>3 DEF IAppSetupRequest, TypeShared, TypeIApp
  <2>5. TypeSockets'
    BY <1>1, <1>c DEF IAppSetupRequest, IAppReceives
  <2>. QED
    BY <1>1, <2>4, <2>5 DEF IAppSetupRequest, TypeRic, TypeAgents, TypeXApps, ricVars, agVars, xVars
<1>2. CASE IAppRegXApp
  <2>1. CASE Abort("xApp ID already registered")
    BY <2>1, AbortTypes DEF RicAsserts
  <2>2. CASE ~ Abort("xApp ID already registered")
    <3>1. [xid |-> imsg.xid, x |-> imsg.x] \in XAppRegs
      BY <1>2 DEF IAppRegXApp, TypeIApp, SetupReplies, XAppRegs
    <3>2. TypeShared' /\ TypeIApp'
      BY <1>2, <2>2, <3>1 DEF IAppRegXApp, TypeShared, TypeIApp
    <3>. QED
      BY <1>2, <2>2, <3>2 DEF IAppRegXApp, TypeRic, TypeSockets, TypeAgents, TypeXApps,
         ricVars, iappSock, agVars, xVars
  <2>. QED
    BY <2>1, <2>2
<1>3. CASE IAppSetupResponse
  <2>1. imsg.x \in XApps /\ [type |-> "E42_SETUP_RESP", xid |-> imsg.xid,
                             nodes |-> imsg.nodes] \in ToXApp
    BY <1>3 DEF IAppSetupResponse, TypeIApp, SetupReplies, ToXApp
  <2>2. xIn' \in [XApps -> Seq(ToXApp)]
    BY <1>3, <2>1, SendTypes DEF IAppSetupResponse
  <2>3. TypeXApps' /\ TypeIApp'
    BY <1>3, <2>2 DEF IAppSetupResponse, TypeXApps, TypeIApp
  <2>. QED
    BY <1>3, <2>3 DEF IAppSetupResponse, TypeShared, TypeRic, TypeSockets, TypeAgents,
       shared, ricVars, iappSock, agVars
<1>4. CASE IAppRequest
  <2>1. CASE \E why \in RicAsserts : Abort(why)
    BY <2>1, AbortTypes
  <2>2. CASE IAppConsume /\ imsg' = Head(iappIn) /\ ipc' = "lock"
               /\ UNCHANGED <<shared, ricAbort, ricVars, irid, ricIn, agVars, xVars>>
    <3>1. TypeIApp'
      BY <1>4, <1>h, <2>2 DEF IAppRequest, IAppReceives, TypeIApp
    <3>2. TypeSockets'
      BY <1>4, <1>c, <2>2 DEF IAppRequest, IAppReceives
    <3>. QED
      BY <2>2, <3>1, <3>2 DEF TypeShared, TypeRic, TypeAgents, TypeXApps,
         shared, ricVars, agVars, xVars
  <2>. QED
    BY <1>4, <2>1, <2>2 DEF IAppRequest, RicAsserts
<1>5. CASE IAppLock
  <2>1. TypeShared' /\ TypeIApp'
    BY <1>5 DEF IAppLock, TypeShared, TypeIApp
  <2>. QED
    BY <1>5, <2>1 DEF IAppLock, TypeRic, TypeSockets, TypeAgents, TypeXApps,
       ricVars, iappSock, agVars, xVars
<1>6. CASE IAppStartTimer
  <2>1. reqId % UINT16 \in ReqIds
    BY ConstAssumption DEF ConstAssumption, TypeShared, ReqIds
  <2>2. [ev |-> imsg.type, rid |-> reqId % UINT16, rf |-> imsg.rf, fd |-> reqId] \in PendingEvents
    BY <1>6, <1>r, <2>1 DEF IAppStartTimer, TypeIApp, TypeShared, PendingEvents
  <2>3. TypeShared' /\ TypeIApp'
    BY <1>6, <2>1, <2>2 DEF IAppStartTimer, TypeShared, TypeIApp
  <2>. QED
    BY <1>6, <2>3 DEF IAppStartTimer, TypeRic, TypeSockets, TypeAgents, TypeXApps,
       ricVars, iappSock, agVars, xVars
<1>7. CASE IAppForward
  <2>1. CASE Abort("E2 Node not found")
    BY <2>1, AbortTypes DEF RicAsserts
  <2>2. CASE ~ Abort("E2 Node not found")
    <3>1. imsg.node \in Nodes /\ [type |-> imsg.type, rid |-> irid, rf |-> imsg.rf] \in ToAgent
      BY <1>7, <1>r DEF IAppForward, TypeIApp, ToAgent
    <3>2. agIn' \in [Nodes -> Seq(ToAgent)] /\ agEdge' \in [Nodes -> BOOLEAN]
      BY <1>7, <2>2, <3>1, SendTypes DEF IAppForward
    <3>3. TypeIApp'
      BY <1>7, <1>z, <2>2 DEF IAppForward, TypeIApp
    <3>4. TypeAgents'
      BY <1>7, <2>2, <3>2 DEF IAppForward, TypeAgents
    <3>. QED
      BY <1>7, <2>2, <3>3, <3>4 DEF IAppForward, TypeShared, TypeRic, TypeSockets, TypeXApps,
         shared, ricVars, iappSock, xVars
  <2>. QED
    BY <2>1, <2>2
<1>8. CASE IAppAddMap
  <2>1. CASE Abort("ric_req_id already in the map")
    BY <2>1, AbortTypes DEF RicAsserts
  <2>2. CASE ~ Abort("ric_req_id already in the map")
    <3>1. [rid |-> irid, node |-> imsg.node, xid |-> imsg.xid, h |-> imsg.h,
           rf |-> imsg.rf] \in MapEntries
      BY <1>8, <1>r DEF IAppAddMap, TypeIApp, MapEntries
    <3>2. TypeShared'
      BY <1>8, <2>2, <3>1 DEF IAppAddMap, TypeShared
    <3>3. TypeIApp'
      BY <1>8, <1>z, <2>2 DEF IAppAddMap, TypeIApp
    <3>. QED
      BY <1>8, <2>2, <3>2, <3>3 DEF IAppAddMap, TypeRic, TypeSockets, TypeAgents, TypeXApps,
         ricVars, iappSock, agVars, xVars
  <2>. QED
    BY <2>1, <2>2
<1>9. CASE IAppDelete
  <2>1. CASE Abort("Not found xApp RIC ID")
    BY <2>1, AbortTypes DEF RicAsserts
  <2>2. CASE ~ Abort("Not found xApp RIC ID")
    <3>1. PICK e \in mapRicId :
             /\ IAppConsume /\ imsg' = [Head(iappIn) EXCEPT !.node = e.node]
             /\ irid' = e.rid /\ ipc' = "del_timer"
             /\ UNCHANGED <<shared, ricAbort, ricVars, ricIn, agVars, xVars>>
      BY <1>9, <2>2 DEF IAppDelete
    <3>2. Head(iappIn) \in ToIApp /\ Head(iappIn).type = "DEL_REQ"
      BY <1>9, <1>h DEF IAppDelete, IAppReceives
    <3>3. e.node \in Nodes /\ e.rid \in ReqIds
      BY DEF TypeShared, MapEntries
    <3>4. imsg' \in ToIApp /\ imsg'.type = "DEL_REQ"
      BY <3>1, <3>2, <3>3 DEF ToIApp
    <3>5. TypeIApp'
      BY <3>1, <3>3, <3>4 DEF TypeIApp
    <3>6. TypeSockets'
      BY <1>9, <1>c, <3>1 DEF IAppDelete, IAppReceives
    <3>. QED
      BY <3>1, <3>5, <3>6 DEF TypeShared, TypeRic, TypeAgents, TypeXApps,
         shared, ricVars, agVars, xVars
  <2>. QED
    BY <2>1, <2>2
<1>10. CASE IAppDeleteTimer
  <2>1. [ev |-> "DEL_REQ", rid |-> irid, rf |-> imsg.rf, fd |-> reqId] \in PendingEvents
    BY <1>10, <1>r DEF IAppDeleteTimer, TypeIApp, TypeShared, PendingEvents
  <2>2. TypeShared' /\ TypeIApp'
    BY <1>10, <2>1 DEF IAppDeleteTimer, TypeShared, TypeIApp
  <2>. QED
    BY <1>10, <2>2 DEF IAppDeleteTimer, TypeRic, TypeSockets, TypeAgents, TypeXApps,
       ricVars, iappSock, agVars, xVars
<1>. QED
    BY <1>1, <1>2, <1>3, <1>4, <1>5, <1>6, <1>7, <1>8, <1>9, <1>10 DEF IAppThread

\* An agent keeps the types.
LEMMA AgentTypes ==
    ASSUME TypeOK, NEW n \in Nodes,
           AgStart(n) \/ AgResendSetup(n) \/ AgentLoop(n) \/ AgIndication(n) \/ AgStop(n)
    PROVE  TypeOK'
<1>. USE DEF TypeOK
<1>h. agIn[n] # <<>> => Head(agIn[n]) \in ToAgent /\ Tail(agIn[n]) \in Seq(ToAgent)
    BY QueueTypes DEF TypeAgents
<1>a. \A m \in ToRic : AgSend(m) => ricIn' \in Seq(ToRic)
    BY QueueTypes DEF AgSend, TypeSockets
<1>s. SetupRequest(n, assoc[n]) \in ToRic /\ SetupRequest(n, assoc[n] + 1) \in ToRic
    BY DEF SetupRequest, ToRic, TypeAgents
<1>c. ASSUME AgReceives(n, {"SETUP_RESP", "SUB_REQ", "DEL_REQ", "CTRL_REQ"}), AgConsume(n)
      PROVE  agIn' \in [Nodes -> Seq(ToAgent)] /\ agEdge' \in [Nodes -> BOOLEAN]
  <2>1. agIn' \in [Nodes -> Seq(ToAgent)]
    BY <1>c, <1>h DEF AgReceives, AgConsume, TypeAgents
  <2>. QED
    BY <1>c, <2>1 DEF AgConsume, TypeAgents
<1>r. ASSUME AgReceives(n, {"SUB_REQ", "DEL_REQ", "CTRL_REQ"}), AgAnswer(n, Head(agIn[n]))
      PROVE  /\ agIn' \in [Nodes -> Seq(ToAgent)] /\ agEdge' \in [Nodes -> BOOLEAN]
             /\ ricIn' \in Seq(ToRic)
             /\ [rid |-> Head(agIn[n]).rid, rf |-> Head(agIn[n]).rf] \in [rid : ReqIds, rf : RanFuncs]
  <2>1. Head(agIn[n]) \in ToAgent /\ Head(agIn[n]).type \in {"SUB_REQ", "DEL_REQ", "CTRL_REQ"}
    BY <1>r, <1>h DEF AgReceives
  <2>2. Head(agIn[n]).rid \in ReqIds /\ Head(agIn[n]).rf \in RanFuncs
    BY <2>1 DEF ToAgent
  <2>3. AnswerTo(Head(agIn[n]).type) \in E2Answers
    BY <2>1 DEF AnswerTo, E2Answers
  <2>4. [type |-> AnswerTo(Head(agIn[n]).type), node |-> n, rid |-> Head(agIn[n]).rid,
         rf |-> Head(agIn[n]).rf] \in ToRic
    BY <2>2, <2>3 DEF ToRic
  <2>5. AgReceives(n, {"SETUP_RESP", "SUB_REQ", "DEL_REQ", "CTRL_REQ"}) /\ AgConsume(n)
    BY <1>r DEF AgReceives, AgAnswer
  <2>. QED
    BY <1>r, <1>a, <1>c, <2>2, <2>4, <2>5 DEF AgAnswer
<1>d. ASSUME NEW unread, AgClose(n, unread)
      PROVE  /\ agIn' \in [Nodes -> Seq(ToAgent)] /\ agEdge' \in [Nodes -> BOOLEAN]
             /\ agSubs' \in [Nodes -> SUBSET [rid : ReqIds, rf : RanFuncs]]
             /\ agSetup' \in [Nodes -> BOOLEAN] /\ ricIn' \in Seq(ToRic)
  <2>1. [type |-> "SHUTDOWN", node |-> n, assoc |-> assoc[n]] \in ToRic
    BY DEF ToRic, TypeAgents
  <2>2. ricIn' \in Seq(ToRic)
    BY <1>d, <1>a, <2>1 DEF AgClose, TypeSockets
  <2>3. agIn' \in [Nodes -> Seq(ToAgent)]
    BY <1>d DEF AgClose, TypeAgents
  <2>4. agSubs' \in [Nodes -> SUBSET [rid : ReqIds, rf : RanFuncs]]
    BY <1>d DEF AgClose, TypeAgents
  <2>. QED
    BY <1>d, <2>2, <2>3, <2>4 DEF AgClose, TypeAgents
<1>u. ASSUME UNCHANGED <<shared, ricAbort, ricVars, iappVars, iappSock, xVars>>,
             ricIn' \in Seq(ToRic), TypeAgents'
      PROVE  TypeOK'
    BY <1>u DEF TypeShared, TypeRic, TypeIApp, TypeSockets, TypeXApps,
       shared, ricVars, iappVars, iappSock, xVars
<1>1. CASE AgStart(n)
  <2>1. ast' \in [Nodes -> {"off", "up", "aborted"}] /\ assoc' \in [Nodes -> Nat]
    BY <1>1 DEF AgStart, TypeAgents
  <2>2. TypeAgents'
    BY <1>1, <2>1 DEF AgStart, TypeAgents
  <2>. QED
    BY <1>1, <1>a, <1>s, <1>u, <2>2 DEF AgStart
<1>2. CASE AgResendSetup(n)
  <2>1. TypeAgents'
    BY <1>2 DEF AgResendSetup, TypeAgents
  <2>. QED
    BY <1>2, <1>a, <1>s, <1>u, <2>1 DEF AgResendSetup
<1>k. ASSUME AgAbort(n) PROVE TypeOK'
  <2>1. ast' \in [Nodes -> {"off", "up", "aborted"}]
    BY <1>k DEF AgAbort, TypeAgents
  <2>2. TypeAgents'
    BY <1>k, <1>d, <2>1 DEF AgAbort, TypeAgents
  <2>. QED
    BY <1>k, <1>d, <1>u, <2>2 DEF AgAbort
<1>3. CASE AgSetupResponse(n)
  <2>1. CASE AgAbort(n)
    BY <1>k, <2>1
  <2>2. CASE ~ AgAbort(n)
    <3>1. AgReceives(n, {"SETUP_RESP", "SUB_REQ", "DEL_REQ", "CTRL_REQ"}) /\ AgConsume(n)
      BY <1>3, <2>2 DEF AgSetupResponse, AgReceives
    <3>2. agSetup' \in [Nodes -> BOOLEAN]
      BY <1>3, <2>2 DEF AgSetupResponse, TypeAgents
    <3>3. TypeAgents'
      BY <1>3, <1>c, <2>2, <3>1, <3>2 DEF AgSetupResponse, TypeAgents
    <3>. QED
      BY <1>3, <1>u, <2>2, <3>3 DEF AgSetupResponse, TypeSockets
  <2>. QED
    BY <2>1, <2>2
<1>4. CASE AgSubscription(n)
  <2>1. AgReceives(n, {"SUB_REQ", "DEL_REQ", "CTRL_REQ"}) /\ AgAnswer(n, Head(agIn[n]))
    BY <1>4 DEF AgSubscription, AgReceives
  <2>2. agSubs' \in [Nodes -> SUBSET [rid : ReqIds, rf : RanFuncs]]
    BY <1>4, <1>r, <2>1 DEF AgSubscription, TypeAgents
  <2>3. TypeAgents'
    BY <1>4, <1>r, <2>1, <2>2 DEF AgSubscription, TypeAgents
  <2>. QED
    BY <1>4, <1>r, <1>u, <2>1, <2>3 DEF AgSubscription
<1>5. CASE AgDelete(n)
  <2>1. CASE AgAbort(n)
    BY <1>k, <2>1
  <2>2. CASE ~ AgAbort(n)
    <3>1. AgReceives(n, {"SUB_REQ", "DEL_REQ", "CTRL_REQ"}) /\ AgAnswer(n, Head(agIn[n]))
      BY <1>5, <2>2 DEF AgDelete, AgReceives
    <3>2. agSubs' \in [Nodes -> SUBSET [rid : ReqIds, rf : RanFuncs]]
      BY <1>5, <2>2 DEF AgDelete, TypeAgents
    <3>3. TypeAgents'
      BY <1>5, <1>r, <2>2, <3>1, <3>2 DEF AgDelete, TypeAgents
    <3>. QED
      BY <1>5, <1>r, <1>u, <2>2, <3>1, <3>3 DEF AgDelete
  <2>. QED
    BY <2>1, <2>2
<1>6. CASE AgControl(n)
  <2>1. AgReceives(n, {"SUB_REQ", "DEL_REQ", "CTRL_REQ"}) /\ AgAnswer(n, Head(agIn[n]))
    BY <1>6 DEF AgControl, AgReceives
  <2>2. TypeAgents'
    BY <1>6, <1>r, <2>1 DEF AgControl, TypeAgents
  <2>. QED
    BY <1>6, <1>r, <1>u, <2>1, <2>2 DEF AgControl
<1>7. CASE AgIndication(n)
  <2>1. PICK s \in agSubs[n] : AgSend([type |-> "IND", node |-> n, rid |-> s.rid, rf |-> s.rf])
    BY <1>7 DEF AgIndication
  <2>2. [type |-> "IND", node |-> n, rid |-> s.rid, rf |-> s.rf] \in ToRic
    BY DEF TypeAgents, ToRic, E2Answers
  <2>3. TypeAgents'
    BY <1>7 DEF AgIndication, TypeAgents
  <2>. QED
    BY <1>7, <1>a, <1>u, <2>1, <2>2, <2>3 DEF AgIndication
<1>8. CASE AgStop(n)
  <2>1. ast' \in [Nodes -> {"off", "up", "aborted"}]
    BY <1>8 DEF AgStop, TypeAgents
  <2>2. TypeAgents'
    BY <1>8, <1>d, <2>1 DEF AgStop, TypeAgents
  <2>. QED
    BY <1>8, <1>d, <1>u, <2>2 DEF AgStop
<1>. QED
    BY <1>1, <1>2, <1>3, <1>4, <1>5, <1>6, <1>7, <1>8 DEF AgentLoop

\* An xApp keeps the types.
LEMMA XAppTypes ==
    ASSUME TypeOK, NEW x \in XApps,
           \/ XAppStart(x) \/ XAppResendSetup(x) \/ XAppUnsubscribe(x) \/ XAppLoop(x)
           \/ \E k \in {"SUB_REQ", "CTRL_REQ"}, n \in Nodes, f \in RanFuncs : XAppRequest(x, k, n, f)
    PROVE  TypeOK'
<1>. USE DEF TypeOK
<1>h. xIn[x] # <<>> => Head(xIn[x]) \in ToXApp /\ Tail(xIn[x]) \in Seq(ToXApp)
    BY QueueTypes DEF TypeXApps
<1>c. ASSUME xIn[x] # <<>>, XConsume(x) PROVE xIn' \in [XApps -> Seq(ToXApp)]
    BY <1>c, <1>h DEF XConsume, TypeXApps
<1>u. ASSUME UNCHANGED <<shared, ricAbort, ricVars, iappVars, ricIn, agVars>>,
             iappIn' \in Seq(ToIApp), iappEdge' \in BOOLEAN, TypeXApps'
      PROVE  TypeOK'
    BY <1>u DEF TypeShared, TypeRic, TypeIApp, TypeSockets, TypeAgents,
       shared, ricVars, iappVars, agVars
<1>v. iappIn \in Seq(ToIApp) /\ iappEdge \in BOOLEAN
    BY DEF TypeSockets
<1>s. [type |-> "E42_SETUP_REQ", x |-> x] \in ToIApp
    BY DEF ToIApp
<1>1. CASE XAppStart(x)
  <2>1. TypeXApps'
    BY <1>1 DEF XAppStart, TypeXApps
  <2>. QED
    BY <1>1, <1>s, <1>u, <2>1, SendTypes DEF XAppStart
<1>2. CASE XAppResendSetup(x)
  <2>1. TypeXApps'
    BY <1>2 DEF XAppResendSetup, TypeXApps
  <2>. QED
    BY <1>2, <1>s, <1>u, <2>1, SendTypes DEF XAppResendSetup
<1>k. ASSUME XAppAbort(x) PROVE TypeOK'
  <2>1. xIn' \in [XApps -> Seq(ToXApp)]
    BY <1>k DEF XAppAbort, TypeXApps
  <2>2. TypeXApps'
    BY <1>k, <2>1 DEF XAppAbort, TypeXApps
  <2>. QED
    BY <1>k, <1>u, <1>v, <2>2 DEF XAppAbort, iappSock
<1>3. CASE XAppSetupResponse(x)
  <2>1. CASE XAppAbort(x)
    BY <1>k, <2>1
  <2>2. CASE ~ XAppAbort(x)
    <3>1. Head(xIn[x]) \in ToXApp /\ Head(xIn[x]).type = "E42_SETUP_RESP" /\ xIn[x] # <<>>
      BY <1>3, <1>h DEF XAppSetupResponse, XReceives
    <3>2. Head(xIn[x]).xid \in Nat /\ Head(xIn[x]).nodes \in SUBSET Nodes
      BY <3>1 DEF ToXApp, E2Answers
    <3>3. xIn' \in [XApps -> Seq(ToXApp)]
      BY <1>3, <1>c, <2>2, <3>1 DEF XAppSetupResponse
    <3>4. TypeXApps'
      BY <1>3, <2>2, <3>2, <3>3 DEF XAppSetupResponse, TypeXApps
    <3>. QED
      BY <1>3, <1>u, <1>v, <2>2, <3>4 DEF XAppSetupResponse, iappSock
  <2>. QED
    BY <2>1, <2>2
<1>4. ASSUME NEW k \in {"SUB_REQ", "CTRL_REQ"}, NEW n \in Nodes, NEW f \in RanFuncs,
             XAppRequest(x, k, n, f)
      PROVE  TypeOK'
  <2>. DEFINE h == Len(issued[x]) + 1
              q == [kind |-> k, node |-> n, rf |-> f]
  <2>q. q \in Requests
    BY DEF Requests
  <2>i. issued[x] \in Seq(Requests)
    BY DEF TypeXApps
  <2>1. issued[x] \in Seq(Requests) /\ q \in Requests /\ h \in Nat \ {0}
    BY <2>q, <2>i
  <2>2. Append(issued[x], q) \in Seq(Requests) /\ DOMAIN Append(issued[x], q) = 1 .. h
        /\ DOMAIN issued[x] \subseteq 1 .. h
    BY <2>1
  <2>3. issued' = [issued EXCEPT ![x] = Append(@, q)] /\ active' = [active EXCEPT ![x] = @ \cup {h}]
    BY <1>4 DEF XAppRequest
  <2>. HIDE DEF h, q
  <2>4. /\ issued' \in [XApps -> Seq(Requests)] /\ active' \in [XApps -> SUBSET Nat]
        /\ \A y \in XApps : active'[y] \subseteq DOMAIN issued'[y]
    <3>1. issued' \in [XApps -> Seq(Requests)] /\ issued'[x] = Append(issued[x], q)
          /\ \A y \in XApps \ {x} : issued'[y] = issued[y]
      BY <2>2, <2>3 DEF TypeXApps
    <3>2. active' \in [XApps -> SUBSET Nat] /\ active'[x] = active[x] \cup {h}
          /\ \A y \in XApps \ {x} : active'[y] = active[y]
      BY <2>1, <2>3 DEF TypeXApps
    <3>3. active'[x] \subseteq DOMAIN issued'[x]
      BY <2>1, <2>2, <3>1, <3>2 DEF TypeXApps
    <3>. QED
      BY <3>1, <3>2, <3>3 DEF TypeXApps
  <2>5. AnswerTo(k) \in {"SUB_RESP", "CTRL_ACK"}
    BY DEF AnswerTo
  <2>6. xop' \in [XApps -> [ans : {"SUB_RESP", "DEL_RESP", "CTRL_ACK"}, h : Nat] \cup {NoOp}]
    BY <1>4, <2>1, <2>5 DEF XAppRequest, TypeXApps, h
  <2>7. TypeXApps'
    BY <1>4, <2>4, <2>6 DEF XAppRequest, TypeXApps
  <2>8. [type |-> k, xid |-> xid[x], h |-> h, node |-> n, rf |-> f] \in ToIApp
    BY <2>1 DEF ToIApp, TypeXApps
  <2>. QED
    BY <1>4, <1>u, <2>7, <2>8, SendTypes DEF XAppRequest, h
<1>5. CASE XAppUnsubscribe(x)
  <2>1. PICK h \in active[x] :
          /\ SendToIApp([type |-> "DEL_REQ", xid |-> xid[x], h |-> h,
                         node |-> issued[x][h].node, rf |-> issued[x][h].rf])
          /\ xop' = [xop EXCEPT ![x] = [ans |-> "DEL_RESP", h |-> h]]
    BY <1>5 DEF XAppUnsubscribe
  <2>2. h \in DOMAIN issued[x] /\ issued[x] \in Seq(Requests) /\ h \in Nat
    BY DEF TypeXApps
  <2>3. issued[x][h] \in Requests
    BY <2>2
  <2>4. [type |-> "DEL_REQ", xid |-> xid[x], h |-> h, node |-> issued[x][h].node,
         rf |-> issued[x][h].rf] \in ToIApp
    BY <2>2, <2>3 DEF Requests, ToIApp, TypeXApps
  <2>5. TypeXApps'
    BY <1>5, <2>1, <2>2 DEF XAppUnsubscribe, TypeXApps
  <2>. QED
    BY <1>5, <1>u, <2>1, <2>4, <2>5, SendTypes DEF XAppUnsubscribe
<1>6. CASE XAppAnswer(x)
  <2>1. CASE XAppAbort(x)
    BY <1>k, <2>1
  <2>2. CASE ~ XAppAbort(x)
    <3>1. xIn' \in [XApps -> Seq(ToXApp)]
      BY <1>6, <1>c, <2>2 DEF XAppAnswer, XReceives
    <3>a. PICK done : active' = [active EXCEPT ![x] = done] /\ done \subseteq active[x]
      <4>1. active' = [active EXCEPT ![x] = IF xop[x].ans = "SUB_RESP" THEN active[x]
                                              ELSE active[x] \ {xop[x].h}]
        BY <1>6, <2>2 DEF XAppAnswer, TypeXApps
      <4>. QED
        BY <4>1
    <3>2. active' \in [XApps -> SUBSET Nat] /\ \A y \in XApps : active'[y] \subseteq active[y]
      BY <3>a DEF TypeXApps
    <3>3. TypeXApps'
      BY <1>6, <2>2, <3>1, <3>2 DEF XAppAnswer, TypeXApps
    <3>. QED
      BY <1>6, <1>u, <1>v, <2>2, <3>3 DEF XAppAnswer, iappSock
  <2>. QED
    BY <2>1, <2>2
<1>7. CASE XAppIndication(x)
  <2>1. xIn' \in [XApps -> Seq(ToXApp)]
    BY <1>7, <1>c DEF XAppIndication, XReceives
  <2>2. TypeXApps'
    BY <1>7, <2>1 DEF XAppIndication, TypeXApps
  <2>. QED
    BY <1>7, <1>u, <1>v, <2>2 DEF XAppIndication, iappSock
<1>. QED
    BY <1>k, <1>1, <1>2, <1>3, <1>4, <1>5, <1>6, <1>7 DEF XAppLoop, XAppTimeout

\* No step of any process breaks a type.
LEMMA TypeStep == TypeOK /\ [Next]_vars => TypeOK'
<1>1. TypeOK /\ UNCHANGED vars => TypeOK'
    BY DEF TypeOK, TypeShared, TypeRic, TypeIApp, TypeSockets, TypeAgents, TypeXApps,
       shared, ricVars, iappVars, iappSock, agVars, xVars, vars
<1>. QED
    BY <1>1, RicTypes, IAppTypes, AgentTypes, XAppTypes DEF Next

\* Type correctness: whatever the interleaving of the two RIC threads, the
\* agents and the xApps, the shared maps, the timers and the queues keep their
\* types, request ids stay within uint16_t and a handler always holds a
\* message of the kind it works on.
THEOREM TypeCorrect == Spec => []TypeOK
    BY TypeInit, TypeStep, PTL DEF Spec

-----------------------------------------------------------------------------

\* Appending adds one message to a queue, and taking the head adds none.
LEMMA RangeQueue ==
    ASSUME NEW S, NEW s \in Seq(S)
    PROVE  /\ \A e \in S : Range(Append(s, e)) = Range(s) \cup {e}
           /\ s # <<>> => Head(s) \in Range(s) /\ Range(Tail(s)) \subseteq Range(s)
<1>1. ASSUME NEW e \in S PROVE Range(Append(s, e)) = Range(s) \cup {e}
  <2>1. Append(s, e) \in Seq(S) /\ Len(Append(s, e)) = Len(s) + 1 /\ Len(s) \in Nat
    OBVIOUS
  <2>2. \A i \in 1 .. Len(s) : Append(s, e)[i] = s[i]
    OBVIOUS
  <2>3. Append(s, e)[Len(s) + 1] = e
    OBVIOUS
  <2>4. DOMAIN Append(s, e) = 1 .. Len(s) + 1 /\ DOMAIN s = 1 .. Len(s)
    BY <2>1
  <2>. QED
    BY <2>1, <2>2, <2>3, <2>4 DEF Range
<1>2. ASSUME s # <<>> PROVE Head(s) \in Range(s) /\ Range(Tail(s)) \subseteq Range(s)
  <2>1. Len(s) \in Nat \ {0} /\ DOMAIN s = 1 .. Len(s) /\ Head(s) = s[1]
    BY <1>2
  <2>2. Tail(s) \in Seq(S) /\ Len(Tail(s)) = Len(s) - 1
    BY <1>2
  <2>3. \A i \in 1 .. Len(s) - 1 : Tail(s)[i] = s[i + 1]
    BY <1>2
  <2>4. DOMAIN Tail(s) = 1 .. Len(s) - 1
    BY <2>1, <2>2
  <2>. QED
    BY <2>1, <2>3, <2>4 DEF Range
<1>. QED
    BY <1>1, <1>2

\* reqs2 records everything that reqs records.
Extends(reqs, reqs2) ==
    \A x \in XApps : \A h \in DOMAIN reqs[x] : h \in DOMAIN reqs2[x] /\ reqs2[x][h] = reqs[x][h]

\* A request stays owned when xApps are registered and requests are issued.
LEMMA OwnedGrows ==
    ASSUME NEW regs, NEW regs2, NEW reqs, NEW reqs2, regs \subseteq XAppRegs,
           regs \subseteq regs2, Extends(reqs, reqs2),
           NEW i, NEW h, NEW kind, NEW n, NEW f, OwnedIn(regs, reqs, i, h, kind, n, f)
    PROVE  OwnedIn(regs2, reqs2, i, h, kind, n, f)
<1>1. PICK r \in regs : /\ r.xid = i /\ h \in DOMAIN reqs[r.x]
                        /\ reqs[r.x][h] = [kind |-> kind, node |-> n, rf |-> f]
    BY DEF OwnedIn
<1>2. r.x \in XApps /\ r \in regs2
    BY DEF XAppRegs
<1>. QED
    BY <1>1, <1>2 DEF OwnedIn, Extends

\* A request id stays traced when mappings, xApps and requests are added.
LEMMA TracedGrows ==
    ASSUME NEW regs, NEW regs2, NEW reqs, NEW reqs2, regs \subseteq XAppRegs,
           regs \subseteq regs2, Extends(reqs, reqs2), NEW es, NEW es2, es \subseteq es2,
           NEW n, NEW rid, NEW f, NEW kind, TracedIn(es, regs, reqs, n, rid, f, kind)
    PROVE  TracedIn(es2, regs2, reqs2, n, rid, f, kind)
<1>1. PICK e \in es : /\ e.rid = rid /\ e.node = n /\ e.rf = f
                      /\ OwnedIn(regs, reqs, e.xid, e.h, kind, n, f)
    BY DEF TracedIn
<1>2. OwnedIn(regs2, reqs2, e.xid, e.h, kind, n, f)
    BY <1>1, OwnedGrows
<1>. QED
    BY <1>1, <1>2 DEF TracedIn

\* What each process leaves alone.
RicFrame == UNCHANGED <<iappVars, iappSock, xsad, mapRicId, mtx, xappId, agSubs,
                        xst, xid, issued, active, xop>>
IAppFrame == UNCHANGED <<ricVars, ricIn, agSubs, xst, xid, issued, active, xop>>
AgFrame == UNCHANGED <<shared, ricAbort, ricVars, iappVars, iappSock, xVars>>
XFrame == UNCHANGED <<shared, ricAbort, ricVars, iappVars, ricIn, agVars>>

\* The RIC thread leaves the iApp thread, the mappings and the xApps alone.
LEMMA RicFrames == RicThread \/ RicTimeout => RicFrame
<1>. USE DEF RicFrame, Abort, shared, ricVars, iappVars, iappSock, agVars, xVars
<1>1. RicSetupRequest => RicFrame BY DEF RicSetupRequest
<1>2. RicAddNode => RicFrame BY DEF RicAddNode
<1>3. RicAcceptNode => RicFrame BY DEF RicAcceptNode
<1>4. RicAnswer => RicFrame BY DEF RicAnswer
<1>5. RicIndication => RicFrame BY DEF RicIndication
<1>6. RicLookup => RicFrame BY DEF RicLookup
<1>7. RicNotify => RicFrame BY DEF RicNotify
<1>8. RicShutdown => RicFrame BY DEF RicShutdown
<1>9. RicEraseConn => RicFrame BY DEF RicEraseConn
<1>10. RicRmNode => RicFrame BY DEF RicRmNode
<1>11. RicTimeout => RicFrame BY DEF RicTimeout, vars
<1>. QED
    BY <1>1, <1>2, <1>3, <1>4, <1>5, <1>6, <1>7, <1>8, <1>9, <1>10, <1>11 DEF RicThread

\* The iApp thread leaves the RIC thread and the requests of the xApps alone.
LEMMA IAppFrames == IAppThread => IAppFrame
<1>. USE DEF IAppFrame, Abort, shared, ricVars, iappVars, iappSock, agVars, xVars
<1>1. IAppSetupRequest => IAppFrame BY DEF IAppSetupRequest
<1>2. IAppRegXApp => IAppFrame BY DEF IAppRegXApp
<1>3. IAppSetupResponse => IAppFrame BY DEF IAppSetupResponse
<1>4. IAppRequest => IAppFrame BY DEF IAppRequest
<1>5. IAppLock => IAppFrame BY DEF IAppLock
<1>6. IAppStartTimer => IAppFrame BY DEF IAppStartTimer
<1>7. IAppForward => IAppFrame BY DEF IAppForward
<1>8. IAppAddMap => IAppFrame BY DEF IAppAddMap
<1>9. IAppDelete => IAppFrame BY DEF IAppDelete
<1>10. IAppDeleteTimer => IAppFrame BY DEF IAppDeleteTimer
<1>. QED
    BY <1>1, <1>2, <1>3, <1>4, <1>5, <1>6, <1>7, <1>8, <1>9, <1>10 DEF IAppThread

AgentStep(n) == AgStart(n) \/ AgResendSetup(n) \/ AgentLoop(n) \/ AgIndication(n) \/ AgStop(n)

\* An agent changes only its own state and the E2 socket of the RIC.
LEMMA AgFrames == ASSUME NEW n \in Nodes, AgentStep(n) PROVE AgFrame
<1>. USE DEF AgFrame, AgAbort
<1>1. AgStart(n) => AgFrame BY DEF AgStart
<1>2. AgResendSetup(n) => AgFrame BY DEF AgResendSetup
<1>3. AgSetupResponse(n) => AgFrame BY DEF AgSetupResponse
<1>4. AgSubscription(n) => AgFrame BY DEF AgSubscription
<1>5. AgDelete(n) => AgFrame BY DEF AgDelete
<1>6. AgControl(n) => AgFrame BY DEF AgControl
<1>7. AgIndication(n) => AgFrame BY DEF AgIndication
<1>8. AgStop(n) => AgFrame BY DEF AgStop
<1>. QED
    BY <1>1, <1>2, <1>3, <1>4, <1>5, <1>6, <1>7, <1>8 DEF AgentStep, AgentLoop

XAppRequests(x) ==
    \E k \in {"SUB_REQ", "CTRL_REQ"}, n \in Nodes, f \in RanFuncs : XAppRequest(x, k, n, f)
XAppStep(x) ==
    XAppStart(x) \/ XAppResendSetup(x) \/ XAppUnsubscribe(x) \/ XAppLoop(x) \/ XAppRequests(x)

\* An xApp changes only its own state and the E42 socket of the RIC.
LEMMA XFrames == ASSUME NEW x \in XApps, XAppStep(x) PROVE XFrame
<1>. USE DEF XFrame, XAppAbort
<1>1. XAppStart(x) => XFrame BY DEF XAppStart
<1>2. XAppResendSetup(x) => XFrame BY DEF XAppResendSetup
<1>3. XAppSetupResponse(x) => XFrame BY DEF XAppSetupResponse
<1>4. XAppRequests(x) => XFrame BY DEF XAppRequest, XAppRequests
<1>5. XAppUnsubscribe(x) => XFrame BY DEF XAppUnsubscribe
<1>6. XAppAnswer(x) => XFrame BY DEF XAppAnswer
<1>7. XAppIndication(x) => XFrame BY DEF XAppIndication
<1>. QED
    BY <1>1, <1>2, <1>3, <1>4, <1>5, <1>6, <1>7 DEF XAppStep, XAppLoop, XAppTimeout

Entries == mapRicId \cup InFlight

Grow == xsad \subseteq xsad' /\ Extends(issued, issued') /\ Entries \subseteq Entries'

\* Registrations, issued requests and mappings are never forgotten; a mapping
\* that is being inserted stays in flight until it is in the map.
LEMMA Grows == TypeOK /\ [Next]_vars => Grow
<1>. SUFFICES ASSUME TypeOK, [Next]_vars PROVE Grow
    OBVIOUS
<1>u. ASSUME UNCHANGED <<xsad, issued, mapRicId, iappVars>> PROVE Grow
    BY <1>u DEF Grow, Extends, Entries, InFlight, iappVars
<1>1. CASE RicThread \/ RicTimeout
    BY <1>1, <1>u, RicFrames DEF RicFrame
<1>2. CASE IAppThread
  <2>. Extends(issued, issued')
    BY <1>2, IAppFrames DEF IAppFrame, Extends
  <2>a. ASSUME NEW why, Abort(why) PROVE Grow
    BY <1>u, <2>a DEF Abort, shared, xVars
  <2>n. ASSUME xsad \subseteq xsad', mapRicId' = mapRicId, InFlight = {} PROVE Grow
    BY <2>n DEF Grow, Entries
  <2>1. CASE IAppSetupRequest
    BY <2>1, <2>n DEF IAppSetupRequest, IAppReceives, InFlight
  <2>2. CASE IAppRegXApp
    BY <2>2, <2>a, <2>n DEF IAppRegXApp, InFlight
  <2>3. CASE IAppSetupResponse
    BY <2>3, <2>n DEF IAppSetupResponse, InFlight, shared
  <2>4. CASE IAppRequest
    BY <2>4, <2>a, <2>n DEF IAppRequest, IAppReceives, InFlight, shared
  <2>5. CASE IAppLock
    BY <2>5, <2>n DEF IAppLock, InFlight
  <2>6. CASE IAppStartTimer
    BY <2>6, <2>n DEF IAppStartTimer, InFlight
  <2>7. CASE IAppForward
    <3>1. CASE Abort("E2 Node not found")
      BY <2>a, <3>1
    <3>2. CASE ~ Abort("E2 Node not found") /\ imsg.type = "DEL_REQ"
      BY <2>7, <2>n, <3>2 DEF IAppForward, InFlight, shared
    <3>3. CASE ~ Abort("E2 Node not found") /\ imsg.type # "DEL_REQ"
      <4>1. ipc = "send" /\ ipc' = "add_map" /\ UNCHANGED <<imsg, irid, xsad, mapRicId>>
        BY <2>7, <3>3 DEF IAppForward, shared
      <4>2. InFlight' = InFlight
        BY <4>1 DEF InFlight
      <4>. QED
        BY <4>1, <4>2 DEF Grow, Entries
    <3>. QED
      BY <3>1, <3>2, <3>3
  <2>8. CASE IAppAddMap
    <3>1. CASE Abort("ric_req_id already in the map")
      BY <2>a, <3>1
    <3>2. CASE ~ Abort("ric_req_id already in the map")
      <4>1. mapRicId' = mapRicId \cup {[rid |-> irid, node |-> imsg.node, xid |-> imsg.xid,
                                        h |-> imsg.h, rf |-> imsg.rf]} /\ xsad' = xsad
        BY <2>8, <3>2 DEF IAppAddMap
      <4>2. InFlight \subseteq mapRicId'
        BY <4>1 DEF InFlight
      <4>. QED
        BY <4>1, <4>2 DEF Grow, Entries
    <3>. QED
      BY <3>1, <3>2
  <2>9. CASE IAppDelete
    BY <2>9, <2>a, <2>n DEF IAppDelete, IAppReceives, InFlight, shared
  <2>10. CASE IAppDeleteTimer
    BY <2>10, <2>n DEF IAppDeleteTimer, InFlight
  <2>. QED
    BY <1>2, <2>1, <2>2, <2>3, <2>4, <2>5, <2>6, <2>7, <2>8, <2>9, <2>10 DEF IAppThread
<1>3. ASSUME NEW n \in Nodes, AgentStep(n) PROVE Grow
    BY <1>3, <1>u, AgFrames DEF AgFrame, shared, xVars
<1>4. ASSUME NEW x \in XApps, XAppStep(x) PROVE Grow
  <2>1. UNCHANGED <<xsad, mapRicId, iappVars>>
    BY <1>4, XFrames DEF XFrame, shared
  <2>2. CASE UNCHANGED issued
    BY <1>u, <2>1, <2>2
  <2>3. ASSUME NEW k \in {"SUB_REQ", "CTRL_REQ"}, NEW n \in Nodes, NEW f \in RanFuncs,
               XAppRequest(x, k, n, f)
        PROVE  Grow
    <3>. DEFINE q == [kind |-> k, node |-> n, rf |-> f]
    <3>1. issued' = [issued EXCEPT ![x] = Append(@, q)]
      BY <2>3 DEF XAppRequest
    <3>2. issued \in [XApps -> Seq(Requests)] /\ q \in Requests
      BY DEF TypeOK, TypeXApps, Requests
    <3>. HIDE DEF q
    <3>3. \A h \in DOMAIN issued[x] : h \in DOMAIN Append(issued[x], q)
                                     /\ Append(issued[x], q)[h] = issued[x][h]
      BY <3>2
    <3>4. Extends(issued, issued')
      BY <3>1, <3>2, <3>3 DEF Extends
    <3>5. Entries' = Entries
      BY <2>1 DEF Entries, InFlight, iappVars
    <3>. QED
      BY <2>1, <3>4, <3>5 DEF Grow
  <2>4. CASE XAppStart(x) \/ XAppResendSetup(x) \/ XAppUnsubscribe(x) \/ XAppLoop(x)
    BY <2>2, <2>4 DEF XAppStart, XAppResendSetup, XAppUnsubscribe, XAppLoop, XAppTimeout, XAppSetupResponse,
       XAppAnswer, XAppIndication, XAppAbort
  <2>. QED
    BY <1>4, <2>3, <2>4 DEF XAppStep, XAppRequests
<1>5. CASE UNCHANGED vars
    BY <1>5, <1>u DEF vars, shared, xVars
<1>. QED
    BY <1>1, <1>2, <1>3, <1>4, <1>5 DEF Next, AgentStep, XAppStep, XAppRequests

\* So whatever is owned or traced stays so.
LEMMA Stable ==
    ASSUME TypeOK, [Next]_vars
    PROVE  /\ \A i, h, kind, n, f :
                OwnedIn(xsad, issued, i, h, kind, n, f) => OwnedIn(xsad', issued', i, h, kind, n, f)
           /\ \A n, rid, f, kind :
                TracedIn(Entries, xsad, issued, n, rid, f, kind) =>
                TracedIn(Entries', xsad', issued', n, rid, f, kind)
<1>1. Grow /\ xsad \subseteq XAppRegs
    BY Grows DEF TypeOK, TypeShared
<1>. QED
    BY <1>1, OwnedGrows, TracedGrows DEF Grow

Only(cond, m) == IF cond THEN {m} ELSE {}

\* What a send adds to the queues.
LEMMA SendRange ==
    ASSUME TypeOK
    PROVE  /\ \A n \in Nodes, m \in ToAgent : SendToNode(n, m) =>
                \A k \in Nodes : Range(agIn'[k]) \subseteq Range(agIn[k]) \cup Only(k = n, m)
           /\ \A x \in XApps, m \in ToXApp : SendToXApp(x, m) =>
                \A y \in XApps : Range(xIn'[y]) \subseteq Range(xIn[y]) \cup Only(y = x, m)
           /\ \A m \in ToIApp : SendToIApp(m) => Range(iappIn') = Range(iappIn) \cup {m}
           /\ \A m \in ToRic : AgSend(m) => Range(ricIn') = Range(ricIn) \cup {m}
<1>1. ASSUME NEW n \in Nodes, NEW m \in ToAgent, SendToNode(n, m), NEW k \in Nodes
      PROVE  Range(agIn'[k]) \subseteq Range(agIn[k]) \cup Only(k = n, m)
  <2>1. agIn \in [Nodes -> Seq(ToAgent)]
    BY DEF TypeOK, TypeAgents
  <2>2. agIn'[k] = agIn[k] \/ (k = n /\ agIn'[k] = Append(agIn[n], m))
    BY <1>1, <2>1 DEF SendToNode
  <2>3. Range(Append(agIn[n], m)) = Range(agIn[n]) \cup {m}
    BY <2>1, RangeQueue
  <2>. QED
    BY <2>2, <2>3 DEF Only
<1>2. ASSUME NEW x \in XApps, NEW m \in ToXApp, SendToXApp(x, m), NEW y \in XApps
      PROVE  Range(xIn'[y]) \subseteq Range(xIn[y]) \cup Only(y = x, m)
  <2>1. xIn \in [XApps -> Seq(ToXApp)]
    BY DEF TypeOK, TypeXApps
  <2>2. xIn'[y] = xIn[y] \/ (y = x /\ xIn'[y] = Append(xIn[x], m))
    BY <1>2, <2>1 DEF SendToXApp
  <2>3. Range(Append(xIn[x], m)) = Range(xIn[x]) \cup {m}
    BY <2>1, RangeQueue
  <2>. QED
    BY <2>2, <2>3 DEF Only
<1>3. ASSUME NEW m \in ToIApp, SendToIApp(m) PROVE Range(iappIn') = Range(iappIn) \cup {m}
    BY <1>3, RangeQueue DEF SendToIApp, TypeOK, TypeSockets
<1>4. ASSUME NEW m \in ToRic, AgSend(m) PROVE Range(ricIn') = Range(ricIn) \cup {m}
    BY <1>4, RangeQueue DEF AgSend, TypeOK, TypeSockets
<1>. QED
    BY <1>1, <1>2, <1>3, <1>4

\* Receiving takes a message that was in the queue and adds none.
LEMMA ReceiveRange ==
    ASSUME TypeOK
    PROVE  /\ ricIn # <<>> => Head(ricIn) \in Range(ricIn) /\ Range(Tail(ricIn)) \subseteq Range(ricIn)
           /\ iappIn # <<>> => Head(iappIn) \in Range(iappIn)
           /\ iappIn # <<>> /\ IAppConsume => Range(iappIn') \subseteq Range(iappIn)
           /\ \A n \in Nodes : agIn[n] # <<>> => Head(agIn[n]) \in Range(agIn[n])
           /\ \A n \in Nodes : agIn[n] # <<>> /\ AgConsume(n) =>
                \A k \in Nodes : Range(agIn'[k]) \subseteq Range(agIn[k])
           /\ \A x \in XApps : xIn[x] # <<>> => Head(xIn[x]) \in Range(xIn[x])
           /\ \A x \in XApps : xIn[x] # <<>> /\ XConsume(x) =>
                \A y \in XApps : Range(xIn'[y]) \subseteq Range(xIn[y])
<1>1. ricIn # <<>> => Head(ricIn) \in Range(ricIn) /\ Range(Tail(ricIn)) \subseteq Range(ricIn)
    BY RangeQueue DEF TypeOK, TypeSockets
<1>2. iappIn # <<>> => Head(iappIn) \in Range(iappIn) /\ Range(Tail(iappIn)) \subseteq Range(iappIn)
    BY RangeQueue DEF TypeOK, TypeSockets
<1>3. ASSUME NEW n \in Nodes, agIn[n] # <<>>
      PROVE  Head(agIn[n]) \in Range(agIn[n]) /\ Range(Tail(agIn[n])) \subseteq Range(agIn[n])
    BY <1>3, RangeQueue DEF TypeOK, TypeAgents
<1>4. ASSUME NEW n \in Nodes, agIn[n] # <<>>, AgConsume(n), NEW k \in Nodes
      PROVE  Range(agIn'[k]) \subseteq Range(agIn[k])
  <2>1. agIn'[k] = agIn[k] \/ (k = n /\ agIn'[k] = Tail(agIn[n]))
    BY <1>4 DEF AgConsume, TypeOK, TypeAgents
  <2>. QED
    BY <1>3, <1>4, <2>1
<1>5. ASSUME NEW x \in XApps, xIn[x] # <<>>
      PROVE  Head(xIn[x]) \in Range(xIn[x]) /\ Range(Tail(xIn[x])) \subseteq Range(xIn[x])
    BY <1>5, RangeQueue DEF TypeOK, TypeXApps
<1>6. ASSUME NEW x \in XApps, xIn[x] # <<>>, XConsume(x), NEW y \in XApps
      PROVE  Range(xIn'[y]) \subseteq Range(xIn[y])
  <2>1. xIn'[y] = xIn[y] \/ (y = x /\ xIn'[y] = Tail(xIn[x]))
    BY <1>6 DEF XConsume, TypeOK, TypeXApps
  <2>. QED
    BY <1>5, <1>6, <2>1
<1>. QED
    BY <1>1, <1>2, <1>3, <1>4, <1>5, <1>6 DEF IAppConsume

\* The RIC thread only consumes answers, sends setup responses to agents and
\* answers and indications to xApps.
LEMMA RicQueues ==
    ASSUME TypeOK, RicThread \/ RicTimeout
    PROVE  /\ Range(ricIn') \subseteq Range(ricIn)
           /\ \A k \in Nodes : \A m \in Range(agIn'[k]) : m \in Range(agIn[k]) \/ m.type = "SETUP_RESP"
           /\ RicNotify \/ xIn' = xIn
<1>a. ASSUME NEW why, Abort(why) PROVE UNCHANGED <<ricIn, agIn, xIn>>
    BY <1>a DEF Abort, agVars, xVars
<1>1. CASE RicAcceptNode
  <2>1. [type |-> "SETUP_RESP"] \in ToAgent /\ rmsg.node \in Nodes
    BY <1>1 DEF RicAcceptNode, TypeOK, TypeRic, ToRic, ToAgent
  <2>2. \A k \in Nodes : Range(agIn'[k]) \subseteq Range(agIn[k]) \cup {[type |-> "SETUP_RESP"]}
    BY <1>1, <2>1, SendRange DEF RicAcceptNode, Only
  <2>. QED
    BY <1>1, <2>2 DEF RicAcceptNode, xVars
<1>2. CASE RicNotify
    BY <1>2, <1>a DEF RicNotify, agVars
<1>3. CASE RicSetupRequest \/ RicAnswer \/ RicIndication \/ RicShutdown
  <2>1. ricIn # <<>> /\ (ricIn' = ricIn \/ ricIn' = Tail(ricIn)) /\ UNCHANGED <<agIn, xIn>>
    BY <1>3, <1>a DEF RicSetupRequest, RicAnswer, RicIndication, RicShutdown, RicReceives,
       agVars, xVars
  <2>. QED
    BY <2>1, ReceiveRange
<1>4. CASE RicAddNode \/ RicLookup \/ RicEraseConn \/ RicRmNode \/ RicTimeout
    BY <1>4, <1>a DEF RicAddNode, RicLookup, RicEraseConn, RicRmNode, RicTimeout, vars, agVars, xVars
<1>. QED
    BY <1>1, <1>2, <1>3, <1>4 DEF RicThread

\* What RicNotify sends, and to whom.
LEMMA NotifyMessage ==
    ASSUME TypeOK, RicNotify
    PROVE  \/ \A r \in xsad : r.xid # rto.xid
           \/ \E r \in xsad : /\ r.xid = rto.xid
                /\ \A y \in XApps : Range(xIn'[y]) \subseteq Range(xIn[y]) \cup
                     Only(y = r.x, [type |-> rmsg.type, h |-> rto.h, rf |-> rmsg.rf,
                                    node |-> rmsg.node])
<1>. SUFFICES ASSUME ~ \A r \in xsad : r.xid # rto.xid
              PROVE  \E r \in xsad : /\ r.xid = rto.xid
                /\ \A y \in XApps : Range(xIn'[y]) \subseteq Range(xIn[y]) \cup
                     Only(y = r.x, [type |-> rmsg.type, h |-> rto.h, rf |-> rmsg.rf,
                                    node |-> rmsg.node])
    OBVIOUS
<1>1. PICK r \in xsad : /\ r.xid = rto.xid
                        /\ SendToXApp(r.x, [type |-> rmsg.type, h |-> rto.h,
                                            rf |-> rmsg.rf, node |-> rmsg.node])
    BY DEF RicNotify
<1>2. r.x \in XApps /\ [type |-> rmsg.type, h |-> rto.h, rf |-> rmsg.rf,
                        node |-> rmsg.node] \in ToXApp
    BY DEF RicNotify, TypeOK, TypeShared, TypeRic, XAppRegs, ToRic, E2Answers, MapEntries, ToXApp
<1>. QED
    BY <1>1, <1>2, SendRange

\* xApp ids: the counter only grows and an id is registered before it is told.
LEMMA XAppIdsStep ==
    ASSUME TypeOK, RoutingInv, [Next]_vars
    PROVE  XAppIdsInv'
<1>i. XAppIdsInv
    BY DEF RoutingInv
<1>n. xappId \in Nat /\ \A r \in xsad : r.xid \in Nat
    BY DEF TypeOK, TypeShared, XAppRegs
<1>u. ASSUME UNCHANGED <<xsad, xappId, iappVars>>,
             \A y \in XApps : \A m \in Range(xIn'[y]) :
                m \in Range(xIn[y]) \/ m.type # "E42_SETUP_RESP",
             \A y \in XApps : xst'[y] \in {"idle", "waiting"} =>
                xst[y] \in {"idle", "waiting"} /\ xid'[y] = xid[y]
      PROVE  XAppIdsInv'
    BY <1>i, <1>u DEF XAppIdsInv, iappVars
<1>1. CASE RicThread \/ RicTimeout
  <2>1. UNCHANGED <<xsad, xappId, iappVars, xst, xid>>
    BY <1>1, RicFrames DEF RicFrame
  <2>2. CASE RicNotify
    <3>1. rmsg.type # "E42_SETUP_RESP"
      BY <2>2 DEF RicNotify, TypeOK, TypeRic, E2Answers
    <3>2. \A y \in XApps : \A m \in Range(xIn'[y]) : m \in Range(xIn[y]) \/ m.type # "E42_SETUP_RESP"
      <4>1. CASE \A r \in xsad : r.xid # rto.xid
        BY <2>2, <4>1 DEF RicNotify, Abort, xVars
      <4>2. CASE ~ \A r \in xsad : r.xid # rto.xid
        BY <2>2, <3>1, <4>2, NotifyMessage DEF Only
      <4>. QED
        BY <4>1, <4>2
    <3>. QED
      BY <1>u, <2>1, <3>2
  <2>3. CASE xIn' = xIn
    BY <1>u, <2>1, <2>3
  <2>. QED
    BY <1>1, <2>2, <2>3, RicQueues
<1>2. CASE IAppThread
  <2>f. UNCHANGED <<xst, xid>>
    BY <1>2, IAppFrames DEF IAppFrame
  <2>a. ASSUME NEW why, Abort(why) PROVE XAppIdsInv'
    BY <1>u, <2>a DEF Abort, shared, xVars
  <2>v. ASSUME UNCHANGED <<xsad, xappId, xIn>>, ipc' \notin {"reg_xapp", "send_setup"}
        PROVE  XAppIdsInv'
    BY <1>i, <2>f, <2>v DEF XAppIdsInv
  <2>1. CASE IAppSetupRequest
    <3>1. xappId' = xappId + 1 /\ imsg'.xid = xappId /\ ipc' = "reg_xapp" /\ UNCHANGED <<xsad, xIn>>
      BY <2>1 DEF IAppSetupRequest, xVars
    <3>2. \A r \in xsad : r.xid < xappId + 1 /\ r.xid # xappId
      BY <1>i, <1>n DEF XAppIdsInv
    <3>3. xappId < xappId + 1
      BY <1>n
    <3>. QED
      BY <1>i, <2>f, <3>1, <3>2, <3>3 DEF XAppIdsInv
  <2>2. CASE IAppRegXApp
    <3>1. CASE Abort("xApp ID already registered")
      BY <2>a, <3>1
    <3>2. CASE ~ Abort("xApp ID already registered")
      <4>1. /\ xsad' = xsad \cup {[xid |-> imsg.xid, x |-> imsg.x]} /\ \A r \in xsad : r.xid # imsg.xid
            /\ ipc = "reg_xapp" /\ ipc' = "send_setup" /\ UNCHANGED <<imsg, xappId, xIn>>
        BY <2>2, <3>2 DEF IAppRegXApp, xVars
      <4>2. imsg.xid < xappId
        BY <1>i, <4>1 DEF XAppIdsInv
      <4>. QED
        BY <1>i, <2>f, <4>1, <4>2 DEF XAppIdsInv
    <3>. QED
      BY <3>1, <3>2
  <2>3. CASE IAppSetupResponse
    <3>1. /\ imsg.x \in XApps
          /\ [type |-> "E42_SETUP_RESP", xid |-> imsg.xid, nodes |-> imsg.nodes] \in ToXApp
      BY <2>3 DEF IAppSetupResponse, TypeOK, TypeIApp, SetupReplies, ToXApp
    <3>2. \A y \in XApps : Range(xIn'[y]) \subseteq Range(xIn[y]) \cup
            Only(y = imsg.x, [type |-> "E42_SETUP_RESP", xid |-> imsg.xid, nodes |-> imsg.nodes])
      BY <2>3, <3>1, SendRange DEF IAppSetupResponse
    <3>3. [xid |-> imsg.xid, x |-> imsg.x] \in xsad
      BY <1>i, <2>3 DEF IAppSetupResponse, XAppIdsInv
    <3>4. \A y \in XApps : \A m \in Range(xIn'[y]) :
            m.type = "E42_SETUP_RESP" => [xid |-> m.xid, x |-> y] \in xsad
      BY <1>i, <3>2, <3>3 DEF Only, XAppIdsInv
    <3>5. ipc' = "idle" /\ UNCHANGED <<xsad, xappId>>
      BY <2>3 DEF IAppSetupResponse, shared
    <3>. QED
      BY <1>i, <2>f, <3>4, <3>5 DEF XAppIdsInv
  <2>4. CASE IAppRequest
    BY <2>4, <2>a, <2>v DEF IAppRequest, shared, xVars
  <2>5. CASE IAppLock
    BY <2>5, <2>v DEF IAppLock, xVars
  <2>6. CASE IAppStartTimer
    BY <2>6, <2>v DEF IAppStartTimer, xVars
  <2>7. CASE IAppForward
    BY <2>7, <2>a, <2>v DEF IAppForward, shared, xVars
  <2>8. CASE IAppAddMap
    BY <2>8, <2>a, <2>v DEF IAppAddMap, xVars
  <2>9. CASE IAppDelete
    BY <2>9, <2>a, <2>v DEF IAppDelete, shared, xVars
  <2>10. CASE IAppDeleteTimer
    BY <2>10, <2>v DEF IAppDeleteTimer, xVars
  <2>. QED
    BY <1>2, <2>1, <2>2, <2>3, <2>4, <2>5, <2>6, <2>7, <2>8, <2>9, <2>10 DEF IAppThread
<1>3. ASSUME NEW n \in Nodes, AgentStep(n) PROVE XAppIdsInv'
    BY <1>3, <1>u, AgFrames DEF AgFrame, shared, xVars
<1>4. ASSUME NEW x \in XApps, XAppStep(x) PROVE XAppIdsInv'
  <2>1. UNCHANGED <<xsad, xappId, iappVars>>
    BY <1>4, XFrames DEF XFrame, shared
  <2>t. xst \in [XApps -> {"off", "connecting", "idle", "waiting", "aborted"}]
        /\ xid \in [XApps -> Nat] /\ xIn \in [XApps -> Seq(ToXApp)]
    BY DEF TypeOK, TypeXApps
  <2>k. ASSUME XAppAbort(x) PROVE XAppIdsInv'
    <3>1. \A y \in XApps : xIn'[y] = xIn[y] \/ xIn'[y] = <<>>
      BY <2>k, <2>t DEF XAppAbort
    <3>2. \A y \in XApps : Range(xIn'[y]) \subseteq Range(xIn[y])
      BY <3>1 DEF Range
    <3>3. \A y \in XApps : xst'[y] \in {"idle", "waiting"} => xst'[y] = xst[y]
      BY <2>k, <2>t DEF XAppAbort
    <3>. QED
      BY <1>u, <2>1, <2>k, <3>2, <3>3 DEF XAppAbort
  <2>2. CASE XAppStart(x) \/ XAppResendSetup(x)
    BY <1>u, <2>1, <2>2, <2>t DEF XAppStart, XAppResendSetup
  <2>3. CASE XAppSetupResponse(x)
    <3>1. CASE XAppAbort(x)
      BY <2>k, <3>1
    <3>2. CASE ~ XAppAbort(x)
      <4>1. /\ xIn[x] # <<>> /\ XConsume(x) /\ Head(xIn[x]).type = "E42_SETUP_RESP"
            /\ xid' = [xid EXCEPT ![x] = Head(xIn[x]).xid]
            /\ xst' = [xst EXCEPT ![x] = "idle"]
        BY <2>3, <3>2 DEF XAppSetupResponse, XReceives
      <4>2. \A y \in XApps : Range(xIn'[y]) \subseteq Range(xIn[y])
        BY <4>1, ReceiveRange
      <4>3. [xid |-> Head(xIn[x]).xid, x |-> x] \in xsad
        BY <1>i, <4>1, ReceiveRange DEF XAppIdsInv
      <4>4. \A y \in XApps : xst'[y] \in {"idle", "waiting"} => [xid |-> xid'[y], x |-> y] \in xsad
        BY <1>i, <2>t, <4>1, <4>3 DEF XAppIdsInv
      <4>. QED
        BY <1>i, <2>1, <4>2, <4>4 DEF XAppIdsInv, iappVars
    <3>. QED
      BY <3>1, <3>2
  <2>4. CASE XAppRequests(x) \/ XAppUnsubscribe(x)
    BY <1>u, <2>1, <2>4, <2>t DEF XAppRequests, XAppRequest, XAppUnsubscribe
  <2>5. CASE XAppAnswer(x)
    <3>1. CASE XAppAbort(x)
      BY <2>k, <3>1
    <3>2. CASE ~ XAppAbort(x)
      <4>1. /\ xIn[x] # <<>> /\ XConsume(x) /\ Head(xIn[x]).h \in active[x]
            /\ xst' = [xst EXCEPT ![x] = "idle"] /\ UNCHANGED xid
        BY <2>5, <3>2 DEF XAppAnswer, XReceives
      <4>2. \A y \in XApps : Range(xIn'[y]) \subseteq Range(xIn[y])
        BY <4>1, ReceiveRange
      <4>3. xst[x] \notin {"off", "connecting", "aborted"}
        BY <2>5, <4>1 DEF XAppAnswer, XReceives, RoutingInv, HandlesInv
      <4>4. \A y \in XApps : xst'[y] \in {"idle", "waiting"} => xst[y] \in {"idle", "waiting"}
        BY <2>t, <4>1, <4>3
      <4>. QED
        BY <1>u, <2>1, <4>1, <4>2, <4>4
    <3>. QED
      BY <3>1, <3>2
  <2>6. CASE XAppIndication(x)
    <3>1. \A y \in XApps : Range(xIn'[y]) \subseteq Range(xIn[y])
      BY <2>6, ReceiveRange DEF XAppIndication, XReceives
    <3>. QED
      BY <1>u, <2>1, <2>6, <3>1 DEF XAppIndication
  <2>. QED
    BY <1>4, <2>k, <2>2, <2>3, <2>4, <2>5, <2>6 DEF XAppStep, XAppLoop, XAppTimeout
<1>5. CASE UNCHANGED vars
    BY <1>5, <1>u DEF vars, shared, xVars
<1>. QED
    BY <1>1, <1>2, <1>3, <1>4, <1>5 DEF Next, AgentStep, XAppStep, XAppRequests

\* Handles: an idle xApp has only subscriptions left.
LEMMA HandlesStep ==
    ASSUME TypeOK, RoutingInv, [Next]_vars
    PROVE  HandlesInv'
<1>i. HandlesInv
    BY DEF RoutingInv
<1>t. /\ xst \in [XApps -> {"off", "connecting", "idle", "waiting", "aborted"}]
      /\ active \in [XApps -> SUBSET Nat] /\ issued \in [XApps -> Seq(Requests)]
      /\ xop \in [XApps -> [ans : {"SUB_RESP", "DEL_RESP", "CTRL_ACK"}, h : Nat] \cup {NoOp}]
      /\ \A x \in XApps : active[x] \subseteq DOMAIN issued[x]
    BY DEF TypeOK, TypeXApps
<1>u. ASSUME UNCHANGED <<xst, active, issued, xop>> PROVE HandlesInv'
    BY <1>i, <1>u DEF HandlesInv
<1>1. CASE RicThread \/ RicTimeout
    BY <1>1, <1>u, RicFrames DEF RicFrame
<1>2. CASE IAppThread
    BY <1>2, <1>u, IAppFrames DEF IAppFrame
<1>3. ASSUME NEW n \in Nodes, AgentStep(n) PROVE HandlesInv'
    BY <1>3, <1>u, AgFrames DEF AgFrame, xVars
<1>4. ASSUME NEW x \in XApps, XAppStep(x) PROVE HandlesInv'
  <2>k. ASSUME XAppAbort(x) PROVE HandlesInv'
    BY <1>i, <1>t, <2>k DEF XAppAbort, HandlesInv
  <2>1. CASE XAppStart(x)
    BY <1>i, <1>t, <2>1 DEF XAppStart, HandlesInv
  <2>2. CASE XAppResendSetup(x) \/ XAppIndication(x)
    BY <1>u, <2>2 DEF XAppResendSetup, XAppIndication
  <2>3. CASE XAppSetupResponse(x)
    BY <1>i, <1>t, <2>3, <2>k DEF XAppSetupResponse, HandlesInv
  <2>4. ASSUME NEW k \in {"SUB_REQ", "CTRL_REQ"}, NEW n \in Nodes, NEW f \in RanFuncs,
               XAppRequest(x, k, n, f)
        PROVE  HandlesInv'
    <3>. DEFINE h == Len(issued[x]) + 1
                q == [kind |-> k, node |-> n, rf |-> f]
    <3>1. /\ xst[x] = "idle" /\ xst' = [xst EXCEPT ![x] = "waiting"]
          /\ issued' = [issued EXCEPT ![x] = Append(@, q)]
          /\ active' = [active EXCEPT ![x] = @ \cup {h}]
          /\ xop' = [xop EXCEPT ![x] = [ans |-> AnswerTo(k), h |-> h]]
      BY <2>4 DEF XAppRequest
    <3>2. issued[x] \in Seq(Requests) /\ q \in Requests
      BY <1>t DEF Requests
    <3>3. Append(issued[x], q)[h] = q
          /\ \A g \in DOMAIN issued[x] : Append(issued[x], q)[g] = issued[x][g]
      BY <3>2
    <3>4. q.kind = k /\ (k = "CTRL_REQ" => AnswerTo(k) # "SUB_RESP")
      BY DEF AnswerTo
    <3>. HIDE DEF h, q
    <3>5. /\ issued'[x] = Append(issued[x], q) /\ \A y \in XApps \ {x} : issued'[y] = issued[y]
      BY <1>t, <3>1
    <3>6. /\ xst'[x] = "waiting" /\ active'[x] = active[x] \cup {h}
          /\ xop'[x] = [ans |-> AnswerTo(k), h |-> h]
          /\ \A y \in XApps \ {x} : xst'[y] = xst[y] /\ active'[y] = active[y] /\ xop'[y] = xop[y]
      BY <1>t, <3>1
    <3>7. \A g \in active[x] : issued[x][g].kind # "CTRL_REQ"
      BY <1>i, <3>1 DEF HandlesInv
    <3>8. \A g \in active'[x] : issued'[x][g].kind = "CTRL_REQ" => g = h
      BY <1>t, <3>3, <3>5, <3>6, <3>7
    <3>9. issued'[x][h].kind = k
      BY <3>3, <3>4, <3>5
    <3>10. xop'[x].ans = AnswerTo(k) /\ xop'[x].h = h
      BY <3>6
    <3>11. \A g \in active'[x] : issued'[x][g].kind = "CTRL_REQ" =>
             xop'[x].h = g /\ xop'[x].ans # "SUB_RESP"
      BY <3>4, <3>8, <3>9, <3>10
    <3>12. ASSUME NEW y \in XApps \ {x}
           PROVE  /\ xst'[y] \in {"off", "connecting"} => active'[y] = {}
                  /\ \A g \in active'[y] : issued'[y][g].kind = "CTRL_REQ" =>
                       xst'[y] \in {"waiting", "aborted"} /\ xop'[y].h = g /\ xop'[y].ans # "SUB_RESP"
      <4>1. /\ issued'[y] = issued[y] /\ xst'[y] = xst[y] /\ active'[y] = active[y]
            /\ xop'[y] = xop[y]
        BY <3>5, <3>6
      <4>. QED
        BY <1>i, <4>1 DEF HandlesInv
    <3>. QED
      BY <3>6, <3>11, <3>12 DEF HandlesInv
  <2>5. CASE XAppUnsubscribe(x)
    BY <1>i, <1>t, <2>5 DEF XAppUnsubscribe, HandlesInv
  <2>6. CASE XAppAnswer(x)
    <3>1. CASE XAppAbort(x)
      BY <2>k, <3>1
    <3>2. CASE ~ XAppAbort(x)
      <4>1. /\ xst' = [xst EXCEPT ![x] = "idle"] /\ xop' = [xop EXCEPT ![x] = NoOp]
            /\ active' = [active EXCEPT ![x] = IF xop[x].ans = "SUB_RESP" THEN active[x]
                                                 ELSE active[x] \ {xop[x].h}]
            /\ UNCHANGED issued
        BY <2>6, <3>2, <1>t DEF XAppAnswer
      <4>2. active'[x] = IF xop[x].ans = "SUB_RESP" THEN active[x] ELSE active[x] \ {xop[x].h}
        BY <1>t, <4>1
      <4>3. \A g \in active[x] : issued[x][g].kind = "CTRL_REQ" =>
              xop[x].h = g /\ xop[x].ans # "SUB_RESP"
        BY <1>i DEF HandlesInv
      <4>4. \A g \in active'[x] : issued'[x][g].kind # "CTRL_REQ"
        BY <4>1, <4>2, <4>3
      <4>5. /\ xst'[x] = "idle"
            /\ \A y \in XApps \ {x} : xst'[y] = xst[y] /\ active'[y] = active[y] /\ xop'[y] = xop[y]
        BY <1>t, <4>1
      <4>. QED
        BY <1>i, <4>1, <4>4, <4>5 DEF HandlesInv
    <3>. QED
      BY <3>1, <3>2
  <2>. QED
    BY <1>4, <2>k, <2>1, <2>2, <2>3, <2>4, <2>5, <2>6 DEF XAppStep, XAppLoop, XAppTimeout,
       XAppRequests
<1>5. CASE UNCHANGED vars
    BY <1>5, <1>u DEF vars, xVars
<1>. QED
    BY <1>1, <1>2, <1>3, <1>4, <1>5 DEF Next, AgentStep, XAppStep, XAppRequests

\* The mutex covers a request from before its timer until its mapping, and the
\* map gives each request id one owner.
LEMMA MutexStep ==
    ASSUME TypeOK, RoutingInv, [Next]_vars
    PROVE  MutexInv'
<1>i. MutexInv
    BY DEF RoutingInv
<1>s. \A i, h, kind, n, f :
        OwnedIn(xsad, issued, i, h, kind, n, f) => OwnedIn(xsad', issued', i, h, kind, n, f)
    BY Stable
<1>v. ASSUME UNCHANGED mapRicId,
             ipc' \in {"timer", "add_map"} => mtx' = "iapp",
             ipc' = "send" /\ imsg'.type # "DEL_REQ" => mtx' = "iapp"
      PROVE  MutexInv'
    BY <1>i, <1>s, <1>v DEF MutexInv, Owned
<1>u. ASSUME UNCHANGED <<mapRicId, iappVars, mtx>> PROVE MutexInv'
    BY <1>i, <1>u, <1>v DEF MutexInv, iappVars
<1>1. CASE RicThread \/ RicTimeout
    BY <1>1, <1>u, RicFrames DEF RicFrame
<1>2. CASE IAppThread
  <2>a. ASSUME NEW why, Abort(why) PROVE MutexInv'
    BY <1>u, <2>a DEF Abort, shared
  <2>1. CASE IAppSetupRequest
    BY <2>1, <1>v DEF IAppSetupRequest
  <2>2. CASE IAppRegXApp
    BY <2>2, <2>a, <1>v DEF IAppRegXApp
  <2>3. CASE IAppSetupResponse
    BY <2>3, <1>v DEF IAppSetupResponse, shared
  <2>4. CASE IAppRequest
    BY <2>4, <2>a, <1>v DEF IAppRequest, shared
  <2>5. CASE IAppLock
    BY <2>5, <1>v DEF IAppLock
  <2>6. CASE IAppStartTimer
    BY <1>i, <2>6, <1>v DEF IAppStartTimer, MutexInv
  <2>7. CASE IAppForward
    BY <1>i, <2>7, <2>a, <1>v DEF IAppForward, MutexInv, shared
  <2>8. CASE IAppAddMap
    <3>1. CASE Abort("ric_req_id already in the map")
      BY <2>a, <3>1
    <3>2. CASE ~ Abort("ric_req_id already in the map")
      <4>. DEFINE new == [rid |-> irid, node |-> imsg.node, xid |-> imsg.xid,
                          h |-> imsg.h, rf |-> imsg.rf]
      <4>1. /\ mapRicId' = mapRicId \cup {new} /\ \A e \in mapRicId : e.rid # irid
            /\ ipc = "add_map" /\ ipc' = "idle"
        BY <2>8, <3>2 DEF IAppAddMap
      <4>2. imsg.type \in {"SUB_REQ", "CTRL_REQ"}
        BY <4>1 DEF TypeOK, TypeIApp
      <4>3. KindOf(imsg.type) \in {"SUB_REQ", "CTRL_REQ"}
            /\ OwnedIn(xsad, issued, imsg.xid, imsg.h, KindOf(imsg.type), imsg.node, imsg.rf)
        BY <4>1, <4>2 DEF RoutingInv, RequestsInv, Owned, KindOf
      <4>4. /\ new.rid = irid /\ new.node = imsg.node /\ new.xid = imsg.xid /\ new.h = imsg.h
            /\ new.rf = imsg.rf
        OBVIOUS
      <4>. HIDE DEF new
      <4>5. \A e1, e2 \in mapRicId' : e1.rid = e2.rid => e1 = e2
        BY <1>i, <4>1, <4>4 DEF MutexInv
      <4>6. \A e \in mapRicId' : \E kind \in {"SUB_REQ", "CTRL_REQ"} :
              OwnedIn(xsad', issued', e.xid, e.h, kind, e.node, e.rf)
        BY <1>i, <1>s, <4>1, <4>3, <4>4 DEF MutexInv, Owned
      <4>. QED
        BY <4>1, <4>5, <4>6 DEF MutexInv, Owned
    <3>. QED
      BY <3>1, <3>2
  <2>9. CASE IAppDelete
    BY <2>9, <2>a, <1>v DEF IAppDelete, shared
  <2>10. CASE IAppDeleteTimer
    BY <2>10, <1>v DEF IAppDeleteTimer, TypeOK, TypeIApp
  <2>. QED
    BY <1>2, <2>1, <2>2, <2>3, <2>4, <2>5, <2>6, <2>7, <2>8, <2>9, <2>10 DEF IAppThread
<1>3. ASSUME NEW n \in Nodes, AgentStep(n) PROVE MutexInv'
    BY <1>3, <1>u, AgFrames DEF AgFrame, shared
<1>4. ASSUME NEW x \in XApps, XAppStep(x) PROVE MutexInv'
    BY <1>4, <1>u, XFrames DEF XFrame, shared
<1>5. CASE UNCHANGED vars
    BY <1>5, <1>u DEF vars, shared
<1>. QED
    BY <1>1, <1>2, <1>3, <1>4, <1>5 DEF Next, AgentStep, XAppStep, XAppRequests

\* Requests under way carry their owner's id and handle.
LEMMA RequestsStep ==
    ASSUME TypeOK, RoutingInv, [Next]_vars
    PROVE  RequestsInv'
<1>i. RequestsInv
    BY DEF RoutingInv
<1>s. /\ \A i, h, kind, n, f :
           OwnedIn(xsad, issued, i, h, kind, n, f) => OwnedIn(xsad', issued', i, h, kind, n, f)
      /\ \A n, rid, f, kind :
           TracedIn(Entries, xsad, issued, n, rid, f, kind) =>
           TracedIn(Entries', xsad', issued', n, rid, f, kind)
    BY Stable
<1>. DEFINE Own(m) == OwnedIn(xsad, issued, m.xid, m.h, KindOf(m.type), m.node, m.rf)
            OwnN(m) == OwnedIn(xsad', issued', m.xid, m.h, KindOf(m.type), m.node, m.rf)
            TrN(m, rid) == TracedIn(Entries', xsad', issued', m.node, rid, m.rf, KindOf(m.type))
            Reqs == {"SUB_REQ", "DEL_REQ", "CTRL_REQ"}
<1>v. ASSUME \A m \in Range(iappIn') : m.type \in Reqs => OwnN(m),
             ipc' \in {"lock", "timer", "send", "add_map", "del_timer"} => OwnN(imsg'),
             ipc' \in {"send", "del_timer"} => TrN(imsg', irid')
      PROVE  RequestsInv'
    BY <1>v DEF RequestsInv, Owned, Traced, Entries
<1>q. \A m \in Range(iappIn) : m.type \in Reqs => OwnN(m)
    BY <1>i, <1>s DEF RequestsInv, Owned
<1>m. ipc \in {"lock", "timer", "send", "add_map", "del_timer"} => OwnN(imsg)
    BY <1>i, <1>s DEF RequestsInv, Owned
<1>t. ipc \in {"send", "del_timer"} => TrN(imsg, irid)
    BY <1>i, <1>s DEF RequestsInv, Traced, Entries
<1>. HIDE DEF Own, OwnN, TrN
<1>u. ASSUME UNCHANGED <<iappIn, iappVars>> PROVE RequestsInv'
    BY <1>q, <1>m, <1>t, <1>u, <1>v DEF iappVars
<1>1. CASE RicThread \/ RicTimeout
    BY <1>1, <1>u, RicFrames DEF RicFrame, iappSock
<1>2. CASE IAppThread
  <2>a. ASSUME NEW why, Abort(why) PROVE RequestsInv'
    BY <1>u, <2>a DEF Abort, iappSock
  <2>c. iappIn # <<>> /\ IAppConsume => \A m \in Range(iappIn') : m.type \in Reqs => OwnN(m)
    BY <1>q, ReceiveRange
  <2>h. iappIn # <<>> /\ Head(iappIn).type \in Reqs => OwnN(Head(iappIn))
    BY <1>q, ReceiveRange
  <2>1. CASE IAppSetupRequest
    BY <2>1, <2>c, <1>v DEF IAppSetupRequest, IAppReceives
  <2>2. CASE IAppRegXApp
    BY <1>q, <2>2, <2>a, <1>v DEF IAppRegXApp, iappSock
  <2>3. CASE IAppSetupResponse
    BY <1>q, <2>3, <1>v DEF IAppSetupResponse, iappSock
  <2>4. CASE IAppRequest
    BY <2>4, <2>a, <2>c, <2>h, <1>v DEF IAppRequest, IAppReceives
  <2>5. CASE IAppLock
    BY <1>q, <1>m, <2>5, <1>v DEF IAppLock, iappSock
  <2>6. CASE IAppStartTimer
    <3>1. /\ ipc = "timer" /\ ipc' = "send" /\ UNCHANGED <<imsg, iappIn>>
      BY <2>6 DEF IAppStartTimer, iappSock
    <3>2. imsg.type \in {"SUB_REQ", "CTRL_REQ"}
      BY <3>1 DEF TypeOK, TypeIApp
    <3>3. [rid |-> irid', node |-> imsg.node, xid |-> imsg.xid, h |-> imsg.h,
           rf |-> imsg.rf] \in Entries'
      BY <3>1, <3>2 DEF Entries, InFlight
    <3>4. OwnN(imsg)
      BY <1>m, <3>1
    <3>5. TrN(imsg, irid')
      BY <3>3, <3>4 DEF TrN, OwnN, TracedIn
    <3>. QED
      BY <1>q, <1>v, <3>1, <3>4, <3>5
  <2>7. CASE IAppForward
    BY <1>q, <1>m, <2>7, <2>a, <1>v DEF IAppForward, iappSock
  <2>8. CASE IAppAddMap
    BY <1>q, <2>8, <2>a, <1>v DEF IAppAddMap, iappSock
  <2>9. CASE IAppDelete
    <3>1. CASE Abort("Not found xApp RIC ID")
      BY <2>a, <3>1
    <3>2. CASE ~ Abort("Not found xApp RIC ID")
      <4>. DEFINE m == Head(iappIn)
      <4>1. iappIn # <<>> /\ m.type = "DEL_REQ" /\ m \in ToIApp
        BY <2>9, QueueTypes DEF IAppDelete, IAppReceives, TypeOK, TypeSockets
      <4>2. PICK e \in mapRicId :
              /\ e.xid = m.xid /\ e.h = m.h /\ e.rf = m.rf
              /\ IAppConsume /\ imsg' = [m EXCEPT !.node = e.node]
              /\ irid' = e.rid /\ ipc' = "del_timer"
              /\ UNCHANGED <<shared, xVars>>
        BY <2>9, <3>2 DEF IAppDelete
      <4>3. OwnedIn(xsad, issued, m.xid, m.h, "SUB_REQ", m.node, m.rf)
        <5>1. m \in Range(iappIn)
          BY <4>1, ReceiveRange
        <5>. QED
          BY <1>i, <4>1, <5>1 DEF RequestsInv, Owned, KindOf
      <4>4. PICK r1 \in xsad : /\ r1.xid = m.xid
                               /\ issued[r1.x][m.h] = [kind |-> "SUB_REQ", node |-> m.node, rf |-> m.rf]
        BY <4>3 DEF OwnedIn
      <4>5. PICK kind \in {"SUB_REQ", "CTRL_REQ"}, r2 \in xsad :
              /\ r2.xid = e.xid
              /\ issued[r2.x][e.h] = [kind |-> kind, node |-> e.node, rf |-> e.rf]
        BY DEF RoutingInv, MutexInv, Owned, OwnedIn
      <4>6. r1 = r2
        BY <4>2, <4>4, <4>5 DEF RoutingInv, XAppIdsInv
      <4>7. [kind |-> "SUB_REQ", node |-> m.node, rf |-> m.rf] =
            [kind |-> kind, node |-> e.node, rf |-> e.rf]
        BY <4>2, <4>4, <4>5, <4>6
      <4>8. e.node = m.node
        BY <4>7
      <4>. HIDE DEF m
      <4>9. m \in [type : {"SUB_REQ", "DEL_REQ", "CTRL_REQ"}, xid : Nat, h : Nat,
                   node : Nodes, rf : RanFuncs]
        BY <4>1 DEF ToIApp
      <4>10. imsg' = m
        BY <4>2, <4>8, <4>9
      <4>11. OwnN(m)
        BY <2>h, <4>1 DEF m
      <4>12. TracedIn(Entries, xsad, issued, m.node, e.rid, m.rf, "SUB_REQ")
        BY <4>2, <4>3, <4>8 DEF TracedIn, Entries
      <4>13. TrN(m, e.rid)
        BY <1>s, <4>1, <4>12 DEF TrN, KindOf
      <4>. QED
        BY <1>v, <2>c, <4>1, <4>2, <4>10, <4>11, <4>13
    <3>. QED
      BY <3>1, <3>2
  <2>10. CASE IAppDeleteTimer
    BY <1>q, <1>m, <1>t, <2>10, <1>v DEF IAppDeleteTimer, iappSock
  <2>. QED
    BY <1>2, <2>1, <2>2, <2>3, <2>4, <2>5, <2>6, <2>7, <2>8, <2>9, <2>10 DEF IAppThread
<1>3. ASSUME NEW n \in Nodes, AgentStep(n) PROVE RequestsInv'
    BY <1>3, <1>u, AgFrames DEF AgFrame, iappSock
<1>4. ASSUME NEW x \in XApps, XAppStep(x) PROVE RequestsInv'
  <2>1. UNCHANGED <<iappVars, xsad>>
    BY <1>4, XFrames DEF XFrame, shared
  <2>n. ASSUME NEW m \in ToIApp, SendToIApp(m), m.type \in Reqs => OwnN(m) PROVE RequestsInv'
    <3>1. \A q \in Range(iappIn') : q.type \in Reqs => OwnN(q)
      BY <1>q, <2>n, SendRange
    <3>. QED
      BY <1>m, <1>t, <1>v, <2>1, <3>1 DEF iappVars
  <2>2. CASE XAppStart(x) \/ XAppResendSetup(x)
    <3>1. [type |-> "E42_SETUP_REQ", x |-> x] \in ToIApp
      BY DEF ToIApp
    <3>. QED
      BY <2>2, <2>n, <3>1 DEF XAppStart, XAppResendSetup
  <2>3. CASE XAppLoop(x)
    BY <1>u, <2>1, <2>3 DEF XAppLoop, XAppTimeout, XAppSetupResponse, XAppAnswer, XAppIndication, XAppAbort,
       iappSock
  <2>4. ASSUME NEW k \in {"SUB_REQ", "CTRL_REQ"}, NEW n \in Nodes, NEW f \in RanFuncs,
               XAppRequest(x, k, n, f)
        PROVE  RequestsInv'
    <3>. DEFINE h == Len(issued[x]) + 1
                q == [kind |-> k, node |-> n, rf |-> f]
                m == [type |-> k, xid |-> xid[x], h |-> h, node |-> n, rf |-> f]
    <3>1. /\ issued' = [issued EXCEPT ![x] = Append(@, q)] /\ SendToIApp(m) /\ xst[x] = "idle"
      BY <2>4 DEF XAppRequest
    <3>2. /\ issued \in [XApps -> Seq(Requests)] /\ q \in Requests
      BY DEF TypeOK, TypeXApps, Requests
    <3>3. m \in ToIApp
      BY <3>2 DEF ToIApp, TypeOK, TypeXApps
    <3>4. Append(issued[x], q)[h] = q /\ h \in DOMAIN Append(issued[x], q)
      BY <3>2
    <3>5. issued'[x] = Append(issued[x], q)
      BY <3>1, <3>2
    <3>6. [xid |-> xid[x], x |-> x] \in xsad'
      BY <2>1, <3>1 DEF RoutingInv, XAppIdsInv
    <3>7. OwnedIn(xsad', issued', xid[x], h, k, n, f)
      BY <3>4, <3>5, <3>6 DEF OwnedIn
    <3>8. KindOf(m.type) = k
      BY DEF KindOf
    <3>9. OwnN(m)
      BY <3>7, <3>8 DEF OwnN
    <3>. QED
      BY <2>n, <3>1, <3>3, <3>9
  <2>5. CASE XAppUnsubscribe(x)
    <3>1. PICK h \in active[x] :
            SendToIApp([type |-> "DEL_REQ", xid |-> xid[x], h |-> h,
                        node |-> issued[x][h].node, rf |-> issued[x][h].rf])
      BY <2>5 DEF XAppUnsubscribe
    <3>. DEFINE m == [type |-> "DEL_REQ", xid |-> xid[x], h |-> h,
                      node |-> issued[x][h].node, rf |-> issued[x][h].rf]
    <3>2. h \in DOMAIN issued[x] /\ issued[x] \in Seq(Requests) /\ h \in Nat /\ xid[x] \in Nat
      BY DEF TypeOK, TypeXApps
    <3>3. issued[x][h] \in Requests
      BY <3>2
    <3>4. m \in ToIApp
      BY <3>2, <3>3 DEF Requests, ToIApp
    <3>5. issued[x][h].kind = "SUB_REQ"
      BY <2>5, <3>3 DEF XAppUnsubscribe, RoutingInv, HandlesInv, Requests
    <3>6. issued[x][h] = [kind |-> "SUB_REQ", node |-> issued[x][h].node, rf |-> issued[x][h].rf]
      BY <3>3, <3>5 DEF Requests
    <3>7. [xid |-> xid[x], x |-> x] \in xsad
      BY <2>5 DEF XAppUnsubscribe, RoutingInv, XAppIdsInv
    <3>8. OwnedIn(xsad, issued, xid[x], h, "SUB_REQ", issued[x][h].node, issued[x][h].rf)
      BY <3>2, <3>6, <3>7 DEF OwnedIn
    <3>9. OwnN(m)
      BY <1>s, <3>8 DEF OwnN, KindOf
    <3>. QED
      BY <2>n, <3>1, <3>4, <3>9
  <2>. QED
    BY <1>4, <2>2, <2>3, <2>4, <2>5 DEF XAppStep, XAppRequests
<1>5. CASE UNCHANGED vars
    BY <1>5, <1>u DEF vars, iappSock
<1>. QED
    BY <1>1, <1>2, <1>3, <1>4, <1>5 DEF Next, AgentStep, XAppStep, XAppRequests

\* What find_xapp_map_ric_id finds: with the mutex free nothing is in flight,
\* so the request id being looked up is in the map, once, with its owner.
LEMMA LookupFinds ==
    ASSUME TypeOK, RoutingInv, rpc = "lookup", mtx = "free"
    PROVE  \E e \in mapRicId :
             /\ {d \in mapRicId : d.rid = rmsg.rid} = {e}
             /\ e.rf = rmsg.rf
             /\ OwnedIn(xsad, issued, e.xid, e.h, KindOf(rmsg.type), rmsg.node, rmsg.rf)
<1>1. InFlight = {}
  <2>1. ipc # "add_map" /\ (ipc = "send" => imsg.type = "DEL_REQ")
    BY DEF RoutingInv, MutexInv
  <2>. QED
    BY <2>1 DEF InFlight
<1>2. TracedIn(mapRicId, xsad, issued, rmsg.node, rmsg.rid, rmsg.rf, KindOf(rmsg.type))
  <2>1. mapRicId \cup InFlight = mapRicId
    BY <1>1
  <2>. QED
    BY <2>1 DEF RoutingInv, TracedInv, Traced
<1>3. PICK e \in mapRicId : /\ e.rid = rmsg.rid /\ e.rf = rmsg.rf
             /\ OwnedIn(xsad, issued, e.xid, e.h, KindOf(rmsg.type), rmsg.node, rmsg.rf)
    BY <1>2 DEF TracedIn
<1>4. \A d \in mapRicId : d.rid = rmsg.rid => d = e
    BY <1>3 DEF RoutingInv, MutexInv
<1>. QED
    BY <1>3, <1>4

\* An answer belongs to the procedure of its request.
LEMMA AnswerKind ==
    \A t \in {"SUB_REQ", "DEL_REQ", "CTRL_REQ"} :
        /\ KindOf(AnswerTo(t)) = KindOf(t) /\ KindOf("IND") = "SUB_REQ"
        /\ AnswerTo(t) \in E2Answers
    BY DEF KindOf, AnswerTo, E2Answers

\* Every request id at a node or on its way back stays traced.
LEMMA TracedStep ==
    ASSUME TypeOK, RoutingInv, [Next]_vars
    PROVE  TracedInv'
<1>i. TracedInv
    BY DEF RoutingInv
<1>s. /\ \A i, h, kind, n, f :
           OwnedIn(xsad, issued, i, h, kind, n, f) => OwnedIn(xsad', issued', i, h, kind, n, f)
      /\ \A n, rid, f, kind :
           TracedIn(Entries, xsad, issued, n, rid, f, kind) =>
           TracedIn(Entries', xsad', issued', n, rid, f, kind)
    BY Stable
<1>. DEFINE Tr(n, rid, f, kind) == TracedIn(Entries', xsad', issued', n, rid, f, kind)
            Ow(i, h, kind, n, f) == OwnedIn(xsad', issued', i, h, kind, n, f)
            AtNode(n, m) == m.type # "SETUP_RESP" => Tr(n, m.rid, m.rf, KindOf(m.type))
            Back(m) == m.type \in E2Answers => Tr(m.node, m.rid, m.rf, KindOf(m.type))
<1>v. ASSUME \A n \in Nodes : \A m \in Range(agIn'[n]) : AtNode(n, m),
             \A n \in Nodes : \A s \in agSubs'[n] : Tr(n, s.rid, s.rf, "SUB_REQ"),
             \A m \in Range(ricIn') : Back(m),
             rpc' \in {"lookup", "notify"} => Tr(rmsg'.node, rmsg'.rid, rmsg'.rf, KindOf(rmsg'.type)),
             rpc' = "notify" => Ow(rto'.xid, rto'.h, KindOf(rmsg'.type), rmsg'.node, rmsg'.rf)
      PROVE  TracedInv'
    BY <1>v DEF TracedInv, Traced, Owned, Entries
<1>g. \A n \in Nodes : \A m \in Range(agIn[n]) : AtNode(n, m)
    BY <1>i, <1>s DEF TracedInv, Traced, Entries
<1>b. \A n \in Nodes : \A s \in agSubs[n] : Tr(n, s.rid, s.rf, "SUB_REQ")
    BY <1>i, <1>s DEF TracedInv, Traced, Entries
<1>r. \A m \in Range(ricIn) : Back(m)
    BY <1>i, <1>s DEF TracedInv, Traced, Entries
<1>l. rpc \in {"lookup", "notify"} => Tr(rmsg.node, rmsg.rid, rmsg.rf, KindOf(rmsg.type))
    BY <1>i, <1>s DEF TracedInv, Traced, Entries
<1>n. rpc = "notify" => Ow(rto.xid, rto.h, KindOf(rmsg.type), rmsg.node, rmsg.rf)
    BY <1>i, <1>s DEF TracedInv, Owned
<1>p. ASSUME NEW n \in Nodes, NEW m, m.type = "SETUP_RESP" PROVE AtNode(n, m)
    BY <1>p
<1>q. ASSUME NEW m, m.type \notin E2Answers PROVE Back(m)
    BY <1>q
<1>. HIDE DEF Tr, Ow, AtNode, Back
<1>u. ASSUME UNCHANGED <<ricVars, ricIn, agVars>> PROVE TracedInv'
    BY <1>g, <1>b, <1>r, <1>l, <1>n, <1>u, <1>v DEF ricVars, agVars
<1>1. CASE RicThread \/ RicTimeout
  <2>1. \A n \in Nodes : \A m \in Range(agIn'[n]) : AtNode(n, m)
    BY <1>1, <1>g, <1>p, RicQueues
  <2>2. \A n \in Nodes : \A s \in agSubs'[n] : Tr(n, s.rid, s.rf, "SUB_REQ")
    BY <1>1, <1>b, RicFrames DEF RicFrame
  <2>3. \A m \in Range(ricIn') : Back(m)
    BY <1>1, <1>r, RicQueues
  <2>w. ASSUME rpc' \notin {"lookup", "notify"} PROVE TracedInv'
    BY <1>v, <2>1, <2>2, <2>3, <2>w
  <2>a. ASSUME NEW why, Abort(why) PROVE TracedInv'
    BY <1>u, <2>a DEF Abort
  <2>h. ricIn # <<>> /\ Head(ricIn).type \in E2Answers =>
          Tr(Head(ricIn).node, Head(ricIn).rid, Head(ricIn).rf, KindOf(Head(ricIn).type))
    BY <1>r, ReceiveRange DEF Back
  <2>4. CASE RicSetupRequest \/ RicAcceptNode
    BY <2>4, <2>w DEF RicSetupRequest, RicAcceptNode
  <2>5. CASE RicAddNode \/ RicShutdown \/ RicEraseConn \/ RicRmNode
    BY <2>5, <2>a, <2>w DEF RicAddNode, RicShutdown, RicEraseConn, RicRmNode
  <2>6. CASE RicAnswer \/ RicIndication
    <3>1. CASE \E why \in RicAsserts : Abort(why)
      BY <2>a, <3>1
    <3>2. CASE ~ \E why \in RicAsserts : Abort(why)
      <4>1. /\ rpc' = "lookup" /\ rmsg' = Head(ricIn) /\ ricIn # <<>>
            /\ Head(ricIn).type \in {"SUB_RESP", "DEL_RESP", "CTRL_ACK", "IND"}
        BY <2>6, <3>2 DEF RicAnswer, RicIndication, RicReceives, RicAsserts
      <4>. QED
        BY <1>v, <2>1, <2>2, <2>3, <2>h, <4>1 DEF E2Answers
    <3>. QED
      BY <3>1, <3>2
  <2>7. CASE RicLookup
    <3>1. PICK e \in mapRicId :
             /\ {d \in mapRicId : d.rid = rmsg.rid} = {e}
             /\ e.rf = rmsg.rf
             /\ OwnedIn(xsad, issued, e.xid, e.h, KindOf(rmsg.type), rmsg.node, rmsg.rf)
      BY <2>7, LookupFinds DEF RicLookup
    <3>2. CASE \E why \in RicAsserts : Abort(why)
      BY <2>a, <3>2
    <3>3. CASE ~ \E why \in RicAsserts : Abort(why)
      <4>1. rpc = "lookup" /\ rpc' = "notify" /\ rto' = e /\ rmsg' = rmsg
        BY <2>7, <3>1, <3>3 DEF RicLookup, RicAsserts
      <4>2. Ow(e.xid, e.h, KindOf(rmsg.type), rmsg.node, rmsg.rf)
        BY <1>s, <3>1 DEF Ow
      <4>. QED
        BY <1>v, <1>l, <2>1, <2>2, <2>3, <4>1, <4>2
    <3>. QED
      BY <3>2, <3>3
  <2>8. CASE RicNotify
    BY <2>8, <2>a, <2>w DEF RicNotify
  <2>9. CASE RicTimeout
    BY <2>9, <2>a, <1>u DEF RicTimeout, vars
  <2>. QED
    BY <1>1, <2>4, <2>5, <2>6, <2>7, <2>8, <2>9 DEF RicThread
<1>2. CASE IAppThread
  <2>1. UNCHANGED <<ricVars, ricIn, agSubs>>
    BY <1>2, IAppFrames DEF IAppFrame
  <2>2. ASSUME \A n \in Nodes : \A m \in Range(agIn'[n]) : AtNode(n, m) PROVE TracedInv'
    BY <1>b, <1>r, <1>l, <1>n, <1>v, <2>1, <2>2 DEF ricVars
  <2>a. ASSUME NEW why, Abort(why) PROVE TracedInv'
    BY <1>u, <2>a DEF Abort
  <2>3. CASE IAppForward
    <3>. DEFINE m == [type |-> imsg.type, rid |-> irid, rf |-> imsg.rf]
    <3>1. /\ m \in ToAgent /\ imsg.node \in Nodes /\ ipc = "send"
      BY <2>3 DEF IAppForward, TypeOK, TypeIApp, ToIApp, ToAgent
    <3>2. TracedIn(Entries, xsad, issued, imsg.node, irid, imsg.rf, KindOf(imsg.type))
      BY <3>1 DEF RoutingInv, RequestsInv, Traced, Entries
    <3>3. AtNode(imsg.node, m)
      BY <1>s, <3>2 DEF AtNode, Tr
    <3>4. CASE Abort("E2 Node not found")
      BY <2>a, <3>4
    <3>5. CASE SendToNode(imsg.node, m)
      <4>. HIDE DEF m
      <4>1. \A n \in Nodes : Range(agIn'[n]) \subseteq Range(agIn[n]) \cup Only(n = imsg.node, m)
        BY <3>1, <3>5, SendRange
      <4>2. \A n \in Nodes : \A q \in Range(agIn'[n]) : AtNode(n, q)
        BY <1>g, <3>3, <4>1 DEF Only
      <4>. QED
        BY <2>2, <4>2
    <3>. QED
      BY <2>3, <3>4, <3>5 DEF IAppForward
  <2>4. CASE ~ IAppForward
    <3>1. agIn' = agIn
      BY <1>2, <2>4 DEF IAppThread, IAppSetupRequest, IAppRegXApp, IAppSetupResponse,
         IAppRequest, IAppLock, IAppStartTimer, IAppAddMap, IAppDelete, IAppDeleteTimer,
         Abort, agVars
    <3>. QED
      BY <1>g, <2>2, <3>1
  <2>. QED
    BY <2>3, <2>4
<1>3. ASSUME NEW n \in Nodes, AgentStep(n) PROVE TracedInv'
  <2>1. UNCHANGED ricVars
    BY <1>3, AgFrames DEF AgFrame
  <2>t. agSubs \in [Nodes -> SUBSET [rid : ReqIds, rf : RanFuncs]] /\ assoc[n] \in Nat
        /\ agIn \in [Nodes -> Seq(ToAgent)]
    BY DEF TypeOK, TypeAgents
  <2>w. ASSUME \A k \in Nodes : Range(agIn'[k]) \subseteq Range(agIn[k]),
               \A k \in Nodes : \A s \in agSubs'[k] : Tr(k, s.rid, s.rf, "SUB_REQ"),
               \A m \in Range(ricIn') : Back(m)
        PROVE  TracedInv'
    <3>1. \A k \in Nodes : \A m \in Range(agIn'[k]) : AtNode(k, m)
      BY <1>g, <2>w
    <3>. QED
      BY <1>l, <1>n, <1>v, <2>1, <2>w, <3>1 DEF ricVars
  <2>s. ASSUME NEW m \in ToRic, AgSend(m), Back(m) PROVE \A q \in Range(ricIn') : Back(q)
    BY <1>r, <2>s, SendRange
  <2>2. CASE AgStart(n) \/ AgResendSetup(n)
    <3>1. PICK a \in {assoc[n], assoc[n] + 1} : AgSend(SetupRequest(n, a))
      BY <2>2 DEF AgStart, AgResendSetup
    <3>2. SetupRequest(n, a) \in ToRic /\ Back(SetupRequest(n, a))
      BY <1>q, <2>t DEF SetupRequest, ToRic, E2Answers
    <3>3. UNCHANGED <<agIn, agSubs>>
      BY <2>2 DEF AgStart, AgResendSetup
    <3>. QED
      BY <1>b, <2>w, <2>s, <3>1, <3>2, <3>3
  <2>c. ASSUME NEW unread, AgClose(n, unread) PROVE TracedInv'
    <3>1. \A k \in Nodes : Range(agIn'[k]) \subseteq Range(agIn[k])
      <4>1. \A k \in Nodes : agIn'[k] = agIn[k] \/ agIn'[k] = <<>>
        BY <2>c, <2>t DEF AgClose
      <4>2. Range(<<>>) = {}
        BY DEF Range
      <4>. QED
        BY <4>1, <4>2
    <3>2. \A k \in Nodes : agSubs'[k] \subseteq agSubs[k]
      BY <2>c, <2>t DEF AgClose
    <3>3. \A m \in Range(ricIn') : Back(m)
      <4>. DEFINE m == [type |-> "SHUTDOWN", node |-> n, assoc |-> assoc[n]]
      <4>1. m \in ToRic /\ Back(m)
        BY <1>q, <2>t DEF ToRic, E2Answers
      <4>2. UNCHANGED ricIn \/ AgSend(m)
        BY <2>c DEF AgClose
      <4>. QED
        BY <1>r, <2>s, <4>1, <4>2
    <3>. QED
      BY <1>b, <2>w, <3>1, <3>2, <3>3
  <2>3. CASE AgAbort(n) \/ AgStop(n)
    BY <2>3, <2>c DEF AgAbort, AgStop
  <2>4. CASE AgSetupResponse(n) /\ ~ AgAbort(n)
    <3>1. agIn[n] # <<>> /\ AgConsume(n) /\ UNCHANGED <<agSubs, ricIn>>
      BY <2>4 DEF AgSetupResponse, AgReceives
    <3>. QED
      BY <1>b, <1>r, <2>w, <3>1, ReceiveRange
  <2>5. CASE (AgSubscription(n) \/ AgDelete(n) \/ AgControl(n)) /\ ~ AgAbort(n)
    <3>. DEFINE m == Head(agIn[n])
                a == [type |-> AnswerTo(m.type), node |-> n, rid |-> m.rid, rf |-> m.rf]
    <3>1. /\ agIn[n] # <<>> /\ m.type \in {"SUB_REQ", "DEL_REQ", "CTRL_REQ"}
          /\ AgConsume(n) /\ AgSend(a)
      BY <2>5 DEF AgSubscription, AgDelete, AgControl, AgReceives, AgAnswer
    <3>2. m \in ToAgent /\ m \in Range(agIn[n])
      BY <2>t, <3>1, QueueTypes, ReceiveRange
    <3>3. m.rid \in ReqIds /\ m.rf \in RanFuncs
      BY <3>1, <3>2 DEF ToAgent
    <3>4. Tr(n, m.rid, m.rf, KindOf(m.type))
      BY <1>g, <3>1, <3>2 DEF AtNode
    <3>5. AnswerTo(m.type) \in E2Answers /\ KindOf(AnswerTo(m.type)) = KindOf(m.type)
      BY <3>1, AnswerKind
    <3>6. a \in ToRic
      BY <3>3, <3>5 DEF ToRic
    <3>7. Back(a)
      BY <3>4, <3>5 DEF Back
    <3>8. \A q \in Range(ricIn') : Back(q)
      BY <2>s, <3>1, <3>6, <3>7
    <3>9. \A k \in Nodes : Range(agIn'[k]) \subseteq Range(agIn[k])
      BY <3>1, ReceiveRange
    <3>10. \A k \in Nodes : \A s \in agSubs'[k] : Tr(k, s.rid, s.rf, "SUB_REQ")
      <4>1. CASE AgSubscription(n)
        <5>1. agSubs' = [agSubs EXCEPT ![n] = @ \cup {[rid |-> m.rid, rf |-> m.rf]}]
              /\ m.type = "SUB_REQ"
          BY <4>1 DEF AgSubscription, AgReceives
        <5>2. Tr(n, m.rid, m.rf, "SUB_REQ")
          BY <3>4, <5>1 DEF KindOf
        <5>. HIDE DEF m
        <5>3. \A k \in Nodes : \A s \in agSubs'[k] :
                s \in agSubs[k] \/ (k = n /\ s.rid = m.rid /\ s.rf = m.rf)
          BY <5>1, <2>t
        <5>. QED
          BY <1>b, <5>2, <5>3
      <4>2. CASE AgDelete(n)
        BY <1>b, <2>5, <2>t, <4>2 DEF AgDelete
      <4>3. CASE AgControl(n)
        BY <1>b, <4>3 DEF AgControl
      <4>. QED
        BY <2>5, <4>1, <4>2, <4>3
    <3>. QED
      BY <2>w, <3>8, <3>9, <3>10
  <2>6. CASE AgIndication(n)
    <3>1. PICK s \in agSubs[n] : AgSend([type |-> "IND", node |-> n, rid |-> s.rid, rf |-> s.rf])
      BY <2>6 DEF AgIndication
    <3>. DEFINE a == [type |-> "IND", node |-> n, rid |-> s.rid, rf |-> s.rf]
    <3>2. a \in ToRic
      BY <2>t DEF ToRic, E2Answers
    <3>3. Back(a)
      BY <1>b DEF Back, KindOf
    <3>4. UNCHANGED <<agIn, agSubs>>
      BY <2>6 DEF AgIndication
    <3>. QED
      BY <1>b, <2>w, <2>s, <3>1, <3>2, <3>3, <3>4
  <2>. QED
    BY <1>3, <2>2, <2>3, <2>4, <2>5, <2>6 DEF AgentStep, AgentLoop
<1>4. ASSUME NEW x \in XApps, XAppStep(x) PROVE TracedInv'
    BY <1>4, <1>u, XFrames DEF XFrame
<1>5. CASE UNCHANGED vars
    BY <1>5, <1>u DEF vars
<1>. QED
    BY <1>1, <1>2, <1>3, <1>4, <1>5 DEF Next, AgentStep, XAppStep, XAppRequests

\* What the RIC sends to an xApp under a handle, that xApp asked for.
LEMMA RoutedStep ==
    ASSUME TypeOK, RoutingInv, [Next]_vars
    PROVE  RoutedToRequester'
<1>. DEFINE Req(m) == [kind |-> KindOf(m.type), node |-> m.node, rf |-> m.rf]
            Ok(x, m) == m.type \in E2Answers =>
                          m.h \in DOMAIN issued'[x] /\ issued'[x][m.h] = Req(m)
<1>g. \A x \in XApps : \A h \in DOMAIN issued[x] :
        h \in DOMAIN issued'[x] /\ issued'[x][h] = issued[x][h]
    BY Grows DEF Grow, Extends
<1>i. \A x \in XApps : \A m \in Range(xIn[x]) : Ok(x, m)
    BY <1>g DEF RoutingInv, RoutedToRequester, Asked
<1>v. ASSUME \A x \in XApps : \A m \in Range(xIn'[x]) : Ok(x, m) PROVE RoutedToRequester'
    BY <1>v DEF RoutedToRequester, Asked
<1>e. ASSUME NEW x \in XApps, NEW m, m.type = "E42_SETUP_RESP" PROVE Ok(x, m)
    BY <1>e DEF E2Answers
<1>. HIDE DEF Ok
<1>u. ASSUME \A x \in XApps : Range(xIn'[x]) \subseteq Range(xIn[x]) PROVE RoutedToRequester'
    BY <1>i, <1>u, <1>v
<1>1. CASE RicThread \/ RicTimeout
  <2>1. CASE RicNotify
    <3>. DEFINE m == [type |-> rmsg.type, h |-> rto.h, rf |-> rmsg.rf, node |-> rmsg.node]
    <3>1. CASE \A r \in xsad : r.xid # rto.xid
      BY <1>u, <2>1, <3>1 DEF RicNotify, Abort, xVars
    <3>2. CASE ~ \A r \in xsad : r.xid # rto.xid
      <4>1. PICK r \in xsad : /\ r.xid = rto.xid
                /\ \A y \in XApps : Range(xIn'[y]) \subseteq Range(xIn[y]) \cup Only(y = r.x, m)
        BY <2>1, <3>2, NotifyMessage
      <4>2. OwnedIn(xsad, issued, rto.xid, rto.h, KindOf(rmsg.type), rmsg.node, rmsg.rf)
        BY <2>1 DEF RicNotify, RoutingInv, TracedInv, Owned
      <4>3. PICK r2 \in xsad : /\ r2.xid = rto.xid /\ rto.h \in DOMAIN issued[r2.x]
              /\ issued[r2.x][rto.h] = [kind |-> KindOf(rmsg.type), node |-> rmsg.node, rf |-> rmsg.rf]
        BY <4>2 DEF OwnedIn
      <4>4. r = r2
        BY <4>1, <4>3 DEF RoutingInv, XAppIdsInv
      <4>5. r.x \in XApps
        BY DEF TypeOK, TypeShared, XAppRegs
      <4>6. Req(m) = [kind |-> KindOf(rmsg.type), node |-> rmsg.node, rf |-> rmsg.rf] /\ m.h = rto.h
        OBVIOUS
      <4>. HIDE DEF m, Req
      <4>7. Ok(r.x, m)
        BY <1>g, <4>3, <4>4, <4>5, <4>6 DEF Ok
      <4>8. \A x \in XApps : \A q \in Range(xIn'[x]) : Ok(x, q)
        BY <1>i, <4>1, <4>7 DEF Only
      <4>. QED
        BY <1>v, <4>8
    <3>. QED
      BY <3>1, <3>2
  <2>. QED
    BY <1>1, <1>u, <2>1, RicQueues
<1>2. CASE IAppThread
  <2>1. CASE IAppSetupResponse
    <3>. DEFINE m == [type |-> "E42_SETUP_RESP", xid |-> imsg.xid, nodes |-> imsg.nodes]
    <3>1. m \in ToXApp /\ imsg.x \in XApps /\ SendToXApp(imsg.x, m)
      BY <2>1 DEF IAppSetupResponse, TypeOK, TypeIApp, SetupReplies, ToXApp
    <3>2. m.type = "E42_SETUP_RESP"
      OBVIOUS
    <3>. HIDE DEF m
    <3>3. \A y \in XApps : Range(xIn'[y]) \subseteq Range(xIn[y]) \cup Only(y = imsg.x, m)
      BY <3>1, SendRange
    <3>4. \A x \in XApps : \A q \in Range(xIn'[x]) : Ok(x, q)
      BY <1>e, <1>i, <3>2, <3>3 DEF Only
    <3>. QED
      BY <1>v, <3>4
  <2>2. CASE ~ IAppSetupResponse
    <3>1. xIn' = xIn
      BY <1>2, <2>2 DEF IAppThread, IAppSetupRequest, IAppRegXApp, IAppForward,
         IAppRequest, IAppLock, IAppStartTimer, IAppAddMap, IAppDelete, IAppDeleteTimer,
         Abort, xVars
    <3>. QED
      BY <1>u, <3>1
  <2>. QED
    BY <2>1, <2>2
<1>3. ASSUME NEW n \in Nodes, AgentStep(n) PROVE RoutedToRequester'
    BY <1>3, <1>u, AgFrames DEF AgFrame, xVars
<1>4. ASSUME NEW x \in XApps, XAppStep(x) PROVE RoutedToRequester'
  <2>1. CASE UNCHANGED xIn
    BY <1>u, <2>1
  <2>2. CASE XAppAbort(x)
    <3>1. \A y \in XApps : xIn'[y] = xIn[y] \/ xIn'[y] = <<>>
      BY <2>2 DEF XAppAbort, TypeOK, TypeXApps
    <3>2. Range(<<>>) = {}
      BY DEF Range
    <3>. QED
      BY <1>u, <3>1, <3>2
  <2>3. CASE xIn[x] # <<>> /\ XConsume(x)
    BY <1>u, <2>3, ReceiveRange
  <2>4. UNCHANGED xIn \/ XAppAbort(x) \/ (xIn[x] # <<>> /\ XConsume(x))
    BY <1>4 DEF XAppStep, XAppLoop, XAppTimeout, XAppStart, XAppResendSetup, XAppUnsubscribe, XAppRequests,
       XAppRequest, XAppSetupResponse, XAppAnswer, XAppIndication, XReceives
  <2>. QED
    BY <2>1, <2>2, <2>3, <2>4
<1>5. CASE UNCHANGED vars
    BY <1>5, <1>u DEF vars, xVars
<1>. QED
    BY <1>1, <1>2, <1>3, <1>4, <1>5 DEF Next, AgentStep, XAppStep, XAppRequests

\* No lookup of the renaming fails.
LEMMA LookupsStep ==
    ASSUME TypeOK, RoutingInv, [Next]_vars
    PROVE  LookupsSucceed'
<1>u. ASSUME UNCHANGED ricAbort PROVE LookupsSucceed'
    BY <1>u DEF RoutingInv, LookupsSucceed
<1>a. ASSUME NEW why, Abort(why),
             why \notin {"Not found RIC Request ID", "ran_func_id differs", "xApp ID not found",
                         "xApp ID already registered", "valid_xapp_id"}
      PROVE  LookupsSucceed'
    BY <1>a DEF Abort, LookupsSucceed
<1>1. CASE RicThread \/ RicTimeout
  <2>1. CASE RicSetupRequest \/ RicAcceptNode \/ RicIndication
    BY <1>u, <2>1 DEF RicSetupRequest, RicAcceptNode, RicIndication
  <2>2. CASE RicAddNode \/ RicAnswer \/ RicShutdown \/ RicEraseConn \/ RicRmNode
    BY <1>u, <1>a, <2>2 DEF RicAddNode, RicAnswer, RicShutdown, RicEraseConn, RicRmNode
  <2>3. CASE RicLookup
    <3>1. PICK e \in mapRicId :
             {d \in mapRicId : d.rid = rmsg.rid} = {e} /\ e.rf = rmsg.rf
      BY <2>3, LookupFinds DEF RicLookup
    <3>2. Abort("ric_req_id > 0") \/ UNCHANGED ricAbort
      BY <2>3, <3>1 DEF RicLookup
    <3>. QED
      BY <1>u, <1>a, <3>2
  <2>4. CASE RicNotify
    <3>1. \E r \in xsad : r.xid = rto.xid
      BY <2>4 DEF RicNotify, RoutingInv, TracedInv, Owned, OwnedIn
    <3>2. UNCHANGED ricAbort
      BY <2>4, <3>1 DEF RicNotify
    <3>. QED
      BY <1>u, <3>2
  <2>5. CASE RicTimeout
    BY <1>u, <1>a, <2>5 DEF RicTimeout, vars
  <2>. QED
    BY <1>1, <2>1, <2>2, <2>3, <2>4, <2>5 DEF RicThread
<1>2. CASE IAppThread
  <2>1. CASE IAppSetupRequest \/ IAppSetupResponse \/ IAppLock \/ IAppStartTimer \/ IAppDeleteTimer
    BY <1>u, <2>1 DEF IAppSetupRequest, IAppSetupResponse, IAppLock, IAppStartTimer, IAppDeleteTimer
  <2>2. CASE IAppRegXApp
    BY <1>u, <2>2 DEF IAppRegXApp, RoutingInv, XAppIdsInv
  <2>3. CASE IAppRequest
    <3>. DEFINE m == Head(iappIn)
    <3>1. m \in Range(iappIn) /\ m.type \in {"SUB_REQ", "CTRL_REQ"}
      BY <2>3, ReceiveRange DEF IAppRequest, IAppReceives
    <3>2. PICK r \in xsad : r.xid = m.xid
      BY <3>1 DEF RoutingInv, RequestsInv, Owned, OwnedIn
    <3>3. r.xid < xappId /\ r.xid \in Nat /\ xappId \in Nat
      BY DEF RoutingInv, XAppIdsInv, TypeOK, TypeShared, XAppRegs
    <3>4. ~ (m.xid > xappId)
      BY <3>2, <3>3
    <3>5. Abort("valid_global_e2_node") \/ UNCHANGED ricAbort
      BY <2>3, <3>4 DEF IAppRequest
    <3>. QED
      BY <1>u, <1>a, <3>5
  <2>4. CASE IAppForward \/ IAppAddMap \/ IAppDelete
    BY <1>u, <1>a, <2>4 DEF IAppForward, IAppAddMap, IAppDelete
  <2>. QED
    BY <1>2, <2>1, <2>2, <2>3, <2>4 DEF IAppThread
<1>3. ASSUME NEW n \in Nodes, AgentStep(n) PROVE LookupsSucceed'
    BY <1>3, <1>u, AgFrames DEF AgFrame
<1>4. ASSUME NEW x \in XApps, XAppStep(x) PROVE LookupsSucceed'
    BY <1>4, <1>u, XFrames DEF XFrame
<1>5. CASE UNCHANGED vars
    BY <1>5, <1>u DEF vars
<1>. QED
    BY <1>1, <1>2, <1>3, <1>4, <1>5 DEF Next, AgentStep, XAppStep, XAppRequests

\* Nothing is under way initially.
LEMMA RoutingInit == Init => RoutingInv
<1>. SUFFICES ASSUME Init PROVE RoutingInv
    OBVIOUS
<1>r. Range(<<>>) = {}
    BY DEF Range
<1>1. XAppIdsInv
    BY <1>r DEF Init, XAppIdsInv
<1>2. HandlesInv
    BY DEF Init, HandlesInv
<1>3. RequestsInv
    BY <1>r DEF Init, RequestsInv
<1>4. MutexInv
    BY DEF Init, MutexInv
<1>5. TracedInv
    BY <1>r DEF Init, TracedInv
<1>6. RoutedToRequester
    BY <1>r DEF Init, RoutedToRequester
<1>7. LookupsSucceed
    BY DEF Init, LookupsSucceed
<1>. QED
    BY <1>1, <1>2, <1>3, <1>4, <1>5, <1>6, <1>7 DEF RoutingInv

\* Every message under way between an xApp and a node leads back to the request
\* it belongs to, through a mapping that is in map_ric_id or in flight under the
\* mutex: the inductive invariant.
THEOREM RoutingInvariant == Spec => []RoutingInv
<1>1. TypeOK /\ RoutingInv /\ [Next]_vars => RoutingInv'
    BY XAppIdsStep, HandlesStep, RequestsStep, MutexStep, TracedStep, RoutedStep, LookupsStep
    DEF RoutingInv
<1>. QED
    BY <1>1, RoutingInit, TypeCorrect, PTL DEF Spec

\* An answer or an indication reaches an xApp only under a handle that this
\* xApp gave to a request of that kind, for that RAN function, to that node.
THEOREM RoutingCorrect == Spec => []RoutedToRequester
<1>1. RoutingInv => RoutedToRequester
    BY DEF RoutingInv
<1>. QED
    BY <1>1, RoutingInvariant, PTL

\* The asserts of find_xapp_map_ric_id, find_map_xapps_sad, add_map_xapps_sad
\* and valid_xapp_id never fail.
THEOREM LookupsCorrect == Spec => []LookupsSucceed
<1>1. RoutingInv => LookupsSucceed
    BY DEF RoutingInv
<1>. QED
    BY <1>1, RoutingInvariant, PTL

-----------------------------------------------------------------------------
(* The order of setups and shutdowns in the E2 socket *)

\* The elements of a queue after a send.
LEMMA AppendElements ==
    ASSUME NEW S, NEW s \in Seq(S), NEW e \in S
    PROVE  /\ Len(s) \in Nat /\ Len(Append(s, e)) = Len(s) + 1
           /\ DOMAIN s = 1 .. Len(s) /\ DOMAIN Append(s, e) = 1 .. Len(s) + 1
           /\ \A i \in 1 .. Len(s) : Append(s, e)[i] = s[i]
           /\ Append(s, e)[Len(s) + 1] = e
<1>1. Append(s, e) \in Seq(S) /\ Len(s) \in Nat /\ Len(Append(s, e)) = Len(s) + 1
    OBVIOUS
<1>2. DOMAIN s = 1 .. Len(s) /\ DOMAIN Append(s, e) = 1 .. Len(s) + 1
    BY <1>1
<1>3. (\A i \in 1 .. Len(s) : Append(s, e)[i] = s[i]) /\ Append(s, e)[Len(s) + 1] = e
    OBVIOUS
<1>. QED
    BY <1>1, <1>2, <1>3

\* The elements of a queue after a receive.
LEMMA TailElements ==
    ASSUME NEW S, NEW s \in Seq(S), s # <<>>
    PROVE  /\ Len(s) \in Nat \ {0} /\ Len(Tail(s)) = Len(s) - 1
           /\ DOMAIN s = 1 .. Len(s) /\ DOMAIN Tail(s) = 1 .. Len(s) - 1
           /\ \A i \in 1 .. Len(s) - 1 : Tail(s)[i] = s[i + 1]
           /\ Head(s) = s[1] /\ Head(s) \in S /\ Tail(s) \in Seq(S)
<1>1. Tail(s) \in Seq(S) /\ Len(s) \in Nat \ {0} /\ Len(Tail(s)) = Len(s) - 1
    OBVIOUS
<1>2. DOMAIN s = 1 .. Len(s) /\ DOMAIN Tail(s) = 1 .. Len(s) - 1
    BY <1>1
<1>3. \A i \in 1 .. Len(s) - 1 : Tail(s)[i] = s[i + 1]
    OBVIOUS
<1>. QED
    BY <1>1, <1>2, <1>3

\* A receive changes the queue.
LEMMA TailShorter == ASSUME NEW S, NEW s \in Seq(S), s # <<>> PROVE Tail(s) # s
<1>1. \A k \in Nat : k - 1 # k
    OBVIOUS
<1>2. Len(s) \in Nat /\ Len(Tail(s)) = Len(s) - 1
    BY TailElements
<1>. QED
    BY <1>1, <1>2

\* A send leaves what precedes it alone; after the setup of n, or a message of
\* another kind, the latest link of n is still the one that was.
LEMMA LatestAppend ==
    ASSUME NEW s \in Seq(ToRic), NEW e \in ToRic, NEW c, NEW n, NEW a
    PROVE  /\ \A i \in 1 .. Len(s) + 1 :
                LatestIn(s, c, i, n, a) => LatestIn(Append(s, e), c, i, n, a)
           /\ e = SetupRequest(n, a) => LatestIn(Append(s, e), c, Len(s) + 2, n, a)
           /\ LatestIn(s, c, Len(s) + 1, n, a) /\ ~(LinkMsg(e) /\ e.node = n) =>
                LatestIn(Append(s, e), c, Len(s) + 2, n, a)
<1>. DEFINE t == Append(s, e)
<1>1. /\ Len(s) \in Nat /\ t[Len(s) + 1] = e
      /\ \A i \in 1 .. Len(s) : t[i] = s[i]
    BY AppendElements
<1>. HIDE DEF t
<1>2. ASSUME NEW i \in 1 .. Len(s) + 1, LatestIn(s, c, i, n, a) PROVE LatestIn(t, c, i, n, a)
  <2>1. PICK j \in 0 .. i - 1 :
          /\ IF j = 0 THEN c = a ELSE s[j] = SetupRequest(n, a)
          /\ \A k \in j + 1 .. i - 1 :
               LinkMsg(s[k]) /\ s[k].node = n => s[k] = SetupRequest(n, a)
    BY <1>2 DEF LatestIn
  <2>2. \A k \in 1 .. i - 1 : t[k] = s[k]
    BY <1>1
  <2>3. IF j = 0 THEN c = a ELSE t[j] = SetupRequest(n, a)
    BY <2>1, <2>2
  <2>4. \A k \in j + 1 .. i - 1 : LinkMsg(t[k]) /\ t[k].node = n => t[k] = SetupRequest(n, a)
    BY <2>1, <2>2
  <2>. QED
    BY <2>3, <2>4 DEF LatestIn
<1>3. ASSUME e = SetupRequest(n, a) PROVE LatestIn(t, c, Len(s) + 2, n, a)
  <2>1. Len(s) + 1 \in 0 .. (Len(s) + 2) - 1 /\ Len(s) + 1 # 0 /\ t[Len(s) + 1] = SetupRequest(n, a)
    BY <1>1, <1>3
  <2>2. \A k \in (Len(s) + 1) + 1 .. (Len(s) + 2) - 1 : FALSE
    BY <1>1
  <2>. QED
    BY <2>1, <2>2 DEF LatestIn
<1>4. ASSUME LatestIn(s, c, Len(s) + 1, n, a), ~(LinkMsg(e) /\ e.node = n)
      PROVE  LatestIn(t, c, Len(s) + 2, n, a)
  <2>1. LatestIn(t, c, Len(s) + 1, n, a)
    BY <1>1, <1>2, <1>4
  <2>2. PICK j \in 0 .. Len(s) + 1 - 1 :
          /\ IF j = 0 THEN c = a ELSE t[j] = SetupRequest(n, a)
          /\ \A k \in j + 1 .. Len(s) + 1 - 1 :
               LinkMsg(t[k]) /\ t[k].node = n => t[k] = SetupRequest(n, a)
    BY <2>1 DEF LatestIn
  <2>3. \A k \in j + 1 .. Len(s) + 2 - 1 : k \in j + 1 .. Len(s) + 1 - 1 \/ k = Len(s) + 1
    BY <1>1
  <2>4. j \in 0 .. Len(s) + 2 - 1
    BY <1>1
  <2>5. \A k \in j + 1 .. Len(s) + 2 - 1 :
          LinkMsg(t[k]) /\ t[k].node = n => t[k] = SetupRequest(n, a)
    BY <1>1, <1>4, <2>2, <2>3
  <2>. QED
    BY <2>2, <2>4, <2>5 DEF LatestIn
<1>. QED
    BY <1>2, <1>3, <1>4 DEF t

\* Receiving a setup or a shutdown of n moves it from the queue to the record.
LEMMA LatestTail ==
    ASSUME NEW s \in Seq(ToRic), s # <<>>, NEW c, NEW d, NEW n, NEW a,
           NEW i \in 2 .. Len(s) + 1, LatestIn(s, c, i, n, a),
           ~(LinkMsg(Head(s)) /\ Head(s).node = n) => d = c,
           \A b : Head(s) = SetupRequest(n, b) => d = b
    PROVE  LatestIn(Tail(s), d, i - 1, n, a)
<1>. DEFINE t == Tail(s)
<1>1. /\ Len(s) \in Nat \ {0} /\ Head(s) = s[1]
      /\ \A k \in 1 .. Len(s) - 1 : t[k] = s[k + 1]
    BY TailElements
<1>. HIDE DEF t
<1>2. PICK j \in 0 .. i - 1 :
          /\ IF j = 0 THEN c = a ELSE s[j] = SetupRequest(n, a)
          /\ \A k \in j + 1 .. i - 1 :
               LinkMsg(s[k]) /\ s[k].node = n => s[k] = SetupRequest(n, a)
    BY DEF LatestIn
<1>3. CASE j > 1
  <2>1. j - 1 \in 0 .. (i - 1) - 1 /\ j - 1 # 0 /\ t[j - 1] = SetupRequest(n, a)
    BY <1>1, <1>2, <1>3
  <2>2. \A k \in (j - 1) + 1 .. (i - 1) - 1 : t[k] = s[k + 1] /\ k + 1 \in j + 1 .. i - 1
    BY <1>1, <1>3
  <2>3. \A k \in (j - 1) + 1 .. (i - 1) - 1 :
          LinkMsg(t[k]) /\ t[k].node = n => t[k] = SetupRequest(n, a)
    BY <1>2, <2>2
  <2>. QED
    BY <2>1, <2>3 DEF LatestIn, t
<1>4. CASE j <= 1
  <2>1. d = a
    <3>1. CASE j = 1
      BY <1>1, <1>2, <3>1
    <3>2. CASE j = 0
      <4>1. 1 \in j + 1 .. i - 1 /\ c = a
        BY <1>1, <1>2, <3>2
      <4>2. LinkMsg(Head(s)) /\ Head(s).node = n => Head(s) = SetupRequest(n, a)
        BY <1>1, <1>2, <4>1
      <4>. QED
        BY <4>1, <4>2
    <3>. QED
      BY <1>4, <3>1, <3>2
  <2>2. 0 \in 0 .. (i - 1) - 1
    BY <1>1
  <2>3. \A k \in 0 + 1 .. (i - 1) - 1 : t[k] = s[k + 1] /\ k + 1 \in j + 1 .. i - 1
    BY <1>1, <1>4
  <2>4. \A k \in 0 + 1 .. (i - 1) - 1 :
          LinkMsg(t[k]) /\ t[k].node = n => t[k] = SetupRequest(n, a)
    BY <1>2, <2>3
  <2>. QED
    BY <2>1, <2>2, <2>4 DEF LatestIn, t
<1>. QED
    BY <1>3, <1>4

\* At the head of the queue the record is the latest.
LEMMA LatestHead ==
    ASSUME NEW s, NEW c, NEW n, NEW a, LatestIn(s, c, 1, n, a)
    PROVE  c = a
    BY DEF LatestIn

\* How many setups of n a queue holds, after a send and after a receive.
LEMMA SetupCount ==
    ASSUME NEW s \in Seq(ToRic), NEW n
    PROVE  /\ NoSetup(s, n) => OneSetup(s, n)
           /\ \A e \in ToRic :
                /\ ~SetupOf(e, n) /\ NoSetup(s, n) => NoSetup(Append(s, e), n)
                /\ OneSetup(s, n) /\ ~SetupOf(e, n) => OneSetup(Append(s, e), n)
                /\ NoSetup(s, n) => OneSetup(Append(s, e), n)
           /\ s # <<>> /\ NoSetup(s, n) => NoSetup(Tail(s), n) /\ ~SetupOf(Head(s), n)
           /\ s # <<>> /\ OneSetup(s, n) => OneSetup(Tail(s), n)
           /\ s # <<>> /\ OneSetup(s, n) /\ SetupOf(Head(s), n) => NoSetup(Tail(s), n)
<1>1. NoSetup(s, n) => OneSetup(s, n)
    BY DEF NoSetup, OneSetup, Range
<1>2. ASSUME NEW e \in ToRic
      PROVE  /\ ~SetupOf(e, n) /\ NoSetup(s, n) => NoSetup(Append(s, e), n)
             /\ OneSetup(s, n) /\ ~SetupOf(e, n) => OneSetup(Append(s, e), n)
             /\ NoSetup(s, n) => OneSetup(Append(s, e), n)
  <2>1. /\ DOMAIN Append(s, e) = DOMAIN s \cup {Len(s) + 1}
        /\ \A i \in DOMAIN s : Append(s, e)[i] = s[i]
        /\ Append(s, e)[Len(s) + 1] = e
    BY AppendElements
  <2>. QED
    BY <2>1 DEF NoSetup, OneSetup, Range
<1>3. ASSUME s # <<>>
      PROVE  /\ NoSetup(s, n) => NoSetup(Tail(s), n) /\ ~SetupOf(Head(s), n)
             /\ OneSetup(s, n) => OneSetup(Tail(s), n)
             /\ OneSetup(s, n) /\ SetupOf(Head(s), n) => NoSetup(Tail(s), n)
  <2>. DEFINE t == Tail(s)
  <2>1. /\ 1 \in DOMAIN s /\ Head(s) = s[1]
        /\ \A i \in DOMAIN t : i \in Nat /\ i >= 1 /\ i + 1 \in DOMAIN s /\ t[i] = s[i + 1]
    BY <1>3, TailElements
  <2>. HIDE DEF t
  <2>2. NoSetup(s, n) => NoSetup(t, n) /\ ~SetupOf(Head(s), n)
    BY <2>1 DEF NoSetup, Range
  <2>3. OneSetup(s, n) => OneSetup(t, n)
    BY <2>1 DEF OneSetup
  <2>4. OneSetup(s, n) /\ SetupOf(Head(s), n) => NoSetup(t, n)
    BY <2>1 DEF OneSetup, NoSetup, Range
  <2>. QED
    BY <2>2, <2>3, <2>4 DEF t
<1>. QED
    BY <1>1, <1>2, <1>3

-----------------------------------------------------------------------------
(* What the steps do to the nodes *)

NodeFrame == UNCHANGED <<sad, conn, reg, rpc, rmsg>>

\* Only the RIC thread changes the views of the nodes.
LEMMA NodeFrames ==
    /\ IAppThread => NodeFrame /\ UNCHANGED <<ricIn, ast, assoc, agResent>>
    /\ \A n \in Nodes : AgentStep(n) => NodeFrame
    /\ \A x \in XApps : XAppStep(x) => NodeFrame /\ UNCHANGED <<ricIn, ast, assoc, agResent>>
<1>1. IAppThread => NodeFrame /\ UNCHANGED <<ricIn, ast, assoc, agResent>>
  <2>. USE DEF NodeFrame, Abort, shared, ricVars, agVars
  <2>1. IAppSetupRequest \/ IAppRegXApp \/ IAppSetupResponse =>
          NodeFrame /\ UNCHANGED <<ricIn, ast, assoc, agResent>>
    BY DEF IAppSetupRequest, IAppRegXApp, IAppSetupResponse
  <2>2. IAppRequest \/ IAppLock \/ IAppStartTimer =>
          NodeFrame /\ UNCHANGED <<ricIn, ast, assoc, agResent>>
    BY DEF IAppRequest, IAppLock, IAppStartTimer
  <2>3. IAppForward \/ IAppAddMap => NodeFrame /\ UNCHANGED <<ricIn, ast, assoc, agResent>>
    BY DEF IAppForward, IAppAddMap
  <2>4. IAppDelete \/ IAppDeleteTimer => NodeFrame /\ UNCHANGED <<ricIn, ast, assoc, agResent>>
    BY DEF IAppDelete, IAppDeleteTimer
  <2>. QED
    BY <2>1, <2>2, <2>3, <2>4 DEF IAppThread
<1>2. ASSUME NEW n \in Nodes, AgentStep(n) PROVE NodeFrame
    BY <1>2, AgFrames DEF AgFrame, NodeFrame, shared, ricVars
<1>3. ASSUME NEW x \in XApps, XAppStep(x)
      PROVE  NodeFrame /\ UNCHANGED <<ricIn, ast, assoc, agResent>>
    BY <1>3, XFrames DEF XFrame, NodeFrame, shared, ricVars, agVars
<1>. QED
    BY <1>1, <1>2, <1>3

\* The RIC thread takes messages from the E2 socket and leaves the agents' life
\* alone.
LEMMA RicNodeFrames ==
    ASSUME RicThread \/ RicTimeout
    PROVE  /\ UNCHANGED <<ast, assoc, agResent>>
           /\ ricIn' = ricIn \/ (ricIn # <<>> /\ rpc = "idle" /\ ricIn' = Tail(ricIn))
<1>. USE DEF Abort, ricVars, agVars, RicReceives
<1>1. CASE RicSetupRequest \/ RicAddNode \/ RicAcceptNode
    BY <1>1 DEF RicSetupRequest, RicAddNode, RicAcceptNode
<1>2. CASE RicAnswer
    BY <1>2 DEF RicAnswer
<1>3. CASE RicIndication \/ RicLookup \/ RicNotify
    BY <1>3 DEF RicIndication, RicLookup, RicNotify
<1>4. CASE RicShutdown \/ RicEraseConn \/ RicRmNode
    BY <1>4 DEF RicShutdown, RicEraseConn, RicRmNode
<1>5. CASE RicTimeout
    BY <1>5 DEF RicTimeout, vars
<1>. QED
    BY <1>1, <1>2, <1>3, <1>4, <1>5 DEF RicThread

ShutdownOf(n) == [type |-> "SHUTDOWN", node |-> n, assoc |-> assoc[n]]

\* It starts, sends its setup again, ends, or sends an answer or an indication.
AgLife(n) ==
    \/ /\ ast[n] # "up" /\ ast'[n] = "up" /\ assoc'[n] = assoc[n] + 1
       /\ agResent'[n] = agResent[n] /\ ricIn' = Append(ricIn, SetupRequest(n, assoc[n] + 1))
    \/ /\ ast[n] = "up" /\ ast'[n] = "up" /\ assoc'[n] = assoc[n]
       /\ agResent'[n] = agResent[n] + 1 /\ ricIn' = Append(ricIn, SetupRequest(n, assoc[n]))
    \/ /\ ast[n] = "up" /\ ast'[n] # "up" /\ assoc'[n] = assoc[n] /\ agResent'[n] = agResent[n]
       /\ ricIn' = ricIn \/ ricIn' = Append(ricIn, ShutdownOf(n))
    \/ /\ ast[n] = "up" /\ UNCHANGED <<ast, assoc, agResent>>
       /\ ricIn' = ricIn \/ \E m \in ToRic : ~LinkMsg(m) /\ ricIn' = Append(ricIn, m)

\* What a step of an agent does to its own life and to the E2 socket.
LEMMA AgLives ==
    ASSUME TypeOK, NEW n \in Nodes, AgentStep(n)
    PROVE  /\ AgLife(n)
           /\ \A k \in Nodes \ {n} : ast'[k] = ast[k] /\ assoc'[k] = assoc[k]
                                     /\ agResent'[k] = agResent[k]
<1>t. ast \in [Nodes -> {"off", "up", "aborted"}] /\ assoc \in [Nodes -> Nat]
      /\ agResent \in [Nodes -> Nat]
    BY DEF TypeOK, TypeAgents
<1>. DEFINE Others == \A k \in Nodes \ {n} : ast'[k] = ast[k] /\ assoc'[k] = assoc[k]
                                             /\ agResent'[k] = agResent[k]
<1>a. ASSUME ast[n] = "up", AgAbort(n) PROVE AgLife(n) /\ Others
    BY <1>a, <1>t DEF AgAbort, AgClose, AgSend, AgLife, ShutdownOf
<1>b. ASSUME ast[n] = "up", UNCHANGED <<ast, assoc, agResent>>,
             NEW m \in ToRic, ~LinkMsg(m), ricIn' = Append(ricIn, m)
      PROVE  AgLife(n) /\ Others
    BY <1>b DEF AgLife
<1>c. ASSUME NEW m \in ToAgent, m.type # "SETUP_RESP"
      PROVE  LET r == [type |-> AnswerTo(m.type), node |-> n, rid |-> m.rid, rf |-> m.rf]
             IN  r \in ToRic /\ ~LinkMsg(r)
    BY <1>c DEF ToAgent, ToRic, AnswerTo, LinkMsg, E2Answers
<1>d. ASSUME AgReceives(n, {"SUB_REQ", "DEL_REQ", "CTRL_REQ"}), AgAnswer(n, Head(agIn[n])),
             UNCHANGED <<ast, assoc, agResent>>
      PROVE  AgLife(n) /\ Others
  <2>1. Head(agIn[n]) \in ToAgent /\ Head(agIn[n]).type # "SETUP_RESP" /\ ast[n] = "up"
    BY <1>d, QueueTypes DEF AgReceives, TypeOK, TypeAgents
  <2>. QED
    BY <1>b, <1>c, <1>d, <2>1 DEF AgAnswer, AgSend
<1>1. CASE AgStart(n)
    BY <1>1, <1>t DEF AgStart, AgSend, AgLife
<1>2. CASE AgResendSetup(n)
    BY <1>2, <1>t DEF AgResendSetup, AgSend, AgLife
<1>3. CASE AgSetupResponse(n)
  <2>1. CASE agSetup[n]
    BY <1>3, <2>1 DEF AgSetupResponse, AgReceives, AgLife
  <2>2. CASE ~agSetup[n]
    BY <1>3, <1>a, <2>2 DEF AgSetupResponse, AgReceives
  <2>. QED
    BY <2>1, <2>2
<1>4. CASE AgSubscription(n)
    BY <1>4, <1>d DEF AgSubscription, AgReceives
<1>5. CASE AgDelete(n)
  <2>1. CASE AgAbort(n)
    BY <1>5, <1>a, <2>1 DEF AgDelete, AgReceives
  <2>2. CASE ~AgAbort(n)
    BY <1>5, <1>d, <2>2 DEF AgDelete, AgReceives
  <2>. QED
    BY <2>1, <2>2
<1>6. CASE AgControl(n)
    BY <1>6, <1>d DEF AgControl, AgReceives
<1>7. CASE AgIndication(n)
  <2>1. PICK s \in agSubs[n] : AgSend([type |-> "IND", node |-> n, rid |-> s.rid, rf |-> s.rf])
    BY <1>7 DEF AgIndication
  <2>. DEFINE r == [type |-> "IND", node |-> n, rid |-> s.rid, rf |-> s.rf]
  <2>2. r \in ToRic /\ ~LinkMsg(r)
    BY DEF TypeOK, TypeAgents, ToRic, E2Answers, LinkMsg
  <2>3. ricIn' = Append(ricIn, r) /\ ast[n] = "up" /\ UNCHANGED <<ast, assoc, agResent>>
    BY <1>7, <2>1 DEF AgIndication, AgSend
  <2>. QED
    BY <1>b, <2>2, <2>3
<1>8. CASE AgStop(n)
    BY <1>8, <1>t DEF AgStop, AgClose, AgSend, AgLife, ShutdownOf
<1>. QED
    BY <1>1, <1>2, <1>3, <1>4, <1>5, <1>6, <1>7, <1>8 DEF AgentStep, AgentLoop

\* An agent that has ended stays so, and what was resent stays resent.
LEMMA EndedGrows ==
    ASSUME TypeOK, [Next]_vars, NEW n \in Nodes
    PROVE  /\ AgentEnded(n) => AgentEnded(n)'
           /\ agResent[n] > 0 => agResent'[n] > 0
<1>t. ast \in [Nodes -> {"off", "up", "aborted"}] /\ assoc[n] \in Nat /\ agResent[n] \in Nat
    BY DEF TypeOK, TypeAgents
<1>u. ASSUME ast'[n] = ast[n], assoc'[n] = assoc[n], agResent'[n] = agResent[n]
      PROVE  (AgentEnded(n) => AgentEnded(n)') /\ (agResent[n] > 0 => agResent'[n] > 0)
    BY <1>u DEF AgentEnded
<1>1. CASE RicThread \/ RicTimeout
    BY <1>1, <1>u, RicNodeFrames
<1>2. CASE IAppThread
    BY <1>2, <1>u, NodeFrames
<1>3. ASSUME NEW k \in Nodes, AgentStep(k)
      PROVE  (AgentEnded(n) => AgentEnded(n)') /\ (agResent[n] > 0 => agResent'[n] > 0)
  <2>1. CASE k # n
    BY <1>3, <1>u, <2>1, AgLives
  <2>2. CASE k = n
    BY <1>3, <1>t, <1>u, <2>2, AgLives DEF AgLife, AgentEnded
  <2>. QED
    BY <2>1, <2>2
<1>4. ASSUME NEW x \in XApps, XAppStep(x)
      PROVE  (AgentEnded(n) => AgentEnded(n)') /\ (agResent[n] > 0 => agResent'[n] > 0)
    BY <1>4, <1>u, NodeFrames
<1>5. CASE UNCHANGED vars
    BY <1>5, <1>u DEF vars, agVars
<1>. QED
    BY <1>1, <1>2, <1>3, <1>4, <1>5 DEF Next, AgentStep, XAppStep, XAppRequests

-----------------------------------------------------------------------------
(* The invariant, part by part *)

\* The handlers of setup and shutdown go through the three views in turn.
LEMMA ViewsStep ==
    ASSUME TypeOK, ViewsInv, LinkInv, [Next]_vars
    PROVE  ViewsInv'
<1>t. sad \in [Nodes -> Nat] /\ conn \subseteq Nodes /\ reg \subseteq Nodes
    BY DEF TypeOK, TypeShared
<1>m. rpc \in {"add_node", "accept_node", "erase_conn", "rm_node"} => rmsg.node \in Nodes
    BY DEF TypeOK, TypeRic, ToRic
<1>h. ASSUME RicReceives({"SETUP_REQ", "SHUTDOWN"})
      PROVE  Head(ricIn).node \in Nodes /\ Head(ricIn).assoc \in Nat /\ Head(ricIn).assoc > 0
  <2>1. Head(ricIn) \in ToRic /\ Head(ricIn) \in Range(ricIn) /\ LinkMsg(Head(ricIn))
    BY <1>h, QueueTypes, RangeQueue DEF RicReceives, TypeOK, TypeSockets, LinkMsg
  <2>. QED
    BY <2>1 DEF LinkInv, LinkMsg, ToRic, E2Answers
<1>u. ASSUME NodeFrame PROVE ViewsInv'
    BY <1>u DEF NodeFrame, ViewsInv
<1>a. ASSUME NEW why, Abort(why) PROVE ViewsInv'
    BY <1>a, <1>u DEF Abort, NodeFrame, shared, ricVars
<1>i. ASSUME rpc \in {"idle", "lookup", "notify"}, rpc' \in {"idle", "lookup", "notify"},
             UNCHANGED <<sad, conn, reg>>
      PROVE  ViewsInv'
    BY <1>i DEF ViewsInv
<1>1. CASE RicThread \/ RicTimeout
  <2>1. CASE RicSetupRequest
    <3>. DEFINE m == Head(ricIn)
    <3>1. /\ m.node \in Nodes /\ m.assoc \in Nat /\ m.assoc > 0
          /\ sad' = [sad EXCEPT ![m.node] = m.assoc] /\ rmsg' = m
          /\ rpc = "idle" /\ rpc' = "add_node" /\ UNCHANGED <<conn, reg>>
      BY <1>h, <2>1 DEF RicSetupRequest, RicReceives
    <3>. QED
      BY <1>t, <3>1 DEF ViewsInv
  <2>2. CASE RicAddNode
    BY <2>2, <1>a, <1>m DEF RicAddNode, ViewsInv
  <2>3. CASE RicAcceptNode
    BY <2>3, <1>m DEF RicAcceptNode, ViewsInv
  <2>4. CASE RicShutdown
    <3>. DEFINE m == Head(ricIn)
    <3>1. CASE sad[m.node] # m.assoc
      BY <1>a, <2>4, <3>1 DEF RicShutdown
    <3>2. CASE sad[m.node] = m.assoc
      <4>1. /\ m.node \in Nodes /\ m.assoc \in Nat /\ m.assoc > 0
            /\ sad' = [sad EXCEPT ![m.node] = 0] /\ rmsg' = m
            /\ rpc = "idle" /\ rpc' = "erase_conn" /\ UNCHANGED <<conn, reg>>
        BY <1>h, <2>4, <3>2 DEF RicShutdown, RicReceives
      <4>. QED
        BY <1>t, <3>2, <4>1 DEF ViewsInv
    <3>. QED
      BY <3>1, <3>2
  <2>5. CASE RicEraseConn
    BY <2>5, <1>a, <1>m DEF RicEraseConn, ViewsInv
  <2>6. CASE RicRmNode
    BY <2>6, <1>a, <1>m DEF RicRmNode, ViewsInv
  <2>7. CASE RicAnswer
    BY <2>7, <1>a, <1>i DEF RicAnswer, RicReceives
  <2>8. CASE RicIndication \/ RicLookup \/ RicNotify
    BY <2>8, <1>a, <1>i DEF RicIndication, RicLookup, RicNotify, RicReceives, shared
  <2>9. CASE RicTimeout
    BY <2>9, <1>a, <1>u DEF RicTimeout, vars, NodeFrame, shared, ricVars
  <2>. QED
    BY <1>1, <2>1, <2>2, <2>3, <2>4, <2>5, <2>6, <2>7, <2>8, <2>9 DEF RicThread
<1>2. CASE IAppThread
    BY <1>2, <1>u, NodeFrames
<1>3. ASSUME NEW n \in Nodes, AgentStep(n) PROVE ViewsInv'
    BY <1>3, <1>u, NodeFrames
<1>4. ASSUME NEW x \in XApps, XAppStep(x) PROVE ViewsInv'
    BY <1>4, <1>u, NodeFrames
<1>5. CASE UNCHANGED vars
    BY <1>5, <1>u DEF vars, NodeFrame, shared, ricVars
<1>. QED
    BY <1>1, <1>2, <1>3, <1>4, <1>5 DEF Next, AgentStep, XAppStep, XAppRequests

\* What the RIC thread does to the record of an association when it takes a
\* message from the E2 socket.
LEMMA RecordFollows ==
    ASSUME TypeOK, RicThread \/ RicTimeout, ricIn # <<>>, ricIn' = Tail(ricIn), ricIn' # ricIn,
           NEW n \in Nodes
    PROVE  /\ ~(LinkMsg(Head(ricIn)) /\ Head(ricIn).node = n) => sad'[n] = sad[n]
           /\ \A b : Head(ricIn) = SetupRequest(n, b) => sad'[n] = b
           /\ rpc' = "erase_conn" => Head(ricIn).type = "SHUTDOWN" /\ rmsg' = Head(ricIn)
           /\ rpc' # "rm_node"
<1>. DEFINE m == Head(ricIn)
<1>t. sad \in [Nodes -> Nat] /\ m \in ToRic
    BY QueueTypes DEF TypeOK, TypeShared, TypeSockets
<1>1. CASE RicSetupRequest
  <2>1. m.type = "SETUP_REQ" /\ sad' = [sad EXCEPT ![m.node] = m.assoc] /\ rpc' = "add_node"
    BY <1>1 DEF RicSetupRequest, RicReceives
  <2>. QED
    BY <1>t, <2>1 DEF LinkMsg, SetupRequest
<1>2. CASE RicShutdown
  <2>1. CASE Abort("key not in the tree")
    BY <2>1 DEF Abort
  <2>2. CASE ~Abort("key not in the tree")
    <3>1. m.type = "SHUTDOWN" /\ sad' = [sad EXCEPT ![m.node] = 0] /\ rpc' = "erase_conn"
          /\ rmsg' = m
      BY <1>2, <2>2 DEF RicShutdown, RicReceives
    <3>. QED
      BY <1>t, <3>1 DEF LinkMsg, SetupRequest
  <2>. QED
    BY <2>1, <2>2
<1>3. CASE RicAnswer \/ RicIndication
  <2>1. CASE \E why : Abort(why)
    BY <2>1 DEF Abort
  <2>2. CASE ~\E why : Abort(why)
    <3>1. sad' = sad /\ rpc' = "lookup" /\ m.type \in E2Answers
      BY <1>3, <2>2 DEF RicAnswer, RicIndication, RicReceives, shared, E2Answers
    <3>. QED
      BY <3>1 DEF SetupRequest, E2Answers
  <2>. QED
    BY <2>1, <2>2
<1>4. CASE RicAddNode \/ RicAcceptNode \/ RicLookup \/ RicNotify \/ RicEraseConn \/ RicRmNode
  <2>1. ricIn' = ricIn
    BY <1>4 DEF RicAddNode, RicAcceptNode, RicLookup, RicNotify, RicEraseConn, RicRmNode, Abort
  <2>. QED
    BY <2>1
<1>5. CASE RicTimeout
    BY <1>5 DEF RicTimeout, Abort, vars
<1>. QED
    BY <1>1, <1>2, <1>3, <1>4, <1>5 DEF RicThread

\* Without a message the record stays, and a shutdown is only carried on.
LEMMA RecordStays ==
    ASSUME TypeOK, RicThread \/ RicTimeout, ricIn' = ricIn
    PROVE  /\ sad' = sad
           /\ rpc' \in {"erase_conn", "rm_node"} =>
                rpc \in {"erase_conn", "rm_node"} /\ rmsg' = rmsg
<1>t. ASSUME ricIn # <<>> PROVE Tail(ricIn) # ricIn
    BY <1>t, TailShorter DEF TypeOK, TypeSockets
<1>a. ASSUME NEW why, Abort(why)
      PROVE  sad' = sad /\ rpc' = rpc /\ rmsg' = rmsg
    BY <1>a DEF Abort, shared, ricVars
<1>1. ~RicSetupRequest /\ ~RicIndication
    BY <1>t DEF RicSetupRequest, RicIndication, RicReceives
<1>2. CASE RicShutdown
    BY <1>2, <1>a, <1>t DEF RicShutdown, RicReceives
<1>3. CASE RicAnswer
    BY <1>3, <1>a, <1>t DEF RicAnswer, RicReceives
<1>4. CASE RicAddNode \/ RicAcceptNode \/ RicLookup \/ RicNotify
    BY <1>4, <1>a DEF RicAddNode, RicAcceptNode, RicLookup, RicNotify, shared
<1>5. CASE RicEraseConn \/ RicRmNode
    BY <1>5, <1>a DEF RicEraseConn, RicRmNode
<1>6. CASE RicTimeout
    BY <1>6, <1>a DEF RicTimeout, vars, shared, ricVars
<1>. QED
    BY <1>1, <1>2, <1>3, <1>4, <1>5, <1>6 DEF RicThread

\* Setups and shutdowns stay in the order in which the agents live.
LEMMA LinkStep ==
    ASSUME TypeOK, LinkInv, [Next]_vars
    PROVE  LinkInv'
<1>s. ricIn \in Seq(ToRic) /\ assoc \in [Nodes -> Nat] /\ sad \in [Nodes -> Nat]
    BY DEF TypeOK, TypeSockets, TypeAgents, TypeShared
<1>n. \A m \in ToRic : m.node \in Nodes
    BY DEF ToRic
<1>m. rpc \in {"erase_conn", "rm_node"} => rmsg.node \in Nodes
    BY DEF TypeOK, TypeRic, ToRic
<1>e. \A k \in Nodes : AgentEnded(k) => AgentEnded(k)'
    BY EndedGrows
<1>r. \A m \in Range(ricIn) : m \in ToRic
    BY <1>s DEF Range
<1>u. ASSUME UNCHANGED <<ricIn, ast, assoc, sad>>,
             rpc' \in {"erase_conn", "rm_node"} =>
               rpc \in {"erase_conn", "rm_node"} /\ rmsg' = rmsg
      PROVE  LinkInv'
    BY <1>u DEF LinkInv, AgentEnded
<1>f. ASSUME NodeFrame, UNCHANGED <<ricIn, ast, assoc>> PROVE LinkInv'
    BY <1>u, <1>f DEF NodeFrame
<1>1. CASE RicThread \/ RicTimeout
  <2>0. UNCHANGED <<ast, assoc>> /\ (ricIn' = ricIn \/ (ricIn # <<>> /\ ricIn' = Tail(ricIn)))
    BY <1>1, RicNodeFrames
  <2>1. CASE ricIn' = ricIn
    BY <1>1, <1>u, <2>0, <2>1, RecordStays
  <2>2. CASE ricIn' # ricIn
    <3>1. ricIn # <<>> /\ ricIn' = Tail(ricIn)
      BY <2>0, <2>2
    <3>2. /\ Len(ricIn) \in Nat \ {0} /\ Len(ricIn') = Len(ricIn) - 1
          /\ DOMAIN ricIn = 1 .. Len(ricIn) /\ DOMAIN ricIn' = 1 .. Len(ricIn) - 1
          /\ \A i \in DOMAIN ricIn' : ricIn'[i] = ricIn[i + 1]
          /\ Head(ricIn) \in ToRic
      BY <1>s, <3>1, TailElements
    <3>3. \A m \in Range(ricIn') : m \in Range(ricIn)
      BY <1>s, <3>1, RangeQueue
    <3>h. Head(ricIn) \in Range(ricIn)
      BY <1>s, <3>1, RangeQueue
    <3>4. \A k \in Nodes :
            /\ ~(LinkMsg(Head(ricIn)) /\ Head(ricIn).node = k) => sad'[k] = sad[k]
            /\ \A b : Head(ricIn) = SetupRequest(k, b) => sad'[k] = b
      BY <1>1, <2>2, <3>1, RecordFollows
    <3>5. ASSUME NEW k \in Nodes, NEW a, NEW i \in 2 .. Len(ricIn) + 1,
                 LatestIn(ricIn, sad[k], i, k, a)
          PROVE  LatestIn(ricIn', sad'[k], i - 1, k, a)
      BY <1>s, <3>1, <3>4, <3>5, LatestTail
    <3>6. (\A m \in Range(ricIn) : LinkMsg(m) => m.assoc > 0)'
      BY <3>3 DEF LinkInv, LinkMsg
    <3>7. (\A m \in Range(ricIn) : m.type = "SHUTDOWN" => AgentEnded(m.node))'
      BY <1>e, <1>n, <1>r, <3>3 DEF LinkInv
    <3>8. (rpc \in {"erase_conn", "rm_node"} => AgentEnded(rmsg.node))'
      <4>. SUFFICES ASSUME rpc' \in {"erase_conn", "rm_node"} PROVE AgentEnded(rmsg.node)'
        OBVIOUS
      <4>1. Head(ricIn).node \in Nodes
        BY <1>n, <3>2
      <4>2. Head(ricIn).type = "SHUTDOWN" /\ rmsg' = Head(ricIn)
        BY <1>1, <2>2, <3>1, <4>1, RecordFollows
      <4>3. AgentEnded(Head(ricIn).node)
        BY <3>h, <4>2 DEF LinkInv
      <4>. QED
        BY <2>0, <4>2, <4>3 DEF AgentEnded
    <3>9. ASSUME NEW i \in DOMAIN ricIn', ricIn'[i].type = "SHUTDOWN"
          PROVE  LatestIn(ricIn', sad'[ricIn'[i].node], i, ricIn'[i].node, ricIn'[i].assoc)
      <4>1. /\ i + 1 \in DOMAIN ricIn /\ ricIn'[i] = ricIn[i + 1] /\ i + 1 \in 2 .. Len(ricIn) + 1
            /\ (i + 1) - 1 = i
        BY <3>2
      <4>2. LatestIn(ricIn, sad[ricIn[i + 1].node], i + 1, ricIn[i + 1].node, ricIn[i + 1].assoc)
        BY <3>9, <4>1 DEF LinkInv
      <4>3. ricIn[i + 1].node \in Nodes
        BY <1>n, <1>s, <4>1
      <4>4. LatestIn(ricIn', sad'[ricIn[i + 1].node], (i + 1) - 1, ricIn[i + 1].node,
                     ricIn[i + 1].assoc)
        BY <3>5, <4>1, <4>2, <4>3
      <4>. QED
        BY <4>1, <4>4
    <3>10. ASSUME NEW k \in Nodes, ast'[k] = "up"
           PROVE  assoc'[k] > 0 /\ LatestIn(ricIn', sad'[k], Len(ricIn') + 1, k, assoc'[k])
      <4>1. assoc[k] > 0 /\ LatestIn(ricIn, sad[k], Len(ricIn) + 1, k, assoc[k])
        BY <2>0, <3>10 DEF LinkInv
      <4>2. Len(ricIn) + 1 \in 2 .. Len(ricIn) + 1 /\ (Len(ricIn) + 1) - 1 = Len(ricIn') + 1
        BY <3>2
      <4>. QED
        BY <2>0, <3>5, <4>1, <4>2
    <3>. QED
      BY <3>6, <3>7, <3>8, <3>9, <3>10 DEF LinkInv
  <2>. QED
    BY <2>1, <2>2
<1>2. CASE IAppThread
    BY <1>2, <1>f, NodeFrames
<1>3. ASSUME NEW n \in Nodes, AgentStep(n) PROVE LinkInv'
  <2>1. /\ AgLife(n) /\ UNCHANGED <<sad, rpc, rmsg>>
        /\ \A k \in Nodes \ {n} : ast'[k] = ast[k] /\ assoc'[k] = assoc[k]
    BY <1>3, AgLives, NodeFrames DEF NodeFrame
  <2>2. ASSUME NEW m \in ToRic, ricIn' = Append(ricIn, m),
               LinkMsg(m) => m.node = n /\ m.assoc > 0,
               m.type = "SHUTDOWN" =>
                 /\ AgentEnded(n)' /\ ast'[n] # "up"
                 /\ LatestIn(ricIn, sad[n], Len(ricIn) + 1, n, m.assoc),
               LinkMsg(m) /\ ast'[n] = "up" => assoc'[n] > 0 /\ m = SetupRequest(n, assoc'[n]),
               ~LinkMsg(m) => UNCHANGED <<ast, assoc>>
        PROVE  LinkInv'
    <3>1. /\ Len(ricIn) \in Nat /\ Len(ricIn') = Len(ricIn) + 1
          /\ DOMAIN ricIn = 1 .. Len(ricIn) /\ DOMAIN ricIn' = 1 .. Len(ricIn) + 1
          /\ \A i \in 1 .. Len(ricIn) : ricIn'[i] = ricIn[i]
          /\ ricIn'[Len(ricIn) + 1] = m
      BY <1>s, <2>2, AppendElements
    <3>2. Range(ricIn') = Range(ricIn) \cup {m}
      BY <1>s, <2>2, RangeQueue
    <3>3. (\A r \in Range(ricIn) : LinkMsg(r) => r.assoc > 0)'
      BY <2>2, <3>2 DEF LinkInv, LinkMsg
    <3>4. (\A r \in Range(ricIn) : r.type = "SHUTDOWN" => AgentEnded(r.node))'
      BY <1>e, <1>n, <1>r, <2>2, <3>2 DEF LinkInv, LinkMsg
    <3>5. (rpc \in {"erase_conn", "rm_node"} => AgentEnded(rmsg.node))'
      <4>. SUFFICES ASSUME rpc' \in {"erase_conn", "rm_node"} PROVE AgentEnded(rmsg.node)'
        OBVIOUS
      <4>1. rmsg.node \in Nodes /\ AgentEnded(rmsg.node) /\ rmsg' = rmsg
        BY <1>m, <2>1 DEF LinkInv
      <4>2. \A k : k = rmsg.node => AgentEnded(k)'
        BY <1>e, <4>1
      <4>. QED
        BY <4>1, <4>2 DEF AgentEnded
    <3>6. ASSUME NEW i \in DOMAIN ricIn', ricIn'[i].type = "SHUTDOWN"
          PROVE  LatestIn(ricIn', sad'[ricIn'[i].node], i, ricIn'[i].node, ricIn'[i].assoc)
      <4>1. CASE i \in 1 .. Len(ricIn)
        <5>1. ricIn'[i] = ricIn[i] /\ i \in DOMAIN ricIn /\ i \in 1 .. Len(ricIn) + 1
          BY <3>1, <4>1
        <5>2. LatestIn(ricIn, sad[ricIn[i].node], i, ricIn[i].node, ricIn[i].assoc)
          BY <3>6, <5>1 DEF LinkInv
        <5>. QED
          BY <1>s, <2>1, <2>2, <5>1, <5>2, LatestAppend
      <4>2. CASE i = Len(ricIn) + 1
        <5>1. ricIn'[i] = m /\ m.node = n /\ m.type = "SHUTDOWN"
          BY <2>2, <3>1, <3>6, <4>2 DEF LinkMsg
        <5>2. LatestIn(ricIn, sad[n], Len(ricIn) + 1, n, m.assoc) /\ i \in 1 .. Len(ricIn) + 1
          BY <2>2, <3>1, <4>2, <5>1
        <5>. QED
          BY <1>s, <2>1, <2>2, <4>2, <5>1, <5>2, LatestAppend
      <4>. QED
        BY <3>1, <4>1, <4>2
    <3>7. ASSUME NEW k \in Nodes, ast'[k] = "up"
          PROVE  assoc'[k] > 0 /\ LatestIn(ricIn', sad'[k], Len(ricIn') + 1, k, assoc'[k])
      <4>1. CASE LinkMsg(m) /\ k = n
        <5>1. assoc'[n] > 0 /\ m = SetupRequest(n, assoc'[n])
          BY <2>2, <3>7, <4>1
        <5>2. LatestIn(ricIn', sad[n], Len(ricIn) + 2, n, assoc'[n])
          BY <1>s, <2>2, <5>1, LatestAppend
        <5>3. Len(ricIn') + 1 = Len(ricIn) + 2
          BY <3>1
        <5>. QED
          BY <2>1, <4>1, <5>1, <5>2, <5>3
      <4>2. CASE ~(LinkMsg(m) /\ k = n)
        <5>1. ast[k] = "up" /\ assoc'[k] = assoc[k]
          BY <2>1, <2>2, <3>7, <4>2
        <5>2. assoc[k] > 0 /\ LatestIn(ricIn, sad[k], Len(ricIn) + 1, k, assoc[k])
          BY <5>1 DEF LinkInv
        <5>3. ~(LinkMsg(m) /\ m.node = k)
          BY <2>2, <4>2
        <5>4. LatestIn(ricIn', sad[k], Len(ricIn) + 2, k, assoc[k])
          BY <1>s, <2>2, <5>2, <5>3, LatestAppend
        <5>5. Len(ricIn') + 1 = Len(ricIn) + 2
          BY <3>1
        <5>. QED
          BY <2>1, <5>1, <5>2, <5>4, <5>5
      <4>. QED
        BY <4>1, <4>2
    <3>. QED
      BY <3>3, <3>4, <3>5, <3>6, <3>7 DEF LinkInv
  <2>3. CASE ast[n] # "up" /\ ast'[n] = "up" /\ assoc'[n] = assoc[n] + 1
             /\ ricIn' = Append(ricIn, SetupRequest(n, assoc[n] + 1))
    <3>1. SetupRequest(n, assoc[n] + 1) \in ToRic /\ assoc[n] + 1 > 0
          /\ SetupRequest(n, assoc[n] + 1).type = "SETUP_REQ"
          /\ SetupRequest(n, assoc[n] + 1).node = n
          /\ SetupRequest(n, assoc[n] + 1).assoc = assoc[n] + 1
      BY <1>s DEF ToRic, SetupRequest
    <3>. QED
      BY <2>2, <2>3, <3>1 DEF LinkMsg
  <2>4. CASE ast[n] = "up" /\ ast'[n] = "up" /\ assoc'[n] = assoc[n]
             /\ ricIn' = Append(ricIn, SetupRequest(n, assoc[n]))
    <3>1. SetupRequest(n, assoc[n]) \in ToRic /\ assoc[n] > 0
          /\ SetupRequest(n, assoc[n]).type = "SETUP_REQ"
          /\ SetupRequest(n, assoc[n]).node = n /\ SetupRequest(n, assoc[n]).assoc = assoc[n]
      BY <1>s, <2>4 DEF ToRic, SetupRequest, LinkInv
    <3>. QED
      BY <2>2, <2>4, <3>1 DEF LinkMsg
  <2>5. CASE ast[n] = "up" /\ ast'[n] # "up" /\ assoc'[n] = assoc[n] /\ ricIn' = ricIn
    BY <1>e, <1>m, <1>n, <1>r, <2>1, <2>5 DEF LinkInv
  <2>6. CASE ast[n] = "up" /\ ast'[n] # "up" /\ assoc'[n] = assoc[n]
             /\ ricIn' = Append(ricIn, ShutdownOf(n))
    <3>1. ShutdownOf(n) \in ToRic /\ assoc[n] > 0 /\ ShutdownOf(n).type = "SHUTDOWN"
          /\ ShutdownOf(n).node = n /\ ShutdownOf(n).assoc = assoc[n]
      BY <1>s, <2>6 DEF ToRic, ShutdownOf, LinkInv
    <3>2. AgentEnded(n)' /\ LatestIn(ricIn, sad[n], Len(ricIn) + 1, n, assoc[n])
      BY <1>s, <2>6, <3>1 DEF AgentEnded, LinkInv
    <3>. QED
      BY <2>2, <2>6, <3>1, <3>2 DEF LinkMsg
  <2>7. CASE UNCHANGED <<ast, assoc>> /\ ricIn' = ricIn
    BY <1>3, <1>f, <2>7, NodeFrames
  <2>8. CASE ast[n] = "up" /\ UNCHANGED <<ast, assoc>>
             /\ \E m \in ToRic : ~LinkMsg(m) /\ ricIn' = Append(ricIn, m)
    BY <2>2, <2>8 DEF LinkMsg
  <2>. QED
    BY <2>1, <2>3, <2>4, <2>5, <2>6, <2>7, <2>8 DEF AgLife
<1>4. ASSUME NEW x \in XApps, XAppStep(x) PROVE LinkInv'
    BY <1>4, <1>f, NodeFrames
<1>5. CASE UNCHANGED vars
    BY <1>5, <1>f DEF vars, NodeFrame, shared, ricVars, agVars
<1>. QED
    BY <1>1, <1>2, <1>3, <1>4, <1>5 DEF Next, AgentStep, XAppStep, XAppRequests

\* What FirstSetupInv says of one node.
FirstSetup(n) ==
    /\ OneSetup(ricIn, n)
    /\ assoc[n] = 0 \/ n \in reg \/ (rpc = "add_node" /\ rmsg.node = n) => NoSetup(ricIn, n)
    /\ rpc = "add_node" /\ rmsg.node = n => n \notin reg
    /\ assoc[n] = 0 => n \notin reg /\ ~(rpc = "add_node" /\ rmsg.node = n)

\* A node whose agent neither ended nor resent its setup has sent one setup.
LEMMA FirstSetupStep ==
    ASSUME TypeOK, LinkInv, FirstSetupInv, [Next]_vars
    PROVE  FirstSetupInv'
<1>. SUFFICES ASSUME NEW n \in Nodes, ~AgentEnded(n)', agResent'[n] = 0
              PROVE  FirstSetup(n)'
    BY DEF FirstSetupInv, FirstSetup
<1>s. /\ ricIn \in Seq(ToRic) /\ assoc[n] \in Nat /\ agResent[n] \in Nat
      /\ ast \in [Nodes -> {"off", "up", "aborted"}]
    BY DEF TypeOK, TypeSockets, TypeAgents
<1>0. ~AgentEnded(n) /\ agResent[n] = 0
    BY <1>s, EndedGrows
<1>i. FirstSetup(n)
    BY <1>0 DEF FirstSetupInv, FirstSetup
<1>k. ASSUME \/ ricIn' = ricIn
             \/ ricIn # <<>> /\ ricIn' = Tail(ricIn)
             \/ \E e \in ToRic : ~SetupOf(e, n) /\ ricIn' = Append(ricIn, e),
             assoc'[n] = assoc[n], n \in reg' => n \in reg,
             rpc' = "add_node" /\ rmsg'.node = n => rpc = "add_node" /\ rmsg.node = n
      PROVE  FirstSetup(n)'
  <2>1. /\ OneSetup(ricIn, n) => OneSetup(ricIn', n)
        /\ NoSetup(ricIn, n) => NoSetup(ricIn', n)
    BY <1>k, <1>s, SetupCount
  <2>. QED
    BY <1>i, <1>k, <2>1 DEF FirstSetup
<1>f. ASSUME NodeFrame, assoc'[n] = assoc[n],
             \/ ricIn' = ricIn
             \/ \E e \in ToRic : ~SetupOf(e, n) /\ ricIn' = Append(ricIn, e)
      PROVE  FirstSetup(n)'
    BY <1>f, <1>k DEF NodeFrame
<1>1. CASE RicThread \/ RicTimeout
  <2>0. /\ assoc'[n] = assoc[n]
        /\ ricIn' = ricIn \/ (ricIn # <<>> /\ ricIn' = Tail(ricIn))
    BY <1>1, RicNodeFrames
  <2>1. CASE RicSetupRequest
    <3>1. /\ ricIn # <<>> /\ ricIn' = Tail(ricIn) /\ rpc = "idle" /\ rpc' = "add_node"
          /\ rmsg' = Head(ricIn) /\ Head(ricIn).type = "SETUP_REQ" /\ reg' = reg
      BY <2>1 DEF RicSetupRequest, RicReceives
    <3>2. CASE Head(ricIn).node # n
      BY <1>k, <2>0, <3>1, <3>2
    <3>3. CASE Head(ricIn).node = n
      <4>1. SetupOf(Head(ricIn), n) /\ Head(ricIn) \in Range(ricIn)
        BY <1>s, <3>1, <3>3, RangeQueue DEF SetupOf
      <4>2. n \notin reg /\ assoc[n] # 0
        BY <1>i, <4>1 DEF FirstSetup, NoSetup
      <4>3. OneSetup(ricIn', n) /\ NoSetup(ricIn', n)
        BY <1>i, <1>s, <3>1, <4>1, SetupCount DEF FirstSetup
      <4>. QED
        BY <2>0, <3>1, <4>2, <4>3 DEF FirstSetup
    <3>. QED
      BY <3>2, <3>3
  <2>2. CASE RicAddNode
    <3>1. CASE Abort("E2 Node already exists")
      BY <1>f, <2>0, <3>1 DEF Abort, NodeFrame, shared, ricVars
    <3>2. CASE ~Abort("E2 Node already exists")
      <4>1. /\ rpc = "add_node" /\ rpc' = "accept_node" /\ reg' = reg \cup {rmsg.node}
            /\ UNCHANGED <<rmsg, ricIn>>
        BY <2>2, <3>2 DEF RicAddNode
      <4>. QED
        BY <1>i, <2>0, <4>1 DEF FirstSetup
    <3>. QED
      BY <3>1, <3>2
  <2>3. CASE \E why : Abort(why)
    BY <1>f, <2>0, <2>3 DEF Abort, NodeFrame, shared, ricVars
  <2>4. CASE RicTimeout
    BY <1>k, <2>0, <2>3, <2>4 DEF RicTimeout, vars, shared, ricVars
  <2>5. CASE RicThread /\ ~RicSetupRequest /\ ~RicAddNode /\ ~\E why : Abort(why)
    <3>1. (n \in reg' => n \in reg) /\ rpc' # "add_node"
      <4>1. CASE RicAcceptNode
        BY <4>1 DEF RicAcceptNode
      <4>2. CASE RicAnswer
        BY <2>5, <4>2 DEF RicAnswer
      <4>3. CASE RicIndication \/ RicLookup \/ RicNotify
        BY <2>5, <4>3 DEF RicIndication, RicLookup, RicNotify, shared
      <4>4. CASE RicShutdown \/ RicEraseConn \/ RicRmNode
        BY <2>5, <4>4 DEF RicShutdown, RicEraseConn, RicRmNode
      <4>. QED
        BY <2>5, <4>1, <4>2, <4>3, <4>4 DEF RicThread
    <3>. QED
      BY <1>k, <2>0, <3>1
  <2>. QED
    BY <1>1, <2>1, <2>2, <2>3, <2>4, <2>5
<1>2. CASE IAppThread
    BY <1>2, <1>f, NodeFrames
<1>3. ASSUME NEW k \in Nodes, AgentStep(k) PROVE FirstSetup(n)'
  <2>0. AgLife(k) /\ NodeFrame
    BY <1>3, AgLives, NodeFrames
  <2>1. CASE k # n
    <3>1. assoc'[n] = assoc[n]
      BY <1>3, <2>1, AgLives
    <3>2. /\ \A a \in Nat : SetupRequest(k, a) \in ToRic /\ ~SetupOf(SetupRequest(k, a), n)
          /\ ShutdownOf(k) \in ToRic /\ ~SetupOf(ShutdownOf(k), n)
          /\ \A m : ~LinkMsg(m) => ~SetupOf(m, n)
          /\ assoc[k] \in Nat /\ assoc[k] + 1 \in Nat
      BY <2>1 DEF ToRic, SetupRequest, ShutdownOf, SetupOf, LinkMsg, TypeOK, TypeAgents
    <3>3. ricIn' = ricIn \/ \E e \in ToRic : ~SetupOf(e, n) /\ ricIn' = Append(ricIn, e)
      BY <2>0, <3>2 DEF AgLife
    <3>. QED
      BY <1>f, <2>0, <3>1, <3>3
  <2>2. CASE k = n
    <3>1. CASE ast[n] # "up" /\ ast'[n] = "up" /\ assoc'[n] = assoc[n] + 1
               /\ ricIn' = Append(ricIn, SetupRequest(n, assoc[n] + 1))
      <4>1. assoc[n] = 0 /\ assoc'[n] # 0 /\ SetupRequest(n, assoc[n] + 1) \in ToRic
        BY <1>s, <3>1 DEF AgentEnded, SetupRequest, ToRic
      <4>2. NoSetup(ricIn, n) /\ n \notin reg /\ ~(rpc = "add_node" /\ rmsg.node = n)
        BY <1>i, <4>1 DEF FirstSetup
      <4>3. OneSetup(ricIn', n)
        BY <1>s, <3>1, <4>1, <4>2, SetupCount
      <4>. QED
        BY <2>0, <4>1, <4>2, <4>3 DEF FirstSetup, NodeFrame
    <3>2. CASE agResent'[n] = agResent[n] + 1
      BY <1>s, <3>2
    <3>3. CASE ast[n] = "up" /\ ast'[n] # "up" /\ assoc'[n] = assoc[n]
      BY <1>s, <3>3 DEF LinkInv, AgentEnded
    <3>4. CASE /\ UNCHANGED <<ast, assoc, agResent>>
               /\ ricIn' = ricIn \/ \E m \in ToRic : ~LinkMsg(m) /\ ricIn' = Append(ricIn, m)
      BY <1>f, <2>0, <3>4 DEF LinkMsg, SetupOf
    <3>. QED
      BY <2>0, <2>2, <3>1, <3>2, <3>3, <3>4 DEF AgLife
  <2>. QED
    BY <2>1, <2>2
<1>4. ASSUME NEW x \in XApps, XAppStep(x) PROVE FirstSetup(n)'
    BY <1>4, <1>f, NodeFrames
<1>5. CASE UNCHANGED vars
    BY <1>5, <1>f DEF vars, NodeFrame, shared, ricVars, agVars
<1>. QED
    BY <1>1, <1>2, <1>3, <1>4, <1>5 DEF Next, AgentStep, XAppStep, XAppRequests

\* A node that was met stays so: its registration goes only when its agent ended.
LEMMA MetGrows ==
    ASSUME TypeOK, LinkInv, [Next]_vars, NEW n \in Nodes, Met(n)
    PROVE  Met(n)'
<1>e. AgentEnded(n) => AgentEnded(n)'
    BY EndedGrows
<1>u. ASSUME reg' = reg PROVE Met(n)'
    BY <1>e, <1>u DEF Met
<1>a. ASSUME NEW why, Abort(why) PROVE Met(n)'
    BY <1>a, <1>u DEF Abort, shared
<1>1. CASE RicThread \/ RicTimeout
  <2>1. CASE RicAddNode
    BY <1>a, <1>e, <2>1 DEF RicAddNode, Met
  <2>2. CASE RicRmNode
    <3>1. AgentEnded(rmsg.node)
      BY <2>2 DEF RicRmNode, LinkInv
    <3>. QED
      BY <1>a, <1>e, <2>2, <3>1 DEF RicRmNode, Met
  <2>3. CASE RicSetupRequest \/ RicAcceptNode \/ RicAnswer
    BY <1>a, <1>u, <2>3 DEF RicSetupRequest, RicAcceptNode, RicAnswer
  <2>4. CASE RicIndication \/ RicLookup \/ RicNotify
    BY <1>a, <1>u, <2>4 DEF RicIndication, RicLookup, RicNotify, shared
  <2>5. CASE RicShutdown \/ RicEraseConn
    BY <1>a, <1>u, <2>5 DEF RicShutdown, RicEraseConn
  <2>6. CASE RicTimeout
    BY <1>a, <1>u, <2>6 DEF RicTimeout, vars, shared
  <2>. QED
    BY <1>1, <2>1, <2>2, <2>3, <2>4, <2>5, <2>6 DEF RicThread
<1>2. CASE IAppThread
    BY <1>2, <1>u, NodeFrames DEF NodeFrame
<1>3. ASSUME NEW k \in Nodes, AgentStep(k) PROVE Met(n)'
    BY <1>3, <1>u, NodeFrames DEF NodeFrame
<1>4. ASSUME NEW x \in XApps, XAppStep(x) PROVE Met(n)'
    BY <1>4, <1>u, NodeFrames DEF NodeFrame
<1>5. CASE UNCHANGED vars
    BY <1>5, <1>u DEF vars, shared
<1>. QED
    BY <1>1, <1>2, <1>3, <1>4, <1>5 DEF Next, AgentStep, XAppStep, XAppRequests

\* The RIC thread tells the xApps of no node.
LEMMA RicTellsNoNode ==
    ASSUME TypeOK, RicThread \/ RicTimeout
    PROVE  /\ UNCHANGED xnodes
           /\ \A x \in XApps : \A m \in Range(xIn'[x]) :
                m \in Range(xIn[x]) \/ m.type # "E42_SETUP_RESP"
<1>1. UNCHANGED xnodes
  <2>. USE DEF Abort, xVars
  <2>1. CASE RicSetupRequest \/ RicAddNode \/ RicAcceptNode
    BY <2>1 DEF RicSetupRequest, RicAddNode, RicAcceptNode
  <2>2. CASE RicAnswer \/ RicIndication \/ RicLookup \/ RicNotify
    BY <2>2 DEF RicAnswer, RicIndication, RicLookup, RicNotify
  <2>3. CASE RicShutdown \/ RicEraseConn \/ RicRmNode
    BY <2>3 DEF RicShutdown, RicEraseConn, RicRmNode
  <2>4. CASE RicTimeout
    BY <2>4 DEF RicTimeout, vars
  <2>. QED
    BY <2>1, <2>2, <2>3, <2>4 DEF RicThread
<1>2. CASE RicNotify
  <2>1. rmsg.type # "E42_SETUP_RESP"
    BY <1>2 DEF RicNotify, TypeOK, TypeRic, E2Answers
  <2>2. CASE Abort("xApp ID not found")
    BY <1>1, <2>2 DEF Abort, xVars
  <2>3. CASE ~Abort("xApp ID not found")
    <3>1. \E r \in xsad : /\ r.xid = rto.xid
            /\ \A y \in XApps : Range(xIn'[y]) \subseteq Range(xIn[y]) \cup
                 Only(y = r.x, [type |-> rmsg.type, h |-> rto.h, rf |-> rmsg.rf,
                                node |-> rmsg.node])
      BY <1>2, <2>3, NotifyMessage DEF RicNotify
    <3>. QED
      BY <1>1, <2>1, <3>1 DEF Only
  <2>. QED
    BY <2>2, <2>3
<1>. QED
    BY <1>1, <1>2, RicQueues

\* Nodes that were met are the only ones that requests name.
LEMMA MetStep ==
    ASSUME TypeOK, LinkInv, MetInv, [Next]_vars
    PROVE  MetInv'
<1>. DEFINE C1 == \A x \in XApps : \A n \in xnodes[x] : Met(n)
            C2 == \A x \in XApps : \A m \in Range(xIn[x]) :
                    m.type = "E42_SETUP_RESP" => \A n \in m.nodes : Met(n)
            C3 == \A x \in XApps : \A h \in DOMAIN issued[x] : Met(issued[x][h].node)
            C4 == \A m \in Range(iappIn) : m.type # "E42_SETUP_REQ" => Met(m.node)
            C5 == /\ ipc \in {"reg_xapp", "send_setup"} => \A n \in imsg.nodes : Met(n)
                  /\ ipc \in {"lock", "timer", "send", "add_map", "del_timer"} => Met(imsg.node)
            C6 == \A e \in mapRicId : Met(e.node)
<1>i. C1 /\ C2 /\ C3 /\ C4 /\ C5 /\ C6
    BY DEF MetInv
<1>t1. /\ \A x \in XApps : xnodes[x] \subseteq Nodes
       /\ \A x \in XApps : \A m \in Range(xIn[x]) : m.type = "E42_SETUP_RESP" => m.nodes \subseteq Nodes
  <2>1. \A x \in XApps : xIn[x] \in Seq(ToXApp) /\ xnodes[x] \subseteq Nodes
    BY DEF TypeOK, TypeXApps
  <2>2. \A x \in XApps : \A m \in Range(xIn[x]) : m \in ToXApp
    BY <2>1 DEF Range
  <2>3. \A m \in ToXApp : m.type = "E42_SETUP_RESP" => m.nodes \subseteq Nodes
    BY DEF ToXApp, E2Answers
  <2>. QED
    BY <2>1, <2>2, <2>3
<1>t2. \A x \in XApps : \A h \in DOMAIN issued[x] : issued[x][h].node \in Nodes
                         /\ issued[x][h].rf \in RanFuncs
  <2>1. \A x \in XApps : issued[x] \in Seq(Requests)
    BY DEF TypeOK, TypeXApps
  <2>2. \A x \in XApps : \A h \in DOMAIN issued[x] : issued[x][h] \in Requests
    BY <2>1
  <2>. QED
    BY <2>2 DEF Requests
<1>t3. /\ \A m \in Range(iappIn) : m.type # "E42_SETUP_REQ" => m.node \in Nodes
       /\ \A e \in mapRicId : e.node \in Nodes
       /\ reg \subseteq Nodes
    BY DEF TypeOK, TypeSockets, TypeShared, Range, ToIApp, MapEntries
<1>t4. /\ ipc \in {"reg_xapp", "send_setup"} => imsg.nodes \subseteq Nodes
       /\ ipc \in {"lock", "timer", "send", "add_map", "del_timer"} => imsg.node \in Nodes
    BY DEF TypeOK, TypeIApp, ToIApp, SetupReplies
<1>g. \A n \in Nodes : Met(n) => Met(n)'
    BY MetGrows
<1>c1. ASSUME xnodes' = xnodes PROVE C1'
    BY <1>c1, <1>g, <1>i, <1>t1
<1>c2. ASSUME \A y \in XApps : \A m \in Range(xIn'[y]) :
                m \in Range(xIn[y]) \/ m.type # "E42_SETUP_RESP"
       PROVE  C2'
    BY <1>c2, <1>g, <1>i, <1>t1
<1>c3. ASSUME issued' = issued PROVE C3'
    BY <1>c3, <1>g, <1>i, <1>t2
<1>c4. ASSUME \A m \in Range(iappIn') : m \in Range(iappIn) \/ m.type = "E42_SETUP_REQ"
       PROVE  C4'
    BY <1>c4, <1>g, <1>i, <1>t3
<1>c5. ASSUME \/ ipc' = "idle"
              \/ /\ ipc \in {"reg_xapp", "send_setup"} <=> ipc' \in {"reg_xapp", "send_setup"}
                 /\ ipc # "idle" /\ imsg' = imsg
       PROVE  C5'
  <2>1. CASE ipc' = "idle"
    BY <2>1
  <2>2. CASE ipc' # "idle"
    <3>1. ipc \in {"reg_xapp", "send_setup", "lock", "timer", "send", "add_map", "del_timer"}
      BY <1>c5, <2>2 DEF TypeOK, TypeIApp
    <3>2. CASE ipc \in {"reg_xapp", "send_setup"}
      BY <1>c5, <1>g, <1>i, <1>t4, <2>2, <3>2
    <3>3. CASE ipc \notin {"reg_xapp", "send_setup"}
      BY <1>c5, <1>g, <1>i, <1>t4, <2>2, <3>1, <3>3
    <3>. QED
      BY <3>2, <3>3
  <2>. QED
    BY <2>1, <2>2
<1>c5u. ASSUME UNCHANGED iappVars PROVE C5'
    BY <1>c5u, <1>g, <1>i, <1>t4 DEF iappVars
<1>c6. ASSUME mapRicId' = mapRicId PROVE C6'
    BY <1>c6, <1>g, <1>i, <1>t3
<1>. HIDE DEF C1, C2, C3, C4, C5, C6
<1>q. ASSUME C1', C2', C3', C4', C5', C6' PROVE MetInv'
    BY <1>q DEF C1, C2, C3, C4, C5, C6, MetInv
<1>u. ASSUME UNCHANGED <<xnodes, xIn, issued, iappIn, iappVars, mapRicId>> PROVE MetInv'
    BY <1>u, <1>c1, <1>c2, <1>c3, <1>c4, <1>c5u, <1>c6, <1>q
<1>a. ASSUME NEW why, Abort(why) PROVE MetInv'
    BY <1>a, <1>u DEF Abort, shared, iappSock, xVars
<1>1. CASE RicThread \/ RicTimeout
    BY <1>1, <1>c1, <1>c2, <1>c3, <1>c4, <1>c5u, <1>c6, <1>q, RicFrames, RicTellsNoNode
    DEF RicFrame, iappSock
<1>2. CASE IAppThread
  <2>c. ASSUME NEW S, IAppReceives(S), IAppConsume
        PROVE  C4' /\ Head(iappIn) \in Range(iappIn)
    BY <1>c4, <2>c, ReceiveRange DEF IAppReceives
  <2>1. CASE IAppSetupRequest
    <3>1. UNCHANGED <<xnodes, xIn, issued, mapRicId>>
      BY <2>1 DEF IAppSetupRequest, xVars
    <3>2. C5'
      <4>1. imsg'.nodes = reg /\ ipc' = "reg_xapp" /\ \A n \in reg : Met(n)
        BY <2>1 DEF IAppSetupRequest, Met
      <4>. QED
        BY <1>g, <1>t3, <4>1 DEF C5
    <3>. QED
      BY <1>c1, <1>c2, <1>c3, <1>c6, <1>q, <2>1, <2>c, <3>1, <3>2 DEF IAppSetupRequest
  <2>2. CASE IAppRegXApp \/ IAppLock \/ IAppStartTimer \/ IAppDeleteTimer
    <3>1. CASE \E why : Abort(why)
      BY <1>a, <3>1
    <3>2. CASE ~\E why : Abort(why)
      <4>1. UNCHANGED <<xnodes, xIn, issued, iappIn, mapRicId>>
        BY <2>2, <3>2 DEF IAppRegXApp, IAppLock, IAppStartTimer, IAppDeleteTimer, iappSock, xVars
      <4>2. C5'
        BY <1>c5, <2>2, <3>2 DEF IAppRegXApp, IAppLock, IAppStartTimer, IAppDeleteTimer
      <4>. QED
        BY <1>c1, <1>c2, <1>c3, <1>c4, <1>c6, <1>q, <4>1, <4>2
    <3>. QED
      BY <3>1, <3>2
  <2>3. CASE IAppSetupResponse
    <3>. DEFINE m == [type |-> "E42_SETUP_RESP", xid |-> imsg.xid, nodes |-> imsg.nodes]
    <3>1. imsg.x \in XApps /\ m \in ToXApp /\ ipc = "send_setup" /\ imsg.nodes \subseteq Nodes
      BY <2>3 DEF IAppSetupResponse, TypeOK, TypeIApp, SetupReplies, ToXApp
    <3>2. \A y \in XApps : Range(xIn'[y]) \subseteq Range(xIn[y]) \cup {m}
      BY <2>3, <3>1, SendRange DEF IAppSetupResponse, Only
    <3>3. \A n \in m.nodes : Met(n)'
      BY <1>g, <1>i, <3>1 DEF C5
    <3>4. C2'
      BY <1>g, <1>i, <1>t1, <3>2, <3>3 DEF C2
    <3>5. UNCHANGED <<xnodes, issued, iappIn, mapRicId>> /\ ipc' = "idle"
      BY <2>3 DEF IAppSetupResponse, shared, iappSock
    <3>. QED
      BY <1>c1, <1>c3, <1>c4, <1>c5, <1>c6, <1>q, <3>4, <3>5
  <2>4. CASE IAppRequest
    <3>1. CASE \E why : Abort(why)
      BY <1>a, <3>1
    <3>2. CASE ~\E why : Abort(why)
      <4>1. /\ UNCHANGED <<xnodes, xIn, issued, mapRicId>> /\ IAppConsume
            /\ IAppReceives({"SUB_REQ", "CTRL_REQ"}) /\ imsg' = Head(iappIn) /\ ipc' = "lock"
        BY <2>4, <3>2 DEF IAppRequest, shared, xVars
      <4>2. C4' /\ Head(iappIn) \in Range(iappIn) /\ Head(iappIn).type # "E42_SETUP_REQ"
        BY <2>c, <4>1 DEF IAppReceives
      <4>3. Met(Head(iappIn).node) /\ Head(iappIn).node \in Nodes
        BY <1>i, <1>t3, <4>2 DEF C4
      <4>4. C5'
        BY <1>g, <4>1, <4>3 DEF C5
      <4>. QED
        BY <1>c1, <1>c2, <1>c3, <1>c6, <1>q, <4>1, <4>2, <4>4
    <3>. QED
      BY <3>1, <3>2
  <2>5. CASE IAppForward
    <3>1. CASE \E why : Abort(why)
      BY <1>a, <3>1
    <3>2. CASE ~\E why : Abort(why)
      <4>1. UNCHANGED <<xnodes, xIn, issued, iappIn, mapRicId>>
        BY <2>5, <3>2 DEF IAppForward, shared, iappSock, xVars
      <4>2. C5'
        BY <1>c5, <2>5, <3>2 DEF IAppForward
      <4>. QED
        BY <1>c1, <1>c2, <1>c3, <1>c4, <1>c6, <1>q, <4>1, <4>2
    <3>. QED
      BY <3>1, <3>2
  <2>6. CASE IAppAddMap
    <3>1. CASE \E why : Abort(why)
      BY <1>a, <3>1
    <3>2. CASE ~\E why : Abort(why)
      <4>1. /\ UNCHANGED <<xnodes, xIn, issued, iappIn>> /\ ipc = "add_map" /\ ipc' = "idle"
            /\ mapRicId' = mapRicId \cup
                 {[rid |-> irid, node |-> imsg.node, xid |-> imsg.xid, h |-> imsg.h,
                   rf |-> imsg.rf]}
        BY <2>6, <3>2 DEF IAppAddMap, iappSock, xVars
      <4>3. Met(imsg.node) /\ imsg.node \in Nodes
        BY <1>i, <1>t4, <4>1 DEF C5
      <4>4. C6'
        BY <1>g, <1>i, <1>t3, <4>1, <4>3 DEF C6
      <4>. QED
        BY <1>c1, <1>c2, <1>c3, <1>c4, <1>c5, <1>q, <4>1, <4>4
    <3>. QED
      BY <3>1, <3>2
  <2>7. CASE IAppDelete
    <3>1. CASE \E why : Abort(why)
      BY <1>a, <3>1
    <3>2. CASE ~\E why : Abort(why)
      <4>1. PICK e \in mapRicId :
              /\ UNCHANGED <<xnodes, xIn, issued, mapRicId>> /\ IAppConsume
              /\ IAppReceives({"DEL_REQ"}) /\ imsg' = [Head(iappIn) EXCEPT !.node = e.node]
              /\ ipc' = "del_timer"
        BY <2>7, <3>2 DEF IAppDelete, shared, xVars
      <4>2. imsg'.node = e.node
        <5>1. Head(iappIn) \in ToIApp /\ Head(iappIn).type = "DEL_REQ"
          BY <4>1, QueueTypes DEF IAppReceives, TypeOK, TypeSockets
        <5>. QED
          BY <4>1, <5>1 DEF ToIApp
      <4>3. C5'
        BY <1>g, <1>i, <1>t3, <4>1, <4>2 DEF C5, C6
      <4>. QED
        BY <1>c1, <1>c2, <1>c3, <1>c6, <1>q, <2>c, <4>1, <4>3
    <3>. QED
      BY <3>1, <3>2
  <2>. QED
    BY <1>2, <2>1, <2>2, <2>3, <2>4, <2>5, <2>6, <2>7 DEF IAppThread
<1>3. ASSUME NEW k \in Nodes, AgentStep(k) PROVE MetInv'
    BY <1>3, <1>u, AgFrames DEF AgFrame, shared, iappSock, xVars
<1>4. ASSUME NEW x \in XApps, XAppStep(x) PROVE MetInv'
  <2>0. UNCHANGED <<mapRicId, iappVars>>
    BY <1>4, XFrames DEF XFrame, shared
  <2>1. CASE XAppStart(x) \/ XAppResendSetup(x)
    <3>1. SendToIApp([type |-> "E42_SETUP_REQ", x |-> x]) /\ UNCHANGED <<xnodes, xIn, issued>>
          /\ [type |-> "E42_SETUP_REQ", x |-> x] \in ToIApp
      BY <2>1 DEF XAppStart, XAppResendSetup, ToIApp
    <3>2. C4'
      BY <1>c4, <3>1, SendRange
    <3>. QED
      BY <1>c1, <1>c2, <1>c3, <1>c5u, <1>c6, <1>q, <2>0, <3>1, <3>2
  <2>a. CASE XAppAbort(x)
    <3>1. UNCHANGED <<xnodes, issued, iappIn>> /\ xIn' = [xIn EXCEPT ![x] = <<>>]
      BY <2>a DEF XAppAbort, iappSock
    <3>2. \A y \in XApps : xIn'[y] = xIn[y] \/ xIn'[y] = <<>>
      BY <3>1 DEF TypeOK, TypeXApps
    <3>3. C2'
      BY <1>c2, <3>2 DEF Range
    <3>. QED
      BY <1>c1, <1>c3, <1>c4, <1>c5u, <1>c6, <1>q, <2>0, <3>1, <3>3
  <2>b. ASSUME xIn[x] # <<>>, XConsume(x) PROVE C2'
    BY <1>c2, <2>b, ReceiveRange
  <2>2. CASE XAppSetupResponse(x) /\ ~XAppAbort(x)
    <3>1. /\ xIn[x] # <<>> /\ XConsume(x) /\ Head(xIn[x]).type = "E42_SETUP_RESP"
          /\ xnodes' = [xnodes EXCEPT ![x] = Head(xIn[x]).nodes] /\ UNCHANGED <<issued, iappIn>>
      BY <2>2 DEF XAppSetupResponse, XReceives, iappSock
    <3>2. Head(xIn[x]) \in Range(xIn[x])
      BY <3>1, ReceiveRange
    <3>3. \A n \in Head(xIn[x]).nodes : Met(n)'
      BY <1>g, <1>i, <1>t1, <3>1, <3>2 DEF C2
    <3>4. C1'
      BY <1>g, <1>i, <1>t1, <3>1, <3>3 DEF C1, TypeOK, TypeXApps
    <3>. QED
      BY <1>c3, <1>c4, <1>c5u, <1>c6, <1>q, <2>0, <2>b, <3>1, <3>4
  <2>3. CASE (XAppAnswer(x) /\ ~XAppAbort(x)) \/ XAppIndication(x)
    <3>1. xIn[x] # <<>> /\ XConsume(x) /\ UNCHANGED <<xnodes, issued, iappIn>>
      BY <2>3 DEF XAppAnswer, XAppIndication, XReceives, iappSock
    <3>. QED
      BY <1>c1, <1>c3, <1>c4, <1>c5u, <1>c6, <1>q, <2>0, <2>b, <3>1
  <2>4. CASE XAppUnsubscribe(x)
    <3>1. PICK h \in active[x] :
            SendToIApp([type |-> "DEL_REQ", xid |-> xid[x], h |-> h,
                        node |-> issued[x][h].node, rf |-> issued[x][h].rf])
      BY <2>4 DEF XAppUnsubscribe
    <3>. DEFINE m == [type |-> "DEL_REQ", xid |-> xid[x], h |-> h,
                      node |-> issued[x][h].node, rf |-> issued[x][h].rf]
    <3>2. h \in DOMAIN issued[x] /\ m \in ToIApp
      <4>1. h \in DOMAIN issued[x] /\ h \in Nat /\ xid[x] \in Nat
        BY DEF TypeOK, TypeXApps
      <4>. QED
        BY <1>t2, <4>1 DEF ToIApp
    <3>3. Range(iappIn') = Range(iappIn) \cup {m}
      BY <3>1, <3>2, SendRange
    <3>4. Met(issued[x][h].node) /\ issued[x][h].node \in Nodes
      BY <1>i, <1>t2, <3>2 DEF C3
    <3>5. C4'
      BY <1>g, <1>i, <1>t3, <3>3, <3>4 DEF C4
    <3>6. UNCHANGED <<xnodes, xIn, issued>>
      BY <2>4 DEF XAppUnsubscribe
    <3>. QED
      BY <1>c1, <1>c2, <1>c3, <1>c5u, <1>c6, <1>q, <2>0, <3>5, <3>6
  <2>5. CASE XAppRequests(x)
    <3>1. PICK k \in {"SUB_REQ", "CTRL_REQ"}, n \in Nodes, f \in RanFuncs : XAppRequest(x, k, n, f)
      BY <2>5 DEF XAppRequests
    <3>. DEFINE h == Len(issued[x]) + 1
                m == [type |-> k, xid |-> xid[x], h |-> h, node |-> n, rf |-> f]
                r == [kind |-> k, node |-> n, rf |-> f]
    <3>2. /\ issued' = [issued EXCEPT ![x] = Append(@, r)] /\ SendToIApp(m) /\ n \in xnodes[x]
          /\ UNCHANGED <<xnodes, xIn>>
      BY <3>1 DEF XAppRequest
    <3>3. issued[x] \in Seq(Requests) /\ r \in Requests /\ m \in ToIApp
          /\ issued \in [XApps -> Seq(Requests)]
      <4>1. Len(issued[x]) + 1 \in Nat
        BY DEF TypeOK, TypeXApps
      <4>. QED
        BY <4>1 DEF TypeOK, TypeXApps, Requests, ToIApp
    <3>4. Met(n)'
      BY <1>g, <1>i, <3>2 DEF C1
    <3>5. C4'
      <4>1. Range(iappIn') = Range(iappIn) \cup {m} /\ m.node = n
        BY <3>2, <3>3, SendRange
      <4>. QED
        BY <1>g, <1>i, <1>t3, <3>4, <4>1 DEF C4
    <3>6. C3'
      <4>1. \A h2 \in DOMAIN Append(issued[x], r) :
              \/ h2 \in DOMAIN issued[x] /\ Append(issued[x], r)[h2] = issued[x][h2]
              \/ Append(issued[x], r)[h2] = r
        BY <3>3, AppendElements
      <4>2. \A y \in XApps : \A h2 \in DOMAIN issued'[y] :
              \/ h2 \in DOMAIN issued[y] /\ issued'[y][h2] = issued[y][h2]
              \/ issued'[y][h2].node = n
        BY <3>2, <3>3, <4>1
      <4>. QED
        BY <1>g, <1>i, <1>t2, <3>4, <4>2 DEF C3
    <3>. QED
      BY <1>c1, <1>c2, <1>c5u, <1>c6, <1>q, <2>0, <3>2, <3>5, <3>6
  <2>. QED
    BY <1>4, <2>1, <2>a, <2>2, <2>3, <2>4, <2>5
    DEF XAppStep, XAppLoop, XAppTimeout, XAppSetupResponse, XAppAnswer
<1>5. CASE UNCHANGED vars
    BY <1>5, <1>u DEF vars, shared, iappSock, xVars
<1>. QED
    BY <1>1, <1>2, <1>3, <1>4, <1>5 DEF Next, AgentStep, XAppStep, XAppRequests

\* Only fwd_ric_*_request draws a request id.
LEMMA CounterGrows ==
    ASSUME TypeOK, [Next]_vars
    PROVE  /\ reqId' \in Nat /\ reqId' >= reqId
           /\ reqId' = reqId \/ IAppStartTimer
<1>t. reqId \in Nat
    BY DEF TypeOK, TypeShared
<1>1. reqId' = reqId \/ (IAppStartTimer /\ reqId' = reqId + 1)
  <2>. USE DEF Abort, shared
  <2>1. CASE RicSetupRequest \/ RicAddNode \/ RicAcceptNode \/ RicAnswer \/ RicIndication
    BY <2>1 DEF RicSetupRequest, RicAddNode, RicAcceptNode, RicAnswer, RicIndication
  <2>2. CASE RicLookup \/ RicNotify \/ RicShutdown \/ RicEraseConn \/ RicRmNode \/ RicTimeout
    BY <2>2 DEF RicLookup, RicNotify, RicShutdown, RicEraseConn, RicRmNode, RicTimeout, vars
  <2>3. CASE IAppThread
    <3>1. CASE IAppSetupRequest \/ IAppRegXApp \/ IAppSetupResponse \/ IAppRequest \/ IAppLock
      BY <3>1 DEF IAppSetupRequest, IAppRegXApp, IAppSetupResponse, IAppRequest, IAppLock
    <3>2. CASE IAppForward \/ IAppAddMap \/ IAppDelete \/ IAppDeleteTimer
      BY <3>2 DEF IAppForward, IAppAddMap, IAppDelete, IAppDeleteTimer
    <3>3. CASE IAppStartTimer
      BY <3>3 DEF IAppStartTimer
    <3>. QED
      BY <2>3, <3>1, <3>2, <3>3 DEF IAppThread
  <2>4. ASSUME NEW n \in Nodes, AgentStep(n) PROVE reqId' = reqId
    BY <2>4, AgFrames DEF AgFrame
  <2>5. ASSUME NEW x \in XApps, XAppStep(x) PROVE reqId' = reqId
    BY <2>5, XFrames DEF XFrame
  <2>6. CASE UNCHANGED vars
    BY <2>6 DEF vars
  <2>. QED
    BY <2>1, <2>2, <2>3, <2>4, <2>5, <2>6
    DEF Next, RicThread, AgentStep, XAppStep, XAppRequests
<1>. QED
    BY <1>t, <1>1

\* A request id is not reused before the counter wraps.
LEMMA FreshIdStep ==
    ASSUME TypeOK, FreshIdInv, [Next]_vars
    PROVE  FreshIdInv'
<1>t. reqId \in Nat /\ UINT16 \in Nat \ {0} /\ \A e \in mapRicId : e.rid \in Nat
    BY ConstAssumption DEF ConstAssumption, TypeOK, TypeShared, MapEntries, ReqIds
<1>k. ASSUME reqId' = reqId, mapRicId' = mapRicId, InFlight' \subseteq InFlight PROVE FreshIdInv'
    BY <1>k DEF FreshIdInv
<1>u. ASSUME UNCHANGED <<reqId, mapRicId, iappVars>> PROVE FreshIdInv'
    BY <1>k, <1>u DEF InFlight, iappVars
<1>a. ASSUME NEW why, Abort(why) PROVE FreshIdInv'
    BY <1>a, <1>u DEF Abort, shared
<1>1. CASE RicThread \/ RicTimeout
  <2>1. ~IAppStartTimer
    BY <1>1, RicFrames DEF RicFrame, iappVars, IAppStartTimer
  <2>. QED
    BY <1>1, <1>u, <2>1, CounterGrows, RicFrames DEF RicFrame
<1>2. CASE IAppThread
  <2>1. CASE IAppSetupRequest \/ IAppRegXApp \/ IAppSetupResponse
    <3>1. CASE \E why : Abort(why)
      BY <1>a, <3>1
    <3>2. CASE ~\E why : Abort(why)
      BY <1>k, <2>1, <3>2
      DEF IAppSetupRequest, IAppRegXApp, IAppSetupResponse, InFlight, shared
    <3>. QED
      BY <3>1, <3>2
  <2>2. CASE IAppRequest \/ IAppLock \/ IAppDelete
    <3>1. CASE \E why : Abort(why)
      BY <1>a, <3>1
    <3>2. CASE ~\E why : Abort(why)
      BY <1>k, <2>2, <3>2 DEF IAppRequest, IAppLock, IAppDelete, InFlight, shared
    <3>. QED
      BY <3>1, <3>2
  <2>3. CASE IAppDeleteTimer
    <3>1. imsg.type = "DEL_REQ" /\ imsg' = imsg
      BY <2>3 DEF IAppDeleteTimer, TypeOK, TypeIApp
    <3>. QED
      BY <1>k, <2>3, <3>1 DEF IAppDeleteTimer, InFlight
  <2>4. CASE IAppForward
    <3>1. CASE \E why : Abort(why)
      BY <1>a, <3>1
    <3>2. CASE ~\E why : Abort(why)
      BY <1>k, <2>4, <3>2 DEF IAppForward, InFlight, shared
    <3>. QED
      BY <3>1, <3>2
  <2>5. CASE IAppStartTimer
    <3>1. irid' = reqId % UINT16 /\ reqId' = reqId + 1 /\ mapRicId' = mapRicId
      BY <2>5 DEF IAppStartTimer
    <3>2. \A e \in InFlight' : e.rid = irid'
      BY DEF InFlight
    <3>3. reqId' > 0
      BY <1>t, <3>1
    <3>4. ASSUME reqId' <= UINT16
          PROVE  reqId <= UINT16 /\ reqId > 0 /\ irid' = reqId
      <4>1. reqId < UINT16 /\ reqId > 0
        BY <1>t, <3>1, <3>4 DEF FreshIdInv
      <4>2. reqId % UINT16 = reqId
        BY <1>t, <4>1
      <4>. QED
        BY <1>t, <3>1, <4>1, <4>2
    <3>5. ASSUME reqId' <= UINT16, NEW e \in mapRicId' PROVE e.rid > 0 /\ e.rid < reqId'
      <4>1. e.rid \in Nat /\ e.rid > 0 /\ e.rid < reqId
        BY <1>t, <3>1, <3>4, <3>5 DEF FreshIdInv
      <4>. QED
        BY <1>t, <3>1, <4>1
    <3>6. ASSUME reqId' <= UINT16, NEW e \in InFlight'
          PROVE  e.rid > 0 /\ e.rid < reqId' /\ \A d \in mapRicId' : d.rid < e.rid
      <4>1. e.rid = reqId /\ reqId > 0
        BY <3>2, <3>4, <3>6
      <4>2. \A d \in mapRicId' : d.rid < reqId
        BY <3>1, <3>4, <3>6 DEF FreshIdInv
      <4>3. reqId < reqId'
        BY <1>t, <3>1
      <4>. QED
        BY <4>1, <4>2, <4>3
    <3>. QED
      BY <3>3, <3>5, <3>6 DEF FreshIdInv
  <2>6. CASE IAppAddMap
    <3>1. CASE \E why : Abort(why)
      BY <1>a, <3>1
    <3>2. CASE ~\E why : Abort(why)
      <4>1. imsg.type \in {"SUB_REQ", "CTRL_REQ"} /\ ipc = "add_map"
        BY <2>6 DEF IAppAddMap, TypeOK, TypeIApp
      <4>2. mapRicId' = mapRicId \cup InFlight /\ InFlight' = {} /\ reqId' = reqId
        BY <2>6, <3>2, <4>1 DEF IAppAddMap, InFlight
      <4>. QED
        BY <4>2 DEF FreshIdInv
    <3>. QED
      BY <3>1, <3>2
  <2>. QED
    BY <1>2, <2>1, <2>2, <2>3, <2>4, <2>5, <2>6 DEF IAppThread
<1>3. ASSUME NEW k \in Nodes, AgentStep(k) PROVE FreshIdInv'
    BY <1>3, <1>u, AgFrames DEF AgFrame, shared
<1>4. ASSUME NEW x \in XApps, XAppStep(x) PROVE FreshIdInv'
    BY <1>4, <1>u, XFrames DEF XFrame, shared
<1>5. CASE UNCHANGED vars
    BY <1>5, <1>u DEF vars, shared
<1>. QED
    BY <1>1, <1>2, <1>3, <1>4, <1>5 DEF Next, AgentStep, XAppStep, XAppRequests

\* No node is known and no message is under way.
LEMMA NodeInit == Init => NodeInv
<1>. SUFFICES ASSUME Init PROVE NodeInv
    OBVIOUS
<1>r. Range(<<>>) = {} /\ DOMAIN <<>> = {}
    BY DEF Range
<1>1. ViewsInv
    BY DEF Init, ViewsInv
<1>2. LinkInv
    BY <1>r DEF Init, LinkInv
<1>3. FirstSetupInv
    BY <1>r DEF Init, FirstSetupInv, OneSetup, NoSetup
<1>4. MetInv
    BY <1>r DEF Init, MetInv
<1>5. FreshIdInv
    BY ConstAssumption DEF ConstAssumption, Init, FreshIdInv, InFlight
<1>. QED
    BY <1>1, <1>2, <1>3, <1>4, <1>5 DEF NodeInv

\* The record of the associations, the registry and the queue of setups and
\* shutdowns fit together in every state.
THEOREM NodeInvariant == Spec => []NodeInv
<1>1. TypeOK /\ NodeInv /\ [Next]_vars => NodeInv'
    BY ViewsStep, LinkStep, FirstSetupStep, MetStep, FreshIdStep DEF NodeInv
<1>. QED
    BY <1>1, NodeInit, TypeCorrect, PTL DEF Spec

\* Whenever the RIC thread is between two events, the node addresses,
\* conn_e2_nodes and the iApp's reg_e2_nodes name the same nodes, however the
\* agents come, go and resend their setups.
THEOREM NodeViewsCorrect == Spec => []NodeViewsAgree
<1>1. NodeInv => NodeViewsAgree
    BY DEF NodeInv, ViewsInv, NodeViewsAgree
<1>. QED
    BY <1>1, NodeInvariant, PTL

-----------------------------------------------------------------------------
(* Which asserts can fail *)

\* An assert on a node fails only for a node whose agent ended or resent its
\* setup, one on a request id only after the counter wrapped.
LEMMA NodeAbortsStep ==
    ASSUME TypeOK, RoutingInv, NodeInv, NodeAborts, [Next]_vars
    PROVE  NodeAborts'
<1>. DEFINE Whys == {"E2 Node not found", "valid_global_e2_node", "E2 Node already exists",
                     "ric_req_id > 0", "ric_req_id already in the map",
                     "conn E2 Node not found", "Not registered E2 Node"}
<1>t. reqId \in Nat /\ UINT16 \in Nat /\ reqId' \in Nat /\ reqId' >= reqId
    BY CounterGrows, ConstAssumption DEF ConstAssumption, TypeOK, TypeShared
<1>e. \A n \in Nodes : /\ AgentEnded(n) => AgentEnded(n)'
                       /\ agResent[n] > 0 => agResent'[n] > 0
    BY EndedGrows
<1>w. reqId > UINT16 => reqId' > UINT16
    BY <1>t
<1>u. ASSUME ricAbort' = ricAbort PROVE NodeAborts'
    BY <1>e, <1>u, <1>w DEF NodeAborts
<1>a. ASSUME NEW why, Abort(why), why \notin Whys PROVE NodeAborts'
    BY <1>a DEF Abort, NodeAborts
<1>n. ASSUME NEW why, Abort(why), why \in {"E2 Node not found", "valid_global_e2_node"},
             NEW n \in Nodes, AgentEnded(n)
      PROVE  NodeAborts'
    BY <1>e, <1>n DEF Abort, NodeAborts
<1>1. CASE RicThread \/ RicTimeout
  <2>1. CASE RicAddNode
    <3>1. CASE rmsg.node \in reg
      <4>1. rmsg.node \in Nodes /\ rpc = "add_node"
        BY <2>1 DEF RicAddNode, TypeOK, TypeRic, ToRic
      <4>2. AgentEnded(rmsg.node) \/ agResent[rmsg.node] # 0
        BY <3>1, <4>1 DEF NodeInv, FirstSetupInv
      <4>3. AgentEnded(rmsg.node) \/ agResent[rmsg.node] > 0
        BY <4>1, <4>2 DEF TypeOK, TypeAgents
      <4>4. \E n \in Nodes : AgentEnded(n)' \/ agResent'[n] > 0
        BY <1>e, <4>1, <4>3
      <4>5. ricAbort' = "E2 Node already exists"
        BY <2>1, <3>1 DEF RicAddNode, Abort
      <4>. QED
        BY <4>4, <4>5 DEF NodeAborts
    <3>2. CASE rmsg.node \notin reg
      BY <1>u, <2>1, <3>2 DEF RicAddNode
    <3>. QED
      BY <3>1, <3>2
  <2>2. CASE RicLookup
    <3>1. CASE rmsg.rid = 0
      <4>1. Traced(rmsg.node, 0, rmsg.rf, KindOf(rmsg.type))
        BY <2>2, <3>1 DEF RicLookup, RoutingInv, TracedInv
      <4>2. \E e \in mapRicId \cup InFlight : e.rid = 0
        BY <4>1 DEF Traced, TracedIn
      <4>3. ~(reqId <= UINT16)
        BY <4>2 DEF NodeInv, FreshIdInv
      <4>4. reqId' > UINT16
        BY <1>t, <4>3
      <4>5. ricAbort' = "ric_req_id > 0"
        BY <2>2, <3>1 DEF RicLookup, Abort
      <4>. QED
        BY <4>4, <4>5 DEF NodeAborts
    <3>2. CASE rmsg.rid # 0
      BY <1>a, <1>u, <2>2, <3>2 DEF RicLookup
    <3>. QED
      BY <3>1, <3>2
  <2>3. CASE RicEraseConn
    BY <1>u, <2>3 DEF RicEraseConn, NodeInv, ViewsInv
  <2>4. CASE RicRmNode
    BY <1>u, <2>4 DEF RicRmNode, NodeInv, ViewsInv
  <2>5. CASE RicSetupRequest \/ RicAcceptNode \/ RicIndication
    BY <1>u, <2>5 DEF RicSetupRequest, RicAcceptNode, RicIndication
  <2>6. CASE RicAnswer \/ RicNotify \/ RicShutdown
    BY <1>a, <1>u, <2>6 DEF RicAnswer, RicNotify, RicShutdown
  <2>7. CASE RicTimeout
    BY <1>a, <1>u, <2>7 DEF RicTimeout, vars
  <2>. QED
    BY <1>1, <2>1, <2>2, <2>3, <2>4, <2>5, <2>6, <2>7 DEF RicThread
<1>2. CASE IAppThread
  <2>1. CASE IAppForward
    <3>1. CASE sad[imsg.node] = 0
      <4>1. imsg.node \in Nodes /\ Met(imsg.node) /\ Abort("E2 Node not found")
        BY <2>1, <3>1 DEF IAppForward, TypeOK, TypeIApp, ToIApp, NodeInv, MetInv
      <4>2. AgentEnded(imsg.node)
        <5>1. CASE imsg.node \in reg
          <6>1. imsg.node \notin {n \in Nodes : sad[n] # 0}
            BY <3>1
          <6>2. rpc \in {"erase_conn", "rm_node"} /\ imsg.node = rmsg.node
            BY <5>1, <6>1 DEF NodeInv, ViewsInv, TypeOK, TypeRic
          <6>. QED
            BY <6>2 DEF NodeInv, LinkInv
        <5>. QED
          BY <4>1, <5>1 DEF Met
      <4>. QED
        BY <1>n, <4>1, <4>2
    <3>2. CASE sad[imsg.node] # 0
      BY <1>u, <2>1, <3>2 DEF IAppForward
    <3>. QED
      BY <3>1, <3>2
  <2>2. CASE IAppRequest
    <3>. DEFINE m == Head(iappIn)
    <3>1. m.node \in Nodes /\ Met(m.node)
      <4>1. m \in Range(iappIn) /\ m \in ToIApp /\ m.type # "E42_SETUP_REQ"
        BY <2>2, QueueTypes, ReceiveRange DEF IAppRequest, IAppReceives, TypeOK, TypeSockets
      <4>. QED
        BY <4>1 DEF NodeInv, MetInv, ToIApp
    <3>2. CASE Abort("valid_global_e2_node") /\ m.node \notin reg
      BY <1>n, <3>1, <3>2 DEF Met
    <3>3. CASE ~(Abort("valid_global_e2_node") /\ m.node \notin reg)
      BY <1>a, <1>u, <2>2, <3>3 DEF IAppRequest
    <3>. QED
      BY <3>2, <3>3
  <2>3. CASE IAppAddMap
    <3>1. CASE \E e \in mapRicId : e.rid = irid
      <4>1. PICK e \in mapRicId : e.rid = irid
        BY <3>1
      <4>2. \E d \in InFlight : d.rid = irid
        BY <2>3 DEF IAppAddMap, TypeOK, TypeIApp, InFlight
      <4>3. e.rid \in Nat
        BY DEF TypeOK, TypeShared, MapEntries, ReqIds
      <4>4. ~(reqId <= UINT16)
        BY <4>1, <4>2, <4>3 DEF NodeInv, FreshIdInv
      <4>5. reqId' > UINT16
        BY <1>t, <4>4
      <4>6. ricAbort' = "ric_req_id already in the map"
        BY <2>3, <3>1 DEF IAppAddMap, Abort
      <4>. QED
        BY <4>5, <4>6 DEF NodeAborts
    <3>2. CASE ~\E e \in mapRicId : e.rid = irid
      BY <1>u, <2>3, <3>2 DEF IAppAddMap
    <3>. QED
      BY <3>1, <3>2
  <2>4. CASE IAppRegXApp \/ IAppDelete
    BY <1>a, <1>u, <2>4 DEF IAppRegXApp, IAppDelete
  <2>5. CASE IAppSetupRequest \/ IAppSetupResponse \/ IAppLock \/ IAppStartTimer \/ IAppDeleteTimer
    BY <1>u, <2>5
    DEF IAppSetupRequest, IAppSetupResponse, IAppLock, IAppStartTimer, IAppDeleteTimer
  <2>. QED
    BY <1>2, <2>1, <2>2, <2>3, <2>4, <2>5 DEF IAppThread
<1>3. ASSUME NEW k \in Nodes, AgentStep(k) PROVE NodeAborts'
    BY <1>3, <1>u, AgFrames DEF AgFrame
<1>4. ASSUME NEW x \in XApps, XAppStep(x) PROVE NodeAborts'
    BY <1>4, <1>u, XFrames DEF XFrame
<1>5. CASE UNCHANGED vars
    BY <1>5, <1>u DEF vars
<1>. QED
    BY <1>1, <1>2, <1>3, <1>4, <1>5 DEF Next, AgentStep, XAppStep, XAppRequests

\* A request fails for want of its node only after an agent ended, a node
\* registers twice only after its agent ended or resent its setup, request ids
\* clash only after the counter wrapped, and the handler of a shutdown always
\* finds the node in conn_e2_nodes and in the registry.
THEOREM NodeAbortsExplained == Spec => []NodeAborts
<1>1. Init => NodeAborts
    BY DEF Init, NodeAborts
<1>2. TypeOK /\ RoutingInv /\ NodeInv /\ NodeAborts /\ [Next]_vars => NodeAborts'
    BY NodeAbortsStep
<1>. QED
    BY <1>1, <1>2, TypeCorrect, RoutingInvariant, NodeInvariant, PTL DEF Spec
=============================================================================

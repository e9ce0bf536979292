----------------------------- MODULE E2Routing -----------------------------
(***************************************************************************)
(* Request routing between xApps, the near-RT RIC and E2 agents.           *)
(*                                                                         *)
(* The near-RT RIC process runs two threads.  The RIC thread               *)
(* (e2_event_loop_ric) serves the E2 socket of the agents; the iApp thread *)
(* (e2_event_loop_iapp) serves the E42 socket of the xApps.  An xApp names *)
(* its requests by handles of its own; the iApp thread renames them to RIC *)
(* request ids and forwards them, the RIC thread renames the answers back. *)
(* The threads share map_ric_id (a mutex held across forward and insert),  *)
(* the pending timers, the node addresses and the E2 node registry.        *)
(*                                                                         *)
(* A step is one critical section or one socket operation of one thread.   *)
(* Agents and xApps appear by what they exchange with the RIC; one step of *)
(* theirs handles one event.  A failed assert aborts its process: the RIC  *)
(* records which assert in ricAbort, an agent or an xApp becomes aborted.  *)
(***************************************************************************)
EXTENDS Integers, Sequences, FiniteSets, Functions

CONSTANTS
    Nodes,           \* E2 nodes (global_e2_node_id_t)
    XApps,           \* xApp processes
    RanFuncs,        \* RAN function ids
    UINT16,          \* number of values of a uint16_t request id (65536)
    ReqId0,          \* first RIC request id (1021)
    XAppId0,         \* first xApp id (7)
    MaxReq,          \* bound: requests issued by one xApp
    MaxInd,          \* bound: indications sent by one agent
    MaxAssoc,        \* bound: SCTP associations of one node
    MaxResend,       \* bound: setup requests resent by one peer
    TimersMayExpire  \* whether timers of requests expire: the RIC's (3 s), the xApps' (5 s)

ASSUME ConstAssumption ==
    /\ UINT16 \in Nat \ {0}
    /\ ReqId0 \in Nat \ {0} /\ XAppId0 \in Nat
    /\ MaxReq \in Nat /\ MaxInd \in Nat /\ MaxAssoc \in Nat /\ MaxResend \in Nat
    /\ TimersMayExpire \in BOOLEAN

VARIABLES
    \* near-RT RIC, shared by its two threads
    sad,        \* map_e2_node_sockaddr: association known for a node, 0 if none
    conn,       \* conn_e2_nodes
    reg,        \* the iApp's reg_e2_nodes
    reqId,      \* req_id, an atomic counter
    pending,    \* pending: timers of unanswered requests
    mapRicId,   \* map_ric_id: RIC request id <-> (xApp id, handle), with the node
    mtx,        \* holder of map_ric_id.mtx
    xappId,     \* next xApp id
    xsad,       \* map_xapps_sockaddr
    ricAbort,   \* the assert that stopped the process, "none" while it runs
    \* RIC thread: program counter, message being handled, map entry found
    rpc, rmsg, rto,
    \* iApp thread: program counter, message being handled, RIC request id
    ipc, imsg, irid,
    \* receive queues of the E2 and the E42 socket; the edge of the latter
    ricIn, iappIn, iappEdge,
    \* agents
    ast, assoc, agIn, agEdge, agSubs, agSetup, agResent, agInds,
    \* xApps
    xst, xid, xnodes, xIn, issued, active, xop, xResent

shared  == <<sad, conn, reg, reqId, pending, mapRicId, mtx, xappId, xsad>>
ricVars == <<rpc, rmsg, rto>>
iappVars == <<ipc, imsg, irid>>
iappSock == <<iappIn, iappEdge>>
agVars == <<ast, assoc, agIn, agEdge, agSubs, agSetup, agResent, agInds>>
xVars == <<xst, xid, xnodes, xIn, issued, active, xop, xResent>>
vars == <<shared, ricAbort, ricVars, iappVars, ricIn, iappSock, agVars, xVars>>

-----------------------------------------------------------------------------
(* Data *)

ReqIds == 0 .. UINT16 - 1

\* Messages an agent sends; SHUTDOWN is the SCTP notification.
E2Answers == {"SUB_RESP", "DEL_RESP", "CTRL_ACK", "IND"}
ToRic == [type : E2Answers, node : Nodes, rid : ReqIds, rf : RanFuncs]
           \cup [type : {"SETUP_REQ", "SHUTDOWN"}, node : Nodes, assoc : Nat]
ToAgent == [type : {"SUB_REQ", "DEL_REQ", "CTRL_REQ"}, rid : ReqIds, rf : RanFuncs]
           \cup [type : {"SETUP_RESP"}]
ToIApp == [type : {"SUB_REQ", "DEL_REQ", "CTRL_REQ"}, xid : Nat, h : Nat,
           node : Nodes, rf : RanFuncs]
           \cup [type : {"E42_SETUP_REQ"}, x : XApps]
\* node is where the payload of an answer was produced.
ToXApp == [type : E2Answers, h : Nat, rf : RanFuncs, node : Nodes]
           \cup [type : {"E42_SETUP_RESP"}, xid : Nat, nodes : SUBSET Nodes]
\* An E42 setup response being prepared, with the xApp it goes to.
SetupReplies == [type : {"E42_SETUP_RESP"}, x : XApps, xid : Nat, nodes : SUBSET Nodes]
MapEntries == [rid : ReqIds, node : Nodes, xid : Nat, h : Nat, rf : RanFuncs]
\* fd: timers are told apart by the request counter at their creation.
PendingEvents == [ev : {"SUB_REQ", "DEL_REQ", "CTRL_REQ"}, rid : ReqIds,
                  rf : RanFuncs, fd : Nat]
XAppRegs == [xid : Nat, x : XApps]
Requests == [kind : {"SUB_REQ", "CTRL_REQ"}, node : Nodes, rf : RanFuncs]

NoMsg == [type |-> "NONE"]
NoOp == [ans |-> "NONE", h |-> 0]

\* The answer to a request, in E2AP and in E42AP alike.
AnswerTo(type) ==
    CASE type = "SUB_REQ" -> "SUB_RESP"
      [] type = "DEL_REQ" -> "DEL_RESP"
      [] type = "CTRL_REQ" -> "CTRL_ACK"

RicAsserts == {"E2 Node already exists", "E2 Node not found", "key not in the tree",
               "ric_req_id > 0", "Not found RIC Request ID", "ran_func_id differs",
               "xApp ID not found", "xApp ID already registered",
               "valid_xapp_id", "valid_global_e2_node", "Not found xApp RIC ID",
               "ric_req_id already in the map", "conn E2 Node not found",
               "Not registered E2 Node", "pending size is 1"}

-----------------------------------------------------------------------------
Init ==
    /\ sad = [n \in Nodes |-> 0] /\ conn = {} /\ reg = {}
    /\ reqId = ReqId0 /\ pending = {} /\ mapRicId = {} /\ mtx = "free"
    /\ xappId = XAppId0 /\ xsad = {} /\ ricAbort = "none"
    /\ rpc = "idle" /\ rmsg = NoMsg /\ rto = NoMsg
    /\ ipc = "idle" /\ imsg = NoMsg /\ irid = 0
    /\ ricIn = <<>> /\ iappIn = <<>> /\ iappEdge = FALSE
    /\ ast = [n \in Nodes |-> "off"] /\ assoc = [n \in Nodes |-> 0]
    /\ agIn = [n \in Nodes |-> <<>>] /\ agEdge = [n \in Nodes |-> FALSE]
    /\ agSubs = [n \in Nodes |-> {}] /\ agSetup = [n \in Nodes |-> FALSE]
    /\ agResent = [n \in Nodes |-> 0] /\ agInds = [n \in Nodes |-> 0]
    /\ xst = [x \in XApps |-> "off"] /\ xid = [x \in XApps |-> 0]
    /\ xnodes = [x \in XApps |-> {}] /\ xIn = [x \in XApps |-> <<>>]
    /\ issued = [x \in XApps |-> <<>>] /\ active = [x \in XApps |-> {}]
    /\ xop = [x \in XApps |-> NoOp] /\ xResent = [x \in XApps |-> 0]

\* A failed assert of the near-RT RIC process: both threads stop.
Abort(why) ==
    /\ ricAbort' = why
    /\ UNCHANGED <<shared, ricVars, iappVars, ricIn, iappSock, agVars, xVars>>

RicUp == ricAbort = "none"
RicReceives(types) == RicUp /\ rpc = "idle" /\ ricIn # <<>> /\ Head(ricIn).type \in types

\* sctp_sendmsg to the address recorded for n: lost if the association is gone.
SendToNode(n, m) ==
    IF ast[n] = "up" /\ sad[n] = assoc[n]
    THEN /\ agIn' = [agIn EXCEPT ![n] = Append(@, m)]
         /\ agEdge' = [agEdge EXCEPT ![n] = TRUE]
    ELSE UNCHANGED <<agIn, agEdge>>

SendToXApp(x, m) ==
    xIn' = IF xst[x] = "aborted" THEN xIn ELSE [xIn EXCEPT ![x] = Append(@, m)]

\* Arrival on the iApp's edge-triggered socket.
SendToIApp(m) ==
    /\ iappIn' = Append(iappIn, m)
    /\ iappEdge' = TRUE

-----------------------------------------------------------------------------
(* RIC thread: E2 setup *)

RicSetupRequest ==
    /\ RicReceives({"SETUP_REQ"})
    /\ LET m == Head(ricIn) IN
         /\ sad' = [sad EXCEPT ![m.node] = m.assoc]
         /\ rmsg' = m
    /\ rpc' = "add_node" /\ ricIn' = Tail(ricIn)
    /\ UNCHANGED <<conn, reg, reqId, pending, mapRicId, mtx, xappId, xsad, ricAbort,
                   rto, iappVars, iappSock, agVars, xVars>>

RicAddNode ==
    /\ RicUp /\ rpc = "add_node"
    /\ IF rmsg.node \in reg
       THEN Abort("E2 Node already exists")
       ELSE /\ reg' = reg \cup {rmsg.node}
            /\ rpc' = "accept_node"
            /\ UNCHANGED <<sad, conn, reqId, pending, mapRicId, mtx, xappId, xsad, ricAbort,
                           rmsg, rto, iappVars, ricIn, iappSock, agVars, xVars>>

RicAcceptNode ==
    /\ RicUp /\ rpc = "accept_node"
    /\ conn' = conn \cup {rmsg.node}
    /\ SendToNode(rmsg.node, [type |-> "SETUP_RESP"])
    /\ rpc' = "idle" /\ rmsg' = NoMsg
    /\ UNCHANGED <<sad, reg, reqId, pending, mapRicId, mtx, xappId, xsad, ricAbort, rto,
                   iappVars, ricIn, iappSock, ast, assoc, agSubs, agSetup, agResent,
                   agInds, xVars>>

(* RIC thread: answers and indications on their way to an xApp *)

StopPendingEvent(ev, m) ==
    {p \in pending : p.ev = ev /\ p.rid = m.rid /\ p.rf = m.rf}

\* Mutant: the timer of an answered request goes on.
MutRicAnswer ==
    /\ RicReceives({"SUB_RESP", "DEL_RESP", "CTRL_ACK"})
    /\ rpc' = "lookup" /\ rmsg' = Head(ricIn) /\ ricIn' = Tail(ricIn)
    /\ UNCHANGED <<shared, ricAbort, rto, iappVars, iappSock, agVars, xVars>>

RicAnswer ==
    /\ RicReceives({"SUB_RESP", "DEL_RESP", "CTRL_ACK"})
    /\ \E ev \in {"SUB_REQ", "DEL_REQ", "CTRL_REQ"} :
         /\ AnswerTo(ev) = Head(ricIn).type
         /\ LET found == StopPendingEvent(ev, Head(ricIn)) IN
              IF found = {}
              THEN Abort("key not in the tree")
              ELSE /\ \E p \in found : pending' = pending \ {p}
                   /\ rpc' = "lookup" /\ rmsg' = Head(ricIn) /\ ricIn' = Tail(ricIn)
                   /\ UNCHANGED <<sad, conn, reg, reqId, mapRicId, mtx, xappId, xsad,
                                  ricAbort, rto, iappVars, iappSock, agVars, xVars>>

RicIndication ==
    /\ RicReceives({"IND"})
    /\ rpc' = "lookup" /\ rmsg' = Head(ricIn) /\ ricIn' = Tail(ricIn)
    /\ UNCHANGED <<shared, ricAbort, rto, iappVars, iappSock, agVars, xVars>>

\* Mutant: the entry is searched by RAN function instead of request id.
MutRicLookupByRf ==
    /\ RicUp /\ rpc = "lookup" /\ mtx = "free"
    /\ \E e \in {d \in mapRicId : d.rf = rmsg.rf} : rto' = e
    /\ rpc' = "notify"
    /\ UNCHANGED <<shared, ricAbort, rmsg, iappVars, ricIn, iappSock, agVars, xVars>>

\* Mutant: the entry found is not kept.
MutRicLookupDropped ==
    /\ RicUp /\ rpc = "lookup" /\ mtx = "free"
    /\ rpc' = "notify"
    /\ UNCHANGED <<shared, ricAbort, rmsg, rto, iappVars, ricIn, iappSock, agVars, xVars>>

\* find_xapp_map_ric_id waits for the mutex.
RicLookup ==
    /\ RicUp /\ rpc = "lookup" /\ mtx = "free"
    /\ LET found == {e \in mapRicId : e.rid = rmsg.rid} IN
         IF rmsg.rid = 0 THEN Abort("ric_req_id > 0")
         ELSE IF found = {} THEN Abort("Not found RIC Request ID")
         ELSE \E e \in found :
                IF e.rf # rmsg.rf
                THEN Abort("ran_func_id differs")
                ELSE /\ rto' = e
                     /\ rpc' = "notify"
                     /\ UNCHANGED <<shared, ricAbort, rmsg, iappVars, ricIn, iappSock,
                                    agVars, xVars>>

RicNotify ==
    /\ RicUp /\ rpc = "notify"
    /\ LET found == {r \in xsad : r.xid = rto.xid} IN
         IF found = {}
         THEN Abort("xApp ID not found")
         ELSE /\ \E r \in found :
                   SendToXApp(r.x, [type |-> rmsg.type, h |-> rto.h,
                                    rf |-> rmsg.rf, node |-> rmsg.node])
              /\ rpc' = "idle" /\ rmsg' = NoMsg /\ rto' = NoMsg
              /\ UNCHANGED <<shared, ricAbort, iappVars, ricIn, iappSock, agVars, xst, xid,
                             xnodes, issued, active, xop, xResent>>

(* RIC thread: an association was shut down *)

RicShutdown ==
    /\ RicReceives({"SHUTDOWN"})
    /\ LET m == Head(ricIn) IN
         IF sad[m.node] # m.assoc
         THEN Abort("key not in the tree")
         ELSE /\ sad' = [sad EXCEPT ![m.node] = 0]
              /\ rpc' = "erase_conn" /\ rmsg' = m /\ ricIn' = Tail(ricIn)
              /\ UNCHANGED <<conn, reg, reqId, pending, mapRicId, mtx, xappId, xsad,
                             ricAbort, rto, iappVars, iappSock, agVars, xVars>>

\* Mutant: conn_e2_nodes keeps the node.
MutRicEraseConn ==
    /\ RicUp /\ rpc = "erase_conn"
    /\ rpc' = "rm_node"
    /\ UNCHANGED <<shared, ricAbort, rmsg, rto, iappVars, ricIn, iappSock, agVars, xVars>>

RicEraseConn ==
    /\ RicUp /\ rpc = "erase_conn"
    /\ IF rmsg.node \notin conn
       THEN Abort("conn E2 Node not found")
       ELSE /\ conn' = conn \ {rmsg.node}
            /\ rpc' = "rm_node"
            /\ UNCHANGED <<sad, reg, reqId, pending, mapRicId, mtx, xappId, xsad, ricAbort,
                           rmsg, rto, iappVars, ricIn, iappSock, agVars, xVars>>

RicRmNode ==
    /\ RicUp /\ rpc = "rm_node"
    /\ IF rmsg.node \notin reg
       THEN Abort("Not registered E2 Node")
       ELSE /\ reg' = reg \ {rmsg.node}
            /\ rpc' = "idle" /\ rmsg' = NoMsg
            /\ UNCHANGED <<sad, conn, reqId, pending, mapRicId, mtx, xappId, xsad, ricAbort,
                           rto, iappVars, ricIn, iappSock, agVars, xVars>>

\* A request's 3 s timer expired: pend_event asserts that it is the only one;
\* the event is then only logged and the periodic timer stays armed.
RicTimeout ==
    /\ RicUp /\ rpc = "idle" /\ TimersMayExpire /\ pending # {}
    /\ IF Cardinality(pending) # 1
       THEN Abort("pending size is 1")
       ELSE UNCHANGED vars

-----------------------------------------------------------------------------
(* iApp thread.  Its socket is edge triggered and each edge reads one       *)
(* message: a second message that arrived under the same edge stays queued. *)

IAppReceives(types) ==
    /\ RicUp /\ ipc = "idle" /\ iappEdge /\ iappIn # <<>>
    /\ Head(iappIn).type \in types

IAppConsume ==
    /\ iappIn' = Tail(iappIn)
    /\ iappEdge' = FALSE

IAppSetupRequest ==
    /\ IAppReceives({"E42_SETUP_REQ"})
    /\ IAppConsume
    /\ imsg' = [type |-> "E42_SETUP_RESP", x |-> Head(iappIn).x,
                xid |-> xappId, nodes |-> reg]
    /\ xappId' = xappId + 1
    /\ ipc' = "reg_xapp"
    /\ UNCHANGED <<sad, conn, reg, reqId, pending, mapRicId, mtx, xsad, ricAbort, ricVars,
                   irid, ricIn, agVars, xVars>>

IAppRegXApp ==
    /\ RicUp /\ ipc = "reg_xapp"
    /\ IF \E r \in xsad : r.xid = imsg.xid
       THEN Abort("xApp ID already registered")
       ELSE /\ xsad' = xsad \cup {[xid |-> imsg.xid, x |-> imsg.x]}
            /\ ipc' = "send_setup"
            /\ UNCHANGED <<sad, conn, reg, reqId, pending, mapRicId, mtx, xappId, ricAbort,
                           ricVars, imsg, irid, ricIn, iappSock, agVars, xVars>>

IAppSetupResponse ==
    /\ RicUp /\ ipc = "send_setup"
    /\ SendToXApp(imsg.x, [type |-> "E42_SETUP_RESP", xid |-> imsg.xid,
                           nodes |-> imsg.nodes])
    /\ ipc' = "idle" /\ imsg' = NoMsg
    /\ UNCHANGED <<shared, ricAbort, ricVars, irid, ricIn, iappSock, agVars, xst, xid,
                   xnodes, issued, active, xop, xResent>>

\* Subscription and control requests: both asserts read the registry before
\* the mutex is taken.
IAppRequest ==
    /\ IAppReceives({"SUB_REQ", "CTRL_REQ"})
    /\ LET m == Head(iappIn) IN
         IF m.xid > xappId THEN Abort("valid_xapp_id")
         ELSE IF m.node \notin reg THEN Abort("valid_global_e2_node")
         ELSE /\ IAppConsume
              /\ imsg' = m /\ ipc' = "lock"
              /\ UNCHANGED <<shared, ricAbort, ricVars, irid, ricIn, agVars, xVars>>

\* Mutant: the request is forwarded without the mutex.
MutIAppLock ==
    /\ RicUp /\ ipc = "lock"
    /\ ipc' = "timer"
    /\ UNCHANGED <<shared, ricAbort, ricVars, imsg, irid, ricIn, iappSock, agVars, xVars>>

IAppLock ==
    /\ RicUp /\ ipc = "lock" /\ mtx = "free"
    /\ mtx' = "iapp"
    /\ ipc' = "timer"
    /\ UNCHANGED <<sad, conn, reg, reqId, pending, mapRicId, xappId, xsad, ricAbort, ricVars,
                   imsg, irid, ricIn, iappSock, agVars, xVars>>

\* Mutant: no pending event is inserted.
MutIAppStartTimer ==
    /\ RicUp /\ ipc = "timer"
    /\ irid' = reqId % UINT16
    /\ reqId' = reqId + 1
    /\ ipc' = "send"
    /\ UNCHANGED <<sad, conn, reg, pending, mapRicId, mtx, xappId, xsad, ricAbort, ricVars,
                   imsg, ricIn, iappSock, agVars, xVars>>

\* fwd_ric_*_request up to the insertion of the pending event.
IAppStartTimer ==
    /\ RicUp /\ ipc = "timer"
    /\ LET rid == reqId % UINT16 IN
         /\ irid' = rid
         /\ pending' = pending \cup {[ev |-> imsg.type, rid |-> rid, rf |-> imsg.rf,
                                      fd |-> reqId]}
    /\ reqId' = reqId + 1
    /\ ipc' = "send"
    /\ UNCHANGED <<sad, conn, reg, mapRicId, mtx, xappId, xsad, ricAbort, ricVars, imsg,
                   ricIn, iappSock, agVars, xVars>>

\* e2ap_send_bytes_ric: the address is looked up again, at the time of sending.
IAppForward ==
    /\ RicUp /\ ipc = "send"
    /\ IF sad[imsg.node] = 0
       THEN Abort("E2 Node not found")
       ELSE /\ SendToNode(imsg.node, [type |-> imsg.type, rid |-> irid, rf |-> imsg.rf])
            /\ IF imsg.type = "DEL_REQ"
               THEN ipc' = "idle" /\ imsg' = NoMsg /\ irid' = 0
               ELSE ipc' = "add_map" /\ UNCHANGED <<imsg, irid>>
            /\ UNCHANGED <<shared, ricAbort, ricVars, ricIn, iappSock, ast, assoc, agSubs,
                           agSetup, agResent, agInds, xVars>>

\* Mutant: the mutex is not released.
MutIAppAddMap ==
    /\ RicUp /\ ipc = "add_map"
    /\ mapRicId' = mapRicId \cup {[rid |-> irid, node |-> imsg.node, xid |-> imsg.xid,
                                    h |-> imsg.h, rf |-> imsg.rf]}
    /\ ipc' = "idle" /\ imsg' = NoMsg /\ irid' = 0
    /\ UNCHANGED <<sad, conn, reg, reqId, pending, mtx, xappId, xsad, ricAbort, ricVars,
                   ricIn, iappSock, agVars, xVars>>

\* add_map_ric_id, then the lock_guard releases the mutex.
IAppAddMap ==
    /\ RicUp /\ ipc = "add_map"
    /\ IF \E e \in mapRicId : e.rid = irid
       THEN Abort("ric_req_id already in the map")
       ELSE /\ mapRicId' = mapRicId \cup
                 {[rid |-> irid, node |-> imsg.node, xid |-> imsg.xid,
                   h |-> imsg.h, rf |-> imsg.rf]}
            /\ mtx' = "free"
            /\ ipc' = "idle" /\ imsg' = NoMsg /\ irid' = 0
            /\ UNCHANGED <<sad, conn, reg, reqId, pending, xappId, xsad, ricAbort, ricVars,
                           ricIn, iappSock, agVars, xVars>>

\* Subscription delete: the mapping gives the node and the RIC request id.
IAppDelete ==
    /\ IAppReceives({"DEL_REQ"}) /\ mtx = "free"
    /\ LET m == Head(iappIn)
           found == {e \in mapRicId : e.xid = m.xid /\ e.h = m.h /\ e.rf = m.rf} IN
         IF found = {}
         THEN Abort("Not found xApp RIC ID")
         ELSE \E e \in found :
                /\ IAppConsume
                /\ imsg' = [m EXCEPT !.node = e.node]
                /\ irid' = e.rid
                /\ ipc' = "del_timer"
                /\ UNCHANGED <<shared, ricAbort, ricVars, ricIn, agVars, xVars>>

IAppDeleteTimer ==
    /\ RicUp /\ ipc = "del_timer"
    /\ pending' = pending \cup {[ev |-> "DEL_REQ", rid |-> irid, rf |-> imsg.rf,
                                 fd |-> reqId]}
    /\ ipc' = "send"
    /\ UNCHANGED <<sad, conn, reg, reqId, mapRicId, mtx, xappId, xsad, ricAbort, ricVars,
                   imsg, irid, ricIn, iappSock, agVars, xVars>>

-----------------------------------------------------------------------------
(* E2 agents.  Their socket is edge triggered too. *)

AgSend(m) == ricIn' = Append(ricIn, m)

\* The kernel closes the socket of an ending process: with nothing unread the
\* association is shut down, otherwise it is aborted, which the RIC is not told.
AgClose(n, unread) ==
    /\ IF unread = <<>>
       THEN AgSend([type |-> "SHUTDOWN", node |-> n, assoc |-> assoc[n]])
       ELSE UNCHANGED ricIn
    /\ agIn' = [agIn EXCEPT ![n] = <<>>]
    /\ agEdge' = [agEdge EXCEPT ![n] = FALSE]
    /\ agSubs' = [agSubs EXCEPT ![n] = {}]
    /\ agSetup' = [agSetup EXCEPT ![n] = FALSE]

AgReceives(n, types) ==
    /\ ast[n] = "up" /\ agEdge[n] /\ agIn[n] # <<>>
    /\ Head(agIn[n]).type \in types

AgConsume(n) ==
    /\ agIn' = [agIn EXCEPT ![n] = Tail(@)]
    /\ agEdge' = [agEdge EXCEPT ![n] = FALSE]

SetupRequest(n, a) == [type |-> "SETUP_REQ", node |-> n, assoc |-> a]

\* e2_init_agent and e2_start_agent: a new process, a new association.
AgStart(n) ==
    /\ ast[n] # "up" /\ assoc[n] < MaxAssoc
    /\ ast' = [ast EXCEPT ![n] = "up"]
    /\ assoc' = [assoc EXCEPT ![n] = @ + 1]
    /\ agSetup' = [agSetup EXCEPT ![n] = TRUE]
    /\ AgSend(SetupRequest(n, assoc[n] + 1))
    /\ UNCHANGED <<shared, ricAbort, ricVars, iappVars, iappSock, agIn, agEdge, agSubs,
                   agResent, agInds, xVars>>

\* The periodic 3 s timer of an unanswered setup request.
AgResendSetup(n) ==
    /\ ast[n] = "up" /\ agSetup[n] /\ agResent[n] < MaxResend
    /\ agResent' = [agResent EXCEPT ![n] = @ + 1]
    /\ AgSend(SetupRequest(n, assoc[n]))
    /\ UNCHANGED <<shared, ricAbort, ricVars, iappVars, iappSock, ast, assoc, agIn, agEdge,
                   agSubs, agSetup, agInds, xVars>>

AgAbort(n) ==
    /\ ast' = [ast EXCEPT ![n] = "aborted"]
    /\ AgClose(n, Tail(agIn[n]))
    /\ UNCHANGED <<shared, ricAbort, ricVars, iappVars, iappSock, assoc, agResent, agInds,
                   xVars>>

AgSetupResponse(n) ==
    /\ AgReceives(n, {"SETUP_RESP"})
    /\ IF ~agSetup[n]
       THEN AgAbort(n)
       ELSE /\ AgConsume(n)
            /\ agSetup' = [agSetup EXCEPT ![n] = FALSE]
            /\ UNCHANGED <<shared, ricAbort, ricVars, iappVars, ricIn, iappSock, ast, assoc,
                           agSubs, agResent, agInds, xVars>>

AgAnswer(n, m) ==
    /\ AgConsume(n)
    /\ AgSend([type |-> AnswerTo(m.type), node |-> n, rid |-> m.rid, rf |-> m.rf])

AgSubscription(n) ==
    /\ AgReceives(n, {"SUB_REQ"})
    /\ LET m == Head(agIn[n]) IN
         /\ agSubs' = [agSubs EXCEPT ![n] = @ \cup {[rid |-> m.rid, rf |-> m.rf]}]
         /\ AgAnswer(n, m)
    /\ UNCHANGED <<shared, ricAbort, ricVars, iappVars, iappSock, ast, assoc, agSetup,
                   agResent, agInds, xVars>>

\* Mutant: the timer of the subscription is not stopped.
MutAgDelete(n) ==
    /\ AgReceives(n, {"DEL_REQ"})
    /\ AgAnswer(n, Head(agIn[n]))
    /\ UNCHANGED <<shared, ricAbort, ricVars, iappVars, iappSock, ast, assoc, agSubs, agSetup,
                   agResent, agInds, xVars>>

AgDelete(n) ==
    /\ AgReceives(n, {"DEL_REQ"})
    /\ LET m == Head(agIn[n])
           s == [rid |-> m.rid, rf |-> m.rf] IN
         IF s \notin agSubs[n]
         THEN AgAbort(n)
         ELSE /\ agSubs' = [agSubs EXCEPT ![n] = @ \ {s}]
              /\ AgAnswer(n, m)
              /\ UNCHANGED <<shared, ricAbort, ricVars, iappVars, iappSock, ast, assoc,
                             agSetup, agResent, agInds, xVars>>

AgControl(n) ==
    /\ AgReceives(n, {"CTRL_REQ"})
    /\ AgAnswer(n, Head(agIn[n]))
    /\ UNCHANGED <<shared, ricAbort, ricVars, iappVars, iappSock, ast, assoc, agSubs, agSetup,
                   agResent, agInds, xVars>>

\* The timer of a subscription fired.
AgIndication(n) ==
    /\ ast[n] = "up" /\ agInds[n] < MaxInd
    /\ \E s \in agSubs[n] :
         AgSend([type |-> "IND", node |-> n, rid |-> s.rid, rf |-> s.rf])
    /\ agInds' = [agInds EXCEPT ![n] = @ + 1]
    /\ UNCHANGED <<shared, ricAbort, ricVars, iappVars, iappSock, ast, assoc, agIn, agEdge,
                   agSubs, agSetup, agResent, xVars>>

\* e2_free_agent: the process ends and its socket is closed.
AgStop(n) ==
    /\ ast[n] = "up" /\ assoc[n] < MaxAssoc
    /\ ast' = [ast EXCEPT ![n] = "off"]
    /\ AgClose(n, agIn[n])
    /\ UNCHANGED <<shared, ricAbort, ricVars, iappVars, iappSock, assoc, agResent, agInds,
                   xVars>>

-----------------------------------------------------------------------------
(* xApps: one UI thread, which blocks until its request is answered. *)

XReceives(x, types) ==
    /\ xst[x] # "aborted" /\ xIn[x] # <<>>
    /\ Head(xIn[x]).type \in types

XConsume(x) == xIn' = [xIn EXCEPT ![x] = Tail(@)]

XAppStart(x) ==
    /\ xst[x] = "off"
    /\ xst' = [xst EXCEPT ![x] = "connecting"]
    /\ SendToIApp([type |-> "E42_SETUP_REQ", x |-> x])
    /\ UNCHANGED <<shared, ricAbort, ricVars, iappVars, ricIn, agVars, xid, xnodes, xIn,
                   issued, active, xop, xResent>>

XAppResendSetup(x) ==
    /\ xst[x] = "connecting" /\ xResent[x] < MaxResend
    /\ xResent' = [xResent EXCEPT ![x] = @ + 1]
    /\ SendToIApp([type |-> "E42_SETUP_REQ", x |-> x])
    /\ UNCHANGED <<shared, ricAbort, ricVars, iappVars, ricIn, agVars, xst, xid, xnodes, xIn,
                   issued, active, xop>>

XAppAbort(x) ==
    /\ xst' = [xst EXCEPT ![x] = "aborted"]
    /\ xIn' = [xIn EXCEPT ![x] = <<>>]
    /\ UNCHANGED <<shared, ricAbort, ricVars, iappVars, ricIn, iappSock, agVars, xid, xnodes,
                   issued, active, xop, xResent>>

\* assert(xapp->connected == false)
XAppSetupResponse(x) ==
    /\ XReceives(x, {"E42_SETUP_RESP"})
    /\ IF xst[x] # "connecting"
       THEN XAppAbort(x)
       ELSE /\ XConsume(x)
            /\ xst' = [xst EXCEPT ![x] = "idle"]
            /\ xid' = [xid EXCEPT ![x] = Head(xIn[x]).xid]
            /\ xnodes' = [xnodes EXCEPT ![x] = Head(xIn[x]).nodes]
            /\ UNCHANGED <<shared, ricAbort, ricVars, iappVars, ricIn, iappSock, agVars,
                           issued, active, xop, xResent>>

\* The timer of the request that x waits for expires: an assert of the event
\* loop ends the process.  Nobody tells the RIC, whose own timer stays.
XAppTimeout(x) == TimersMayExpire /\ xst[x] = "waiting" /\ XAppAbort(x)

\* Mutant: the UI thread does not wait for the answer.
MutXAppRequest(x, kind, n, f) ==
    /\ xst[x] = "idle" /\ n \in xnodes[x] /\ Len(issued[x]) < MaxReq
    /\ LET h == Len(issued[x]) + 1 IN
         /\ issued' = [issued EXCEPT ![x] = Append(@, [kind |-> kind, node |-> n, rf |-> f])]
         /\ active' = [active EXCEPT ![x] = @ \cup {h}]
         /\ SendToIApp([type |-> kind, xid |-> xid[x], h |-> h, node |-> n, rf |-> f])
    /\ UNCHANGED <<shared, ricAbort, ricVars, iappVars, ricIn, agVars, xst, xid, xnodes, xIn,
                   xop, xResent>>

\* report_sm_sync_xapp and control_sm_sync_xapp: register the procedure under
\* the next handle, send the request and wait.
XAppRequest(x, kind, n, f) ==
    /\ xst[x] = "idle" /\ n \in xnodes[x] /\ Len(issued[x]) < MaxReq
    /\ LET h == Len(issued[x]) + 1 IN
         /\ issued' = [issued EXCEPT ![x] = Append(@, [kind |-> kind, node |-> n, rf |-> f])]
         /\ active' = [active EXCEPT ![x] = @ \cup {h}]
         /\ xop' = [xop EXCEPT ![x] = [ans |-> AnswerTo(kind), h |-> h]]
         /\ SendToIApp([type |-> kind, xid |-> xid[x], h |-> h, node |-> n, rf |-> f])
    /\ xst' = [xst EXCEPT ![x] = "waiting"]
    /\ UNCHANGED <<shared, ricAbort, ricVars, iappVars, ricIn, agVars, xid, xnodes, xIn,
                   xResent>>

\* rm_report_sm_sync_xapp.  The message carries no node; iApp looks it up.
XAppUnsubscribe(x) ==
    /\ xst[x] = "idle"
    /\ \E h \in active[x] :
         /\ SendToIApp([type |-> "DEL_REQ", xid |-> xid[x], h |-> h,
                        node |-> issued[x][h].node, rf |-> issued[x][h].rf])
         /\ xop' = [xop EXCEPT ![x] = [ans |-> "DEL_RESP", h |-> h]]
    /\ xst' = [xst EXCEPT ![x] = "waiting"]
    /\ UNCHANGED <<shared, ricAbort, ricVars, iappVars, ricIn, agVars, xid, xnodes, xIn,
                   issued, active, xResent>>

\* An answer: the procedure must be registered; it wakes the UI thread, which
\* removes the procedure after a delete or a control.
XAppAnswer(x) ==
    /\ XReceives(x, {"SUB_RESP", "DEL_RESP", "CTRL_ACK"})
    /\ LET m == Head(xIn[x]) IN
         IF m.h \notin active[x]
         THEN XAppAbort(x)
         ELSE /\ XConsume(x)
              /\ xst' = [xst EXCEPT ![x] = "idle"]
              /\ xop' = [xop EXCEPT ![x] = NoOp]
              /\ active' = [active EXCEPT ![x] = IF xop[x].ans = "SUB_RESP" THEN @ ELSE @ \ {xop[x].h}]
              /\ UNCHANGED <<shared, ricAbort, ricVars, iappVars, ricIn, iappSock, agVars,
                             xid, xnodes, issued, xResent>>

\* Dispatched to its callback when the handle is active, dropped otherwise.
XAppIndication(x) ==
    /\ XReceives(x, {"IND"})
    /\ XConsume(x)
    /\ UNCHANGED <<shared, ricAbort, ricVars, iappVars, ricIn, iappSock, agVars, xst, xid,
                   xnodes, issued, active, xop, xResent>>

-----------------------------------------------------------------------------
RicThread ==
    \/ RicSetupRequest \/ RicAddNode \/ RicAcceptNode
    \/ RicAnswer \/ RicIndication \/ RicLookup \/ RicNotify
    \/ RicShutdown \/ RicEraseConn \/ RicRmNode

IAppThread ==
    \/ IAppSetupRequest \/ IAppRegXApp \/ IAppSetupResponse
    \/ IAppRequest \/ IAppLock \/ IAppStartTimer \/ IAppForward \/ IAppAddMap
    \/ IAppDelete \/ IAppDeleteTimer

AgentLoop(n) ==
    AgSetupResponse(n) \/ AgSubscription(n) \/ AgDelete(n) \/ AgControl(n)

\* The loop's other timer, of the setup, is XAppResendSetup.
XAppLoop(x) ==
    XAppSetupResponse(x) \/ XAppAnswer(x) \/ XAppIndication(x) \/ XAppTimeout(x)

Next ==
    \/ RicThread \/ RicTimeout
    \/ IAppThread
    \/ \E n \in Nodes : AgStart(n) \/ AgResendSetup(n) \/ AgentLoop(n)
                          \/ AgIndication(n) \/ AgStop(n)
    \/ \E x \in XApps : XAppStart(x) \/ XAppResendSetup(x) \/ XAppUnsubscribe(x)
                          \/ XAppLoop(x)
    \/ \E x \in XApps, k \in {"SUB_REQ", "CTRL_REQ"}, n \in Nodes, f \in RanFuncs :
         XAppRequest(x, k, n, f)

Spec == Init /\ [][Next]_vars

\* Every event loop keeps polling and every thread keeps running.
Fairness ==
    /\ WF_vars(RicThread) /\ WF_vars(IAppThread)
    /\ \A n \in Nodes : WF_vars(AgentLoop(n))
    /\ \A x \in XApps : WF_vars(XAppLoop(x))

FairSpec == Spec /\ Fairness

-----------------------------------------------------------------------------
(* Properties *)

\* The kind of request a message answers; deletes and indications belong to
\* the subscription.
KindOf(type) ==
    IF type \in {"CTRL_REQ", "CTRL_ACK"} THEN "CTRL_REQ" ELSE "SUB_REQ"

\* xApp x issued request h of that kind to node n and RAN function f.
Asked(x, h, kind, n, f) ==
    h \in DOMAIN issued[x] /\ issued[x][h] = [kind |-> kind, node |-> n, rf |-> f]

TypeShared ==
    /\ sad \in [Nodes -> Nat] /\ conn \subseteq Nodes /\ reg \subseteq Nodes
    /\ reqId \in Nat /\ pending \subseteq PendingEvents /\ mapRicId \subseteq MapEntries
    /\ mtx \in {"free", "iapp"} /\ xappId \in Nat /\ xsad \subseteq XAppRegs

TypeRic ==
    /\ rpc \in {"idle", "add_node", "accept_node", "lookup", "notify", "erase_conn", "rm_node"}
    /\ rmsg \in ToRic \cup {NoMsg} /\ rto \in MapEntries \cup {NoMsg}
    /\ rpc \in {"add_node", "accept_node", "erase_conn", "rm_node"} =>
         rmsg \in ToRic /\ rmsg.type \in {"SETUP_REQ", "SHUTDOWN"}
    /\ rpc \in {"lookup", "notify"} => rmsg \in ToRic /\ rmsg.type \in E2Answers
    /\ rpc = "notify" => rto \in MapEntries

TypeIApp ==
    /\ ipc \in {"idle", "reg_xapp", "send_setup", "lock", "timer", "send", "add_map", "del_timer"}
    /\ imsg \in ToIApp \cup SetupReplies \cup {NoMsg}
    /\ ipc \in {"reg_xapp", "send_setup"} => imsg \in SetupReplies
    /\ ipc \in {"lock", "timer", "add_map"} => imsg \in ToIApp /\ imsg.type \in {"SUB_REQ", "CTRL_REQ"}
    /\ ipc = "send" => imsg \in ToIApp /\ imsg.type \in {"SUB_REQ", "CTRL_REQ", "DEL_REQ"}
    /\ ipc = "del_timer" => imsg \in ToIApp /\ imsg.type = "DEL_REQ"
    /\ irid \in ReqIds

TypeSockets ==
    ricIn \in Seq(ToRic) /\ iappIn \in Seq(ToIApp) /\ iappEdge \in BOOLEAN

TypeAgents ==
    /\ ast \in [Nodes -> {"off", "up", "aborted"}] /\ assoc \in [Nodes -> Nat]
    /\ agIn \in [Nodes -> Seq(ToAgent)] /\ agEdge \in [Nodes -> BOOLEAN]
    /\ agSubs \in [Nodes -> SUBSET [rid : ReqIds, rf : RanFuncs]]
    /\ agSetup \in [Nodes -> BOOLEAN] /\ agResent \in [Nodes -> Nat] /\ agInds \in [Nodes -> Nat]

TypeXApps ==
    /\ xst \in [XApps -> {"off", "connecting", "idle", "waiting", "aborted"}]
    /\ xid \in [XApps -> Nat] /\ xnodes \in [XApps -> SUBSET Nodes]
    /\ xIn \in [XApps -> Seq(ToXApp)] /\ issued \in [XApps -> Seq(Requests)]
    /\ active \in [XApps -> SUBSET Nat]
    /\ \A x \in XApps : active[x] \subseteq DOMAIN issued[x]
    /\ xop \in [XApps -> [ans : {"SUB_RESP", "DEL_RESP", "CTRL_ACK"}, h : Nat] \cup {NoOp}]
    /\ xResent \in [XApps -> Nat]

\* The variables keep the types of the structures they stand for, and a thread
\* in the middle of a handler holds the message that handler works on.
TypeOK ==
    /\ TypeShared /\ TypeRic /\ TypeIApp /\ TypeSockets /\ TypeAgents /\ TypeXApps
    /\ ricAbort \in RicAsserts \cup {"none"}

\* Renaming is undone correctly: whatever reaches an xApp under a handle was
\* produced by the node, for the RAN function and for the kind of request that
\* this very xApp issued under that handle (msg_handler_iapp.c: every answer
\* is sent to the xApp and under the id that find_xapp_map_ric_id returns).
RoutedToRequester ==
    \A x \in XApps : \A m \in Range(xIn[x]) :
        m.type \in E2Answers => Asked(x, m.h, KindOf(m.type), m.node, m.rf)

\* No lookup of the renaming fails: an answer never overtakes the insertion of
\* its own mapping ("there is a data race if not"), its xApp has an address,
\* and xApp ids are fresh.
LookupsSucceed ==
    ricAbort \notin {"Not found RIC Request ID", "ran_func_id differs", "xApp ID not found",
                     "xApp ID already registered", "valid_xapp_id"}

\* stop_pending_event finds the timer of every answer that is on its way.
AnswerHasTimer ==
    \A m \in Range(ricIn), ev \in {"SUB_REQ", "DEL_REQ", "CTRL_REQ"} :
        m.type = AnswerTo(ev) => StopPendingEvent(ev, m) # {}

\* Between two events of the RIC thread the three views of the connected
\* nodes agree: addresses, conn_e2_nodes and the iApp's registry.
NodeViewsAgree ==
    rpc = "idle" /\ RicUp => /\ conn = reg
                            /\ reg = {n \in Nodes : sad[n] # 0}

\* An xApp never receives an answer it is not waiting for, nor two of them.
AnswerAwaited ==
    \A x \in XApps : \A i, j \in DOMAIN xIn[x] :
        LET m == xIn[x][i] IN
          m.type \in E2Answers \ {"IND"} =>
            /\ xst[x] = "waiting" /\ xop[x] = [ans |-> m.type, h |-> m.h]
            /\ xIn[x][j].type \in E2Answers \ {"IND"} => i = j

\* Indications stay inside their subscription: none reaches the xApp before
\* the subscription response or after the delete response (the handler's
\* "Spuriosly can happen" branch is not reached by reordering in the RIC).
IndicationInSubscription ==
    \A x \in XApps : \A i \in DOMAIN xIn[x] :
        LET m == xIn[x][i] IN
          m.type = "IND" =>
            /\ m.h \in active[x]
            /\ xop[x] = [ans |-> "SUB_RESP", h |-> m.h] =>
                 \E j \in 1 .. i - 1 : xIn[x][j].type = "SUB_RESP" /\ xIn[x][j].h = m.h
            /\ \A j \in 1 .. i - 1 : ~(xIn[x][j].type = "DEL_RESP" /\ xIn[x][j].h = m.h)

\* The xApps whose last request is not answered: those that wait for it, and
\* those that ended while they waited (xop is then the request they waited for).
LeftUnanswered ==
    {x \in XApps : xst[x] = "waiting" \/ (xst[x] = "aborted" /\ xop[x] # NoOp)}

\* The RIC has no more timers than that: an answered request leaves none.  An
\* xApp that ended may leave one for ever, since no answer stops it, the timer
\* is periodic and the RIC only logs it.
PendingAreUnanswered == Cardinality(pending) <= Cardinality(LeftUnanswered)

\* Nothing reaches an xApp that it is not ready for: its handlers assert the
\* pending event of an answer and look up the procedure of an indication.
ArrivalsExpected == AnswerAwaited /\ IndicationInSubscription

\* Timers of the RIC and requests correspond: an answer on its way finds its
\* timer, also when its xApp has ended, and no other request keeps one.
TimersMatchRequests == AnswerHasTimer /\ PendingAreUnanswered

\* An agent ended since its node was first known.
AgentEnded(n) == assoc[n] > 1 \/ (assoc[n] = 1 /\ ast[n] # "up")

\* What the churn of nodes and the wrap of the counter explain.
NodeAborts ==
    /\ ricAbort \in {"E2 Node not found", "valid_global_e2_node"} =>
         \E n \in Nodes : AgentEnded(n)
    /\ ricAbort = "E2 Node already exists" =>
         \E n \in Nodes : AgentEnded(n) \/ agResent[n] > 0
    /\ ricAbort \in {"ric_req_id > 0", "ric_req_id already in the map"} => reqId > UINT16
    /\ ricAbort \notin {"conn E2 Node not found", "Not registered E2 Node"}

\* What the requests of the xApps explain.
RequestAborts ==
    /\ ricAbort = "pending size is 1" =>
         \E x, y \in LeftUnanswered : x # y
    /\ ricAbort \notin {"key not in the tree", "Not found xApp RIC ID"}

\* What can end the RIC.  Requests to a node fail only once its agent ended;
\* a node registers twice only if its agent sent the setup request again or
\* came back; request ids clash only once the counter wrapped; pend_event
\* finds a second pending event only when two xApps wait, or waited when they
\* ended.  The asserts of the other lookups never fail: a delete, for one, finds
\* the subscription it names (find_ric_req_map_ric_id), since an xApp deletes
\* only what was answered and answers come after the insertion.
AbortsExplained == NodeAborts /\ RequestAborts

\* Sockets read once per edge: a message that arrived under the edge of an
\* earlier one waits for the next arrival.
MessageStuck ==
    \/ iappIn # <<>> /\ ~iappEdge
    \/ \E n \in Nodes : agIn[n] # <<>> /\ ~agEdge[n]

\* While nodes stay connected, nothing is resent and no timer expires (the
\* xApp's would end the wait with its process), a request waits for ever only
\* if a message stays unread in an edge-triggered socket for ever: the two
\* threads, the mutex and the renaming never lose it.
AnsweredOrStuck ==
    \A x \in XApps : <>[](xst[x] = "waiting") => <>[]MessageStuck

\* "Wait for the answer (it will arrive in the event loop)": a request that an
\* xApp sends is answered.
RequestAnswered == \A x \in XApps : xst[x] = "waiting" ~> xst[x] = "idle"

-----------------------------------------------------------------------------
(* Why routing is correct: the inductive invariant behind RoutedToRequester  *)
(* and LookupsSucceed.                                                       *)

\* The xApp that regs knows under id i issued request h, as recorded in reqs.
OwnedIn(regs, reqs, i, h, kind, n, f) ==
    \E r \in regs : /\ r.xid = i /\ h \in DOMAIN reqs[r.x]
                    /\ reqs[r.x][h] = [kind |-> kind, node |-> n, rf |-> f]

Owned(i, h, kind, n, f) == OwnedIn(xsad, issued, i, h, kind, n, f)

\* The mapping that the iApp thread is about to insert, under the mutex.
InFlight ==
    IF ipc \in {"send", "add_map"} /\ imsg.type \in {"SUB_REQ", "CTRL_REQ"}
    THEN {[rid |-> irid, node |-> imsg.node, xid |-> imsg.xid, h |-> imsg.h, rf |-> imsg.rf]}
    ELSE {}

\* Request id rid, used at node n, leads back to an owner through entries.
TracedIn(entries, regs, reqs, n, rid, f, kind) ==
    \E e \in entries : /\ e.rid = rid /\ e.node = n /\ e.rf = f
                       /\ OwnedIn(regs, reqs, e.xid, e.h, kind, n, f)

Traced(n, rid, f, kind) ==
    TracedIn(mapRicId \cup InFlight, xsad, issued, n, rid, f, kind)

\* xApp ids name one xApp, are below the counter and known before they are told.
XAppIdsInv ==
    /\ \A r1, r2 \in xsad : r1.xid = r2.xid => r1 = r2
    /\ \A r \in xsad : r.xid < xappId
    /\ ipc = "reg_xapp" => imsg.xid < xappId /\ \A r \in xsad : r.xid # imsg.xid
    /\ ipc = "send_setup" => [xid |-> imsg.xid, x |-> imsg.x] \in xsad
    /\ \A x \in XApps : \A m \in Range(xIn[x]) :
         m.type = "E42_SETUP_RESP" => [xid |-> m.xid, x |-> x] \in xsad
    /\ \A x \in XApps : xst[x] \in {"idle", "waiting"} => [xid |-> xid[x], x |-> x] \in xsad

\* Only the request an xApp waits for can be a control procedure.
HandlesInv ==
    \A x \in XApps :
        /\ xst[x] \in {"off", "connecting"} => active[x] = {}
        /\ \A h \in active[x] : issued[x][h].kind = "CTRL_REQ" =>
             xst[x] \in {"waiting", "aborted"} /\ xop[x].h = h /\ xop[x].ans # "SUB_RESP"

\* Requests on their way to a node carry the id and the handle of their owner.
RequestsInv ==
    /\ \A m \in Range(iappIn) : m.type \in {"SUB_REQ", "DEL_REQ", "CTRL_REQ"} =>
         Owned(m.xid, m.h, KindOf(m.type), m.node, m.rf)
    /\ ipc \in {"lock", "timer", "send", "add_map", "del_timer"} =>
         Owned(imsg.xid, imsg.h, KindOf(imsg.type), imsg.node, imsg.rf)
    /\ ipc \in {"send", "del_timer"} => Traced(imsg.node, irid, imsg.rf, KindOf(imsg.type))

\* The mutex is held from before a request leaves until its id is mapped.
MutexInv ==
    /\ ipc \in {"timer", "add_map"} => mtx = "iapp"
    /\ ipc = "send" /\ imsg.type # "DEL_REQ" => mtx = "iapp"
    /\ \A e1, e2 \in mapRicId : e1.rid = e2.rid => e1 = e2
    /\ \A e \in mapRicId : \E kind \in {"SUB_REQ", "CTRL_REQ"} :
         Owned(e.xid, e.h, kind, e.node, e.rf)

\* Every request id at a node or on its way back is mapped or in flight.
TracedInv ==
    /\ \A n \in Nodes :
         /\ \A m \in Range(agIn[n]) : m.type # "SETUP_RESP" =>
              Traced(n, m.rid, m.rf, KindOf(m.type))
         /\ \A s \in agSubs[n] : Traced(n, s.rid, s.rf, "SUB_REQ")
    /\ \A m \in Range(ricIn) : m.type \in E2Answers =>
         Traced(m.node, m.rid, m.rf, KindOf(m.type))
    /\ rpc \in {"lookup", "notify"} => Traced(rmsg.node, rmsg.rid, rmsg.rf, KindOf(rmsg.type))
    /\ rpc = "notify" => Owned(rto.xid, rto.h, KindOf(rmsg.type), rmsg.node, rmsg.rf)

\* Every message under way leads back to the request it belongs to: with
\* RoutedToRequester and LookupsSucceed it is preserved by every step.
RoutingInv ==
    /\ XAppIdsInv /\ HandlesInv /\ RequestsInv /\ MutexInv /\ TracedInv
    /\ RoutedToRequester /\ LookupsSucceed

-----------------------------------------------------------------------------
(* Why the views of the nodes agree, and which asserts can fail: the         *)
(* inductive invariant behind NodeViewsAgree and AbortsExplained.            *)

LinkMsg(m) == m.type \in {"SETUP_REQ", "SHUTDOWN"}
SetupOf(m, n) == m.type = "SETUP_REQ" /\ m.node = n

\* A handler updates the three views one after the other.
ViewsInv ==
    LET known == {n \in Nodes : sad[n] # 0} IN
    /\ rpc \in {"idle", "lookup", "notify"} => conn = reg /\ known = reg
    /\ rpc = "add_node" => conn = reg /\ known = reg \cup {rmsg.node}
    /\ rpc = "accept_node" => known = reg /\ reg = conn \cup {rmsg.node}
    /\ rpc = "erase_conn" => conn = reg /\ rmsg.node \in reg /\ known = reg \ {rmsg.node}
    /\ rpc = "rm_node" => known = conn /\ reg = conn \cup {rmsg.node} /\ rmsg.node \notin conn

\* The last setup or shutdown of n before position i of queue s is the setup of
\* association a; with none there, a is the association c on record.
LatestIn(s, c, i, n, a) ==
    \E j \in 0 .. i - 1 :
        /\ IF j = 0 THEN c = a ELSE s[j] = SetupRequest(n, a)
        /\ \A k \in j + 1 .. i - 1 :
             LinkMsg(s[k]) /\ s[k].node = n => s[k] = SetupRequest(n, a)

\* A shutdown comes from an agent that ended, after the setup it revokes.
LinkInv ==
    /\ \A m \in Range(ricIn) : LinkMsg(m) => m.assoc > 0
    /\ \A m \in Range(ricIn) : m.type = "SHUTDOWN" => AgentEnded(m.node)
    /\ rpc \in {"erase_conn", "rm_node"} => AgentEnded(rmsg.node)
    /\ \A i \in DOMAIN ricIn :
         ricIn[i].type = "SHUTDOWN" =>
           LatestIn(ricIn, sad[ricIn[i].node], i, ricIn[i].node, ricIn[i].assoc)
    /\ \A n \in Nodes :
         ast[n] = "up" =>
           assoc[n] > 0 /\ LatestIn(ricIn, sad[n], Len(ricIn) + 1, n, assoc[n])

NoSetup(s, n) == \A m \in Range(s) : ~SetupOf(m, n)
OneSetup(s, n) == \A i, j \in DOMAIN s : SetupOf(s[i], n) /\ SetupOf(s[j], n) => i = j

\* The first setup request of a node, if it is neither sent again nor followed
\* by that of another process, is the only one.
FirstSetupInv ==
    \A n \in Nodes : ~AgentEnded(n) /\ agResent[n] = 0 =>
        /\ OneSetup(ricIn, n)
        /\ assoc[n] = 0 \/ n \in reg \/ (rpc = "add_node" /\ rmsg.node = n) => NoSetup(ricIn, n)
        /\ rpc = "add_node" /\ rmsg.node = n => n \notin reg
        /\ assoc[n] = 0 => n \notin reg /\ ~(rpc = "add_node" /\ rmsg.node = n)

\* n is registered, or was and its agent ended.
Met(n) == n \in reg \/ AgentEnded(n)

\* Every node that an xApp was told of, and so every request names, was met.
MetInv ==
    /\ \A x \in XApps : \A n \in xnodes[x] : Met(n)
    /\ \A x \in XApps : \A m \in Range(xIn[x]) :
         m.type = "E42_SETUP_RESP" => \A n \in m.nodes : Met(n)
    /\ \A x \in XApps : \A h \in DOMAIN issued[x] : Met(issued[x][h].node)
    /\ \A m \in Range(iappIn) : m.type # "E42_SETUP_REQ" => Met(m.node)
    /\ ipc \in {"reg_xapp", "send_setup"} => \A n \in imsg.nodes : Met(n)
    /\ ipc \in {"lock", "timer", "send", "add_map", "del_timer"} => Met(imsg.node)
    /\ \A e \in mapRicId : Met(e.node)

\* Until the counter wraps, request ids are fresh.
FreshIdInv ==
    /\ reqId > 0
    /\ reqId <= UINT16 =>
         /\ \A e \in mapRicId : e.rid > 0 /\ e.rid < reqId
         /\ \A e \in InFlight :
              e.rid > 0 /\ e.rid < reqId /\ \A d \in mapRicId : d.rid < e.rid

NodeInv == ViewsInv /\ LinkInv /\ FirstSetupInv /\ MetInv /\ FreshIdInv
-----------------------------------------------------------------------------
(* The service as an xApp sees it *)

\* The request of an xApp a RIC request id stands for.
StandsFor(rid, x, h) ==
    \E e \in mapRicId \cup InFlight :
        e.rid = rid /\ e.h = h /\ [xid |-> e.xid, x |-> x] \in xsad

\* The node has answered and the xApp has not handled the answer.
AnswerUnderWay(x, h) ==
    \/ \E m \in Range(xIn[x]) : m.type = xop[x].ans /\ m.h = h
    \/ /\ rpc \in {"lookup", "notify"} /\ rmsg.type = xop[x].ans
       /\ StandsFor(rmsg.rid, x, h)
    \/ \E m \in Range(ricIn) : m.type = xop[x].ans /\ StandsFor(m.rid, x, h)

PhaseOf(x, h) ==
    IF xst[x] = "aborted" \/ h \notin active[x] THEN "closed"
    ELSE IF xop[x] = NoOp \/ xop[x].h # h THEN "active"
    ELSE IF xop[x].ans = "DEL_RESP"
    THEN IF AnswerUnderWay(x, h) THEN "released" ELSE "leaving"
    ELSE IF AnswerUnderWay(x, h) THEN "granted" ELSE "asked"

\* The phases of the requests, and what the nodes serve to xApps that live.
Phases == [x \in XApps |-> [h \in DOMAIN issued[x] |-> PhaseOf(x, h)]]

Serving ==
    [n \in Nodes |-> {p \in XApps \X (1 .. MaxReq) :
                        /\ xst[p[1]] # "aborted"
                        /\ \E s \in agSubs[n] : StandsFor(s.rid, p[1], p[2])}]

Service == INSTANCE SubscriptionService WITH
    Clients <- XApps, Providers <- Nodes,
    asked <- issued, phase <- Phases, serving <- Serving

\* Two threads, three processes and the renaming implement the service: each
\* request is served by one step of the node it names, its answer is taken
\* once and for this request only, and a subscription lives at the node from
\* the step that grants it to the step that releases it, or until the node ends.
ImplementsService == Service!Spec
=============================================================================

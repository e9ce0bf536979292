------------------------------ MODULE E2Agent ------------------------------
(***************************************************************************)
(* One E2 agent facing a near-RT RIC that stops, crashes and restarts.     *)
(*                                                                         *)
(* The agent's loop (e2_event_loop_agent) takes one event per turn from    *)
(* epoll: a message or a notification on its socket, the expiry of the     *)
(* timer of a setup request (pending) or of a subscription (ind_event), or *)
(* nothing for a second, which lets it look at stop_token.  epoll hands    *)
(* out descriptors in the order in which they became ready, and the        *)
(* registration is edge triggered: one turn reads one message, however     *)
(* many arrived under the edge.                                            *)
(*                                                                         *)
(* The RIC appears by what it exchanges with this agent (its threads are   *)
(* in E2Routing).  Each life of its process is a run; a new run starts     *)
(* with empty maps and counts its request ids from the start again, while  *)
(* the agent keeps its timers.  Messages and timers carry, for the         *)
(* properties only, the run whose request they belong to.                  *)
(***************************************************************************)
EXTENDS Integers, Sequences, FiniteSets, Functions, BiMap

CONSTANTS
    MaxRuns,     \* bound: runs of the RIC process
    MaxReq,      \* bound: requests of one run
    MaxQueue     \* bound: messages waiting in a receive queue

ASSUME AgentAssumption == MaxRuns \in Nat /\ MaxReq \in Nat /\ MaxQueue \in Nat \ {0}

VARIABLES
    apc,        \* the agent's thread: "init", "test", "wait", "stopped", "aborted"
    agAbort,    \* the assert that stopped the agent, "none" while it runs
    pending,    \* fd <-> SETUP_REQUEST_PENDING_EVENT
    indEvent,   \* fd <-> RIC request id
    timers,     \* open timer descriptors, all registered in epoll
    rdl,        \* epoll's ready list: descriptors in the order of their edges
    agIn,       \* receive queue of the agent's socket
    born,       \* run whose request created the timer (history)
    setupRun,   \* run of the last setup response since the last notification (history)
    stopToken, spc,   \* stop_token and the thread in e2_free_agent
    ricUp, ricRun,    \* whether a RIC runs, and which run it is
    ricIn,      \* receive queue of the RIC's E2 socket
    linked,     \* an association with the current run exists
    ricReg,     \* the node is registered
    ricNext,    \* req_id, relative to its first value
    ricPending, \* pending: <<request, rid>>
    ricMap,     \* map_ric_id: rids it knows, never removed
    ricSubs,    \* subscriptions an xApp may still delete
    ricAbort,   \* the assert that ended the last run that aborted
    stale       \* a run took an answer about an earlier run for its own, or
                \* aborted on a message about one (history)

agVars == <<apc, agAbort, pending, indEvent, timers, born, setupRun>>
agSock == <<rdl, agIn>>
stopVars == <<stopToken, spc>>
ricState == <<ricReg, ricNext, ricPending, ricMap, ricSubs>>
ricVars == <<ricUp, ricRun, ricState, ricAbort, stale>>
link == <<ricIn, linked>>
vars == <<agVars, agSock, stopVars, ricVars, link>>

SOCK == 0
SETUP == "SETUP_REQUEST_PENDING_EVENT"
\* Enough descriptors for every timer the bounds allow.
Fds == 1 .. MaxRuns * MaxReq + MaxRuns + 1
Rids == 1 .. MaxReq
Runs == 0 .. MaxRuns
ToAgent == [type : {"SETUP_RESP", "SUB_REQ", "DEL_REQ", "CTRL_REQ", "SHUTDOWN"},
            rid : Rids \cup {0}, run : Runs]
ToRic == [type : {"SETUP_REQ", "SUB_RESP", "DEL_RESP", "CTRL_ACK", "IND"},
          rid : Rids \cup {0}, run : Runs]

Init ==
    /\ apc = "init" /\ agAbort = "none"
    /\ pending = bi_map_init /\ indEvent = bi_map_init
    /\ timers = {} /\ rdl = <<>> /\ agIn = <<>>
    /\ born = [f \in Fds |-> 0] /\ setupRun = 0
    /\ stopToken = FALSE /\ spc = "run"
    /\ ricUp = FALSE /\ ricRun = 0 /\ ricIn = <<>> /\ linked = FALSE
    /\ ricReg = FALSE /\ ricNext = 1 /\ ricPending = {} /\ ricMap = {} /\ ricSubs = {}
    /\ ricAbort = "none" /\ stale = FALSE

-----------------------------------------------------------------------------
(* epoll and the sockets *)

\* The agent's process is there: no assert ended it and the agent is not freed.
AgentRuns == apc # "aborted" /\ spc # "freed"

Arm(list, fd) == IF fd \in Range(list) THEN list ELSE Append(list, fd)

\* sctp_sendmsg to the RIC: opens an association if there is none, and is lost
\* when no RIC listens.
AgSend(m) ==
    IF ricUp
    THEN ricIn' = Append(ricIn, m) /\ linked' = TRUE
    ELSE UNCHANGED link

MayAgSend == ricUp => Len(ricIn) < MaxQueue

\* create_timer_ms_asio_agent: the kernel hands out the lowest free descriptor.
NewFd == CHOOSE f \in Fds \ timers : \A g \in Fds \ timers : f <= g

\* The ready list without a descriptor, which is at most once in it.
Without(list, fd) ==
    IF fd \in Range(list)
    THEN LET i == CHOOSE j \in DOMAIN list : list[j] = fd
         IN  [j \in 1 .. Len(list) - 1 |-> IF j < i THEN list[j] ELSE list[j + 1]]
    ELSE list

\* rm_fd_asio_agent: out of epoll, then closed.
RmFd(fd, list) ==
    /\ timers' = timers \ {fd}
    /\ rdl' = Without(list, fd)

TimerFires(fd) ==
    /\ AgentRuns /\ fd \in timers
    /\ fd \notin Range(rdl)
    /\ rdl' = Append(rdl, fd)
    /\ UNCHANGED <<agVars, agIn, stopVars, ricVars, link>>

-----------------------------------------------------------------------------
(* The agent's thread *)

SetupRequest == [type |-> "SETUP_REQ", rid |-> 0, run |-> 0]

\* e2_start_agent, before the loop.
AgStart ==
    /\ apc = "init"
    /\ AgSend(SetupRequest)
    /\ timers' = timers \cup {NewFd}
    /\ pending' = bi_map_insert(pending, NewFd, SETUP)
    /\ apc' = "test"
    /\ UNCHANGED <<agAbort, indEvent, born, setupRun, agSock, stopVars, ricVars>>

\* while(ag->stop_token == false)
AgTest ==
    /\ apc = "test"
    /\ apc' = IF stopToken THEN "stopped" ELSE "wait"
    /\ UNCHANGED <<agAbort, pending, indEvent, timers, born, setupRun, agSock, stopVars,
                   ricVars, link>>

\* Mutant: epoll_wait waits for ever.
MutTimeout ==
    /\ apc = "wait" /\ rdl = <<>>
    /\ UNCHANGED vars

\* epoll_wait ran into its timeout of a second.
AgTimeout ==
    /\ apc = "wait" /\ rdl = <<>>
    /\ apc' = "test"
    /\ UNCHANGED <<agAbort, pending, indEvent, timers, born, setupRun, agSock, stopVars,
                   ricVars, link>>

AgAbort(why) ==
    /\ apc' = "aborted" /\ agAbort' = why
    /\ UNCHANGED <<pending, indEvent, timers, born, setupRun, agSock, stopVars, ricVars, link>>

AgReceives(type) ==
    /\ apc = "wait" /\ rdl # <<>> /\ Head(rdl) = SOCK
    /\ agIn # <<>> /\ Head(agIn).type = type

\* Mutant: a response does not stop the setup timer.
MutSetupResponse ==
    /\ AgReceives("SETUP_RESP")
    /\ agIn' = Tail(agIn) /\ rdl' = Tail(rdl)
    /\ setupRun' = Head(agIn).run
    /\ apc' = "test"
    /\ UNCHANGED <<agAbort, pending, timers, indEvent, born, stopVars, ricVars, link>>

AgSetupResponse ==
    /\ AgReceives("SETUP_RESP")
    /\ LET found == bi_map_extract_right(pending, SETUP) IN
         IF found = {}
         THEN AgAbort("no setup pending")
         ELSE /\ \E r \in found : pending' = r.map /\ RmFd(r.key1, Tail(rdl))
              /\ agIn' = Tail(agIn)
              /\ setupRun' = Head(agIn).run
              /\ apc' = "test"
              /\ UNCHANGED <<agAbort, indEvent, born, stopVars, ricVars, link>>

\* The answer to a request, sent within the handler's turn.
AgAnswer(type) ==
    /\ MayAgSend
    /\ AgSend([Head(agIn) EXCEPT !.type = type])
    /\ agIn' = Tail(agIn)
    /\ apc' = "test"

AgSubscription ==
    /\ AgReceives("SUB_REQ")
    /\ timers' = timers \cup {NewFd}
    /\ indEvent' = bi_map_insert(indEvent, NewFd, Head(agIn).rid)
    /\ born' = [born EXCEPT ![NewFd] = Head(agIn).run]
    /\ AgAnswer("SUB_RESP")
    /\ rdl' = Tail(rdl)
    /\ UNCHANGED <<agAbort, pending, setupRun, stopVars, ricVars>>

AgDelete ==
    /\ AgReceives("DEL_REQ")
    /\ LET found == bi_map_extract_right(indEvent, Head(agIn).rid) IN
         IF found = {}
         THEN AgAbort("no subscription")
         ELSE /\ \E r \in found : indEvent' = r.map /\ RmFd(r.key1, Tail(rdl))
              /\ AgAnswer("DEL_RESP")
              /\ UNCHANGED <<agAbort, pending, born, setupRun, stopVars, ricVars>>

AgControl ==
    /\ AgReceives("CTRL_REQ")
    /\ AgAnswer("CTRL_ACK")
    /\ rdl' = Tail(rdl)
    /\ UNCHANGED <<agAbort, pending, indEvent, timers, born, setupRun, stopVars, ricVars>>

\* notification_handle_ag: one more setup timer; the subscriptions stay.
AgNotification ==
    /\ AgReceives("SHUTDOWN")
    /\ timers' = timers \cup {NewFd}
    /\ pending' = bi_map_insert(pending, NewFd, SETUP)
    /\ agIn' = Tail(agIn) /\ rdl' = Tail(rdl)
    /\ setupRun' = 0
    /\ apc' = "test"
    /\ UNCHANGED <<agAbort, indEvent, born, stopVars, ricVars, link>>

TimerEvent == apc = "wait" /\ rdl # <<>> /\ Head(rdl) # SOCK

\* Mutant: the timer of a subscription expires once.
MutIndication ==
    /\ TimerEvent /\ MayAgSend
    /\ \E p \in indEvent.left :
         /\ p[1] = Head(rdl)
         /\ AgSend([type |-> "IND", rid |-> p[2], run |-> born[p[1]]])
         /\ timers' = timers \ {p[1]}
    /\ rdl' = Tail(rdl)
    /\ apc' = "test"
    /\ UNCHANGED <<agAbort, pending, indEvent, born, setupRun, agIn, stopVars, ricVars>>

AgIndication ==
    /\ TimerEvent /\ MayAgSend
    /\ \E p \in indEvent.left :
         /\ p[1] = Head(rdl)
         /\ AgSend([type |-> "IND", rid |-> p[2], run |-> born[p[1]]])
    /\ rdl' = Tail(rdl)
    /\ apc' = "test"
    /\ UNCHANGED <<agAbort, pending, indEvent, timers, born, setupRun, agIn, stopVars, ricVars>>

\* Mutant: the setup request is not sent again.
MutPendingEvent ==
    /\ TimerEvent
    /\ \A p \in indEvent.left : p[1] # Head(rdl)
    /\ IF bi_map_size(pending) # 1
       THEN AgAbort("pending size is 1")
       ELSE /\ rdl' = Tail(rdl)
            /\ apc' = "test"
            /\ UNCHANGED <<agAbort, pending, indEvent, timers, born, setupRun, agIn, stopVars,
                           ricVars, link>>

\* pend_event asserts that there is one pending event, and that it is this one.
AgPendingEvent ==
    /\ TimerEvent
    /\ \A p \in indEvent.left : p[1] # Head(rdl)
    /\ IF bi_map_size(pending) # 1
       THEN AgAbort("pending size is 1")
       ELSE IF \A p \in pending.left : p[1] # Head(rdl)
       THEN AgAbort("Unknown event")
       ELSE /\ MayAgSend
            /\ AgSend(SetupRequest)
            /\ rdl' = Tail(rdl)
            /\ apc' = "test"
            /\ UNCHANGED <<agAbort, pending, indEvent, timers, born, setupRun, agIn, stopVars,
                           ricVars>>

(* e2_free_agent, called by the thread of the base station *)

StopRequest ==
    /\ spc = "run" /\ apc # "aborted"
    /\ stopToken' = TRUE /\ spc' = "waiting"
    /\ UNCHANGED <<agVars, agSock, ricVars, link>>

StopFree ==
    /\ spc = "waiting" /\ apc = "stopped"
    /\ spc' = "freed"
    /\ pending' = bi_map_init /\ indEvent' = bi_map_init
    /\ UNCHANGED <<apc, agAbort, timers, born, setupRun, agSock, stopToken, ricVars, link>>

-----------------------------------------------------------------------------
(* The near-RT RIC, as long as there is an agent to exchange messages with *)

SendToAgent(m) ==
    IF ~AgentRuns
    THEN UNCHANGED agSock
    ELSE agIn' = Append(agIn, m) /\ rdl' = Arm(rdl, SOCK)

\* init_near_ric in a new process.
RicStart ==
    /\ ~ricUp /\ ricRun < MaxRuns /\ AgentRuns
    /\ ricUp' = TRUE /\ ricRun' = ricRun + 1
    /\ ricReg' = FALSE /\ ricNext' = 1 /\ ricPending' = {} /\ ricMap' = {} /\ ricSubs' = {}
    /\ UNCHANGED <<agVars, agSock, stopVars, ricAbort, stale, link>>

\* The process ends and the kernel closes its socket: with nothing unread the
\* association is shut down, which the agent is notified of; otherwise it is
\* aborted, an event the agent did not subscribe to.
RicEnds(unread) ==
    /\ ricUp' = FALSE /\ ricIn' = <<>> /\ linked' = FALSE
    /\ IF linked /\ unread = <<>>
       THEN SendToAgent([type |-> "SHUTDOWN", rid |-> 0, run |-> ricRun])
       ELSE UNCHANGED agSock
    /\ UNCHANGED <<agVars, stopVars, ricRun, ricState>>

RicStop ==
    /\ ricUp /\ AgentRuns
    /\ RicEnds(ricIn)
    /\ UNCHANGED <<ricAbort, stale>>

\* The message handled is about an earlier run (history).
MeetsRun == stale' = (stale \/ Head(ricIn).run \in 1 .. ricRun - 1)

\* A failed assert while the head of the queue is handled.
RicAborts(why) ==
    /\ RicEnds(Tail(ricIn))
    /\ ricAbort' = why /\ MeetsRun

RicReceives(types) == ricUp /\ ricIn # <<>> /\ Head(ricIn).type \in types

RicSetupRequest ==
    /\ RicReceives({"SETUP_REQ"})
    /\ IF ricReg
       THEN RicAborts("E2 Node already exists")
       ELSE /\ ricReg' = TRUE
            /\ ricIn' = Tail(ricIn)
            /\ SendToAgent([type |-> "SETUP_RESP", rid |-> 0, run |-> ricRun])
            /\ UNCHANGED <<agVars, stopVars, ricUp, ricRun, ricNext, ricPending, ricMap,
                           ricSubs, ricAbort, stale, linked>>

RicAnswer(req, type) ==
    /\ RicReceives({type})
    /\ LET p == <<req, Head(ricIn).rid>> IN
         IF p \notin ricPending
         THEN RicAborts("key not in the tree")
         ELSE /\ ricPending' = ricPending \ {p}
              /\ ricSubs' = IF req = "SUB_REQ" THEN ricSubs \cup {p[2]} ELSE ricSubs
              /\ ricIn' = Tail(ricIn)
              /\ MeetsRun
              /\ UNCHANGED <<agVars, agSock, stopVars, ricUp, ricRun, ricReg, ricNext, ricMap,
                             ricAbort, linked>>

\* publish_ind_msg and notify_msg_iapp_api: only the request id is looked up.
RicIndication ==
    /\ RicReceives({"IND"})
    /\ IF Head(ricIn).rid \notin ricMap
       THEN RicAborts("Not found RIC Request ID")
       ELSE /\ ricIn' = Tail(ricIn)
            /\ UNCHANGED <<agVars, agSock, stopVars, ricVars, linked>>

\* Mutant: a request id is skipped.
MutRequestSkips(type) ==
    /\ ricUp /\ ricReg /\ AgentRuns /\ ricNext <= MaxReq /\ Len(agIn) < MaxQueue
    /\ ricNext' = ricNext + 2
    /\ ricPending' = ricPending \cup {<<type, ricNext>>}
    /\ ricMap' = ricMap \cup {ricNext}
    /\ SendToAgent([type |-> type, rid |-> ricNext, run |-> ricRun])
    /\ UNCHANGED <<agVars, stopVars, ricUp, ricRun, ricReg, ricSubs, ricAbort, stale, link>>

\* An xApp's request, forwarded to the node under a new request id.
RicRequest(type) ==
    /\ ricUp /\ ricReg /\ AgentRuns /\ ricNext <= MaxReq /\ Len(agIn) < MaxQueue
    /\ ricNext' = ricNext + 1
    /\ ricPending' = ricPending \cup {<<type, ricNext>>}
    /\ ricMap' = ricMap \cup {ricNext}
    /\ SendToAgent([type |-> type, rid |-> ricNext, run |-> ricRun])
    /\ UNCHANGED <<agVars, stopVars, ricUp, ricRun, ricReg, ricSubs, ricAbort, stale, link>>

RicDelete(rid) ==
    /\ ricUp /\ ricReg /\ AgentRuns /\ rid \in ricSubs /\ Len(agIn) < MaxQueue
    /\ ricSubs' = ricSubs \ {rid}
    /\ ricPending' = ricPending \cup {<<"DEL_REQ", rid>>}
    /\ SendToAgent([type |-> "DEL_REQ", rid |-> rid, run |-> ricRun])
    /\ UNCHANGED <<agVars, stopVars, ricUp, ricRun, ricReg, ricNext, ricMap, ricAbort,
                   stale, link>>

-----------------------------------------------------------------------------
AgentLoop ==
    \/ AgTest \/ AgTimeout
    \/ AgSetupResponse \/ AgSubscription \/ AgDelete \/ AgControl \/ AgNotification
    \/ AgIndication \/ AgPendingEvent

RicLoop ==
    \/ RicSetupRequest \/ RicIndication
    \/ RicAnswer("SUB_REQ", "SUB_RESP") \/ RicAnswer("DEL_REQ", "DEL_RESP")
    \/ RicAnswer("CTRL_REQ", "CTRL_ACK")

Next ==
    \/ AgStart \/ AgentLoop \/ \E f \in Fds : TimerFires(f)
    \/ StopRequest \/ StopFree
    \/ RicStart \/ RicLoop \/ RicStop
    \/ RicRequest("SUB_REQ") \/ RicRequest("CTRL_REQ")
    \/ \E rid \in Rids : RicDelete(rid)

\* The threads keep running, and an armed timer expires.
Fairness ==
    /\ WF_vars(AgentLoop) /\ WF_vars(RicLoop) /\ WF_vars(StopFree)
    /\ WF_vars(AgStart)
    /\ \A f \in Fds : WF_vars(TimerFires(f))

Spec == Init /\ [][Next]_vars /\ Fairness

-----------------------------------------------------------------------------
(* Properties *)

\* The variables keep the types of the structures they stand for.
TypeOK ==
    /\ apc \in {"init", "test", "wait", "stopped", "aborted"}
    /\ pending.left \subseteq Fds \X {SETUP} /\ pending.right \subseteq {SETUP} \X Fds
    /\ indEvent.left \subseteq Fds \X Rids /\ indEvent.right \subseteq Rids \X Fds
    /\ timers \subseteq Fds /\ rdl \in Seq(Fds \cup {SOCK}) /\ agIn \in Seq(ToAgent)
    /\ born \in [Fds -> Runs] /\ setupRun \in Runs
    /\ stopToken \in BOOLEAN /\ spc \in {"run", "waiting", "freed"}
    /\ ricUp \in BOOLEAN /\ ricRun \in Runs /\ ricIn \in Seq(ToRic) /\ linked \in BOOLEAN
    /\ ricReg \in BOOLEAN /\ ricNext \in 1 .. MaxReq + 1
    /\ ricPending \subseteq {"SUB_REQ", "DEL_REQ", "CTRL_REQ"} \X Rids
    /\ ricMap \subseteq Rids /\ ricSubs \subseteq Rids

\* The left keys of a map: its descriptors.
FdsOf(m) == {p[1] : p \in m.left}

\* Every open timer belongs to exactly one of the two maps, whose trees mirror
\* each other: handlers that create, find and close timers (add_fd, rm_fd and
\* the bimaps) never get out of step, whatever descriptor the kernel reuses.
MapsMatchTimers ==
    /\ Mirrored(pending) /\ Mirrored(indEvent)
    /\ spc # "freed" =>
         /\ FdsOf(pending) \cap FdsOf(indEvent) = {}
         /\ timers = FdsOf(pending) \cup FdsOf(indEvent)

\* An event epoll reports is real when the loop handles it: a timer of the
\* ready list is still open, so the loop meets no event of a closed and reused
\* descriptor, and the socket has a message, so the blocking receive returns.
ReadyIsReal ==
    \A i \in DOMAIN rdl :
        IF rdl[i] = SOCK THEN agIn # <<>> ELSE rdl[i] \in timers

\* Timers, maps and epoll stay in step: neither the bimaps of e2_agent.c nor the
\* descriptors of asio_agent.c are ever stale.
TimersInStep == MapsMatchTimers /\ ReadyIsReal

\* Without a message that outlived a run of the RIC, the setup timer is single:
\* a second one (which makes pend_event abort the agent) takes a run that died
\* of an answer or an indication about an earlier run, or that took such an
\* answer for the one to its own request of the same id.  The asserts that stop
\* the agent are this one, and a second setup response with no notification in
\* between, from a later run than the first; never that of stop_ind_event: a
\* delete request finds a timer of its id, also when runs reused the id.
AgentAbortsExplained ==
    /\ bi_map_size(pending) > 1 => stale
    /\ agAbort \in {"none", "no setup pending", "pending size is 1"}
    /\ agAbort = "pending size is 1" => stale
    /\ agAbort = "no setup pending" => setupRun \in 1 .. Head(agIn).run - 1

\* Within one run of the RIC the answers and indications of the agent are
\* those the RIC waits for: what kills a run other than a resent setup request
\* is a message about an earlier one, or its own answer after one of an earlier
\* run was taken for it.
RicAbortsExplained ==
    ricAbort \in {"key not in the tree", "Not found RIC Request ID"} => stale

\* What can end either side: a message or a timer that outlived a run of the RIC.
AbortsExplained == AgentAbortsExplained /\ RicAbortsExplained

-----------------------------------------------------------------------------
(* The inductive invariant behind TimersInStep and AbortsExplained *)

Requests == {"SUB_REQ", "DEL_REQ", "CTRL_REQ"}
RequestOf == [t \in {"SUB_RESP", "DEL_RESP", "CTRL_ACK"} |->
                CASE t = "SUB_RESP" -> "SUB_REQ" [] t = "DEL_RESP" -> "DEL_REQ"
                  [] t = "CTRL_ACK" -> "CTRL_REQ"]

\* How many of the first n messages of a queue are in M.
Count(queue, n, M) == Cardinality({i \in 1 .. n : queue[i] \in M})

\* The agent is freed after its loop, an assert ends it, and its first setup
\* request is the first thing it does.
PcInv ==
    /\ spc = "freed" => apc = "stopped"
    /\ agAbort # "none" => apc = "aborted"
    /\ apc = "init" => pending.left = {} /\ setupRun = 0

\* A descriptor is once in the ready list: a new edge does not add it again.
ReadyOnce == IsInjective(rdl)

\* There is a descriptor left for every timer still to come: that of the first
\* setup request, those of the messages on their way, and those of the
\* requests and the ends of the runs to come.
Creating == {m \in ToAgent : m.type \in {"SUB_REQ", "SHUTDOWN"}}
ToCome ==
    /\ ricRun \in Runs
    /\ Cardinality(timers) + Count(agIn, Len(agIn), Creating)
         + (IF apc = "init" THEN 1 ELSE 0)
         + (IF ricUp THEN MaxReq + 2 - ricNext ELSE 0)
         + (MaxRuns - ricRun) * (MaxReq + 1)
       <= MaxRuns * MaxReq + MaxRuns + 1

\* The agent reads what the runs sent in the order of the runs.  A run answers
\* one setup request, and the notification of its end is its last message.
RunsInv ==
    /\ \A i \in DOMAIN agIn :
         /\ agIn[i].run \in 1 .. ricRun /\ setupRun <= agIn[i].run
         /\ agIn[i].type = "SETUP_RESP" =>
              setupRun < agIn[i].run /\ (agIn[i].run = ricRun => ricReg)
         /\ agIn[i].type = "SHUTDOWN" => agIn[i].run # ricRun \/ ~ricUp
         /\ agIn[i].type \in Requests => agIn[i].rid \in Rids
    /\ \A i, j \in DOMAIN agIn : i < j =>
         /\ agIn[i].run <= agIn[j].run
         /\ agIn[i].type = "SHUTDOWN" \/ (agIn[i].type = "SETUP_RESP" /\ agIn[j].type = "SETUP_RESP")
              => agIn[i].run < agIn[j].run
    /\ setupRun <= ricRun
    /\ setupRun = ricRun /\ ricRun # 0 => ricReg

\* The setup timer follows the responses and the notifications: with no
\* message of an earlier run in play, each notification finds no timer, since
\* a response of the same run stopped it.
SetupInv ==
    /\ apc # "init" /\ spc # "freed" /\ pending.left = {} => setupRun # 0
    /\ AgentRuns /\ ricUp /\ ricReg =>
         \/ setupRun = ricRun
         \/ \E i \in DOMAIN agIn : agIn[i].type = "SETUP_RESP" /\ agIn[i].run = ricRun
    /\ ~stale =>
         /\ \A p, q \in pending.left : p = q
         /\ setupRun # 0 => pending.left = {}
         /\ \A i \in DOMAIN agIn : agIn[i].type = "SHUTDOWN" =>
              \/ setupRun = agIn[i].run
              \/ \E j \in 1 .. i - 1 : agIn[j].type = "SETUP_RESP" /\ agIn[j].run = agIn[i].run

\* The RIC's side: nothing is read, and nothing known, before the registration.
LinkInv ==
    /\ IF ricUp THEN ricRun # 0 ELSE ricIn = <<>> /\ ~linked
    /\ linked /\ ~ricReg => ricIn # <<>>
    /\ ~ricReg => ricPending = {} /\ ricMap = {}
    /\ ricMap = 1 .. ricNext - 1 /\ ricSubs \subseteq ricMap
    /\ \A p \in ricPending : p[2] \in ricMap
    /\ \A rid \in ricSubs : <<"SUB_REQ", rid>> \notin ricPending /\ <<"DEL_REQ", rid>> \notin ricPending
    /\ \A rid \in ricMap : <<"SUB_REQ", rid>> \notin ricPending \/ <<"DEL_REQ", rid>> \notin ricPending

\* What the agent tells a run belongs to this run or to an earlier one.
BornInv ==
    /\ \A i \in DOMAIN ricIn : ricIn[i].type # "SETUP_REQ" => ricIn[i].run \in 1 .. ricRun
    /\ \A p \in indEvent.left : born[p[1]] \in 1 .. ricRun

\* Every answer and indication about the current run is one it waits for, as
\* long as no answer about an earlier run was taken for its own.
ExpectedInv ==
    ~stale =>
      /\ \A i \in DOMAIN agIn : agIn[i].type \in Requests /\ agIn[i].run = ricRun =>
           <<agIn[i].type, agIn[i].rid>> \in ricPending
      /\ \A i \in DOMAIN ricIn : ricIn[i].type \in DOMAIN RequestOf /\ ricIn[i].run = ricRun =>
           <<RequestOf[ricIn[i].type], ricIn[i].rid>> \in ricPending
      /\ \A i \in DOMAIN ricIn : ricIn[i].type = "IND" /\ ricIn[i].run = ricRun =>
           ricIn[i].rid \in ricMap
      /\ \A p \in indEvent.left : born[p[1]] = ricRun => p[2] \in ricMap

\* ... and no request of a run is answered twice.
OnceInv ==
    ~stale =>
      /\ \A i, j \in DOMAIN agIn :
           agIn[i] = agIn[j] /\ agIn[i].type \in Requests /\ agIn[i].run = ricRun => i = j
      /\ \A i, j \in DOMAIN ricIn :
           ricIn[i] = ricIn[j] /\ ricIn[i].type \in DOMAIN RequestOf /\ ricIn[i].run = ricRun => i = j
      /\ \A i \in DOMAIN agIn, j \in DOMAIN ricIn :
           agIn[i].run = ricRun /\ ricIn[j].run = ricRun /\ ricIn[j].type \in DOMAIN RequestOf =>
             <<agIn[i].type, agIn[i].rid>> # <<RequestOf[ricIn[j].type], ricIn[j].rid>>

\* For every delete request on its way, and for every subscription that may
\* still be deleted, the agent has a timer of that id, or will have read a
\* subscription request of it before.
Subs(rid) == {m \in ToAgent : m.type = "SUB_REQ" /\ m.rid = rid}
Dels(rid) == {m \in ToAgent : m.type = "DEL_REQ" /\ m.rid = rid}
TimersOf(rid) == {p \in indEvent.left : p[2] = rid}
ClaimsInv ==
    spc # "freed" =>
      \A rid \in Rids :
        /\ \A n \in 0 .. Len(agIn) :
             Count(agIn, n, Dels(rid)) <= Cardinality(TimersOf(rid)) + Count(agIn, n, Subs(rid))
        /\ Count(agIn, Len(agIn), Dels(rid)) + (IF rid \in ricSubs THEN 1 ELSE 0)
             + (IF <<"SUB_REQ", rid>> \in ricPending THEN 1 ELSE 0)
           <= Cardinality(TimersOf(rid)) + Count(agIn, Len(agIn), Subs(rid))

AgentInv ==
    /\ TypeOK /\ TimersInStep /\ ReadyOnce /\ PcInv /\ ToCome /\ RunsInv /\ SetupInv
    /\ LinkInv /\ BornInv /\ ExpectedInv /\ OnceInv /\ ClaimsInv /\ AbortsExplained

-----------------------------------------------------------------------------
\* As long as a setup request is pending, a RIC that is up gets to know the
\* node (the resends of PENDING_EVENT), unless it or the agent ends first or a
\* response of an earlier run, read late, stops the timer.
Reconnects ==
    (bi_map_size(pending) > 0 /\ ricUp) ~>
        \/ ricReg \/ ~ricUp \/ apc = "aborted" \/ stopToken
        \/ setupRun \in 1 .. ricRun - 1

\* A subscription's timer keeps reporting: it reaches the head of the ready
\* list again and again, until it is deleted or one of the sides ends.
Reports ==
    \A f \in Fds : (\E p \in indEvent.left : p[1] = f) ~>
        (TimerEvent /\ Head(rdl) = f) \/ (\A p \in indEvent.left : p[1] # f)
          \/ apc = "aborted" \/ stopToken

\* e2_free_agent returns, unless an assert ends the process first: the loop
\* looks at stop_token at least once a second.
StopEnds == stopToken ~> (spc = "freed" \/ apc = "aborted")

\* The assert of find_xapp_map_ric_id ("Not found RIC Request ID") says that a
\* RIC has an entry for every answer or indication that reaches it.
IndicationsKnown == ricAbort # "Not found RIC Request ID"
=============================================================================

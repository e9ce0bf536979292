-------------------------------- MODULE XApp --------------------------------
(***************************************************************************)
(* The threads of one xApp process.  The user's thread calls the           *)
(* synchronous API (e42_xapp_api.c): it sends a request, arms its timer    *)
(* and sleeps on sync_ui until the answer arrives.  The event loop         *)
(* (e2_event_loop_xapp) receives answers and indications and serves the    *)
(* timers.  Two workers take indications from thread safe queues: the      *)
(* dispatcher calls the user's callback, the database worker writes them.  *)
(*                                                                         *)
(* The queues are atomic, as FifoQueue states and TsQueue implements.  The *)
(* RIC is abstracted: it answers in order, or not at all, and sends        *)
(* indications between a subscription response and the delete response     *)
(* (IndicationInSubscription of E2Routing).  A failed assert ends the      *)
(* process; died names it.                                                 *)
(***************************************************************************)
EXTENDS Naturals, Sequences, Functions

CONSTANTS KeySpace,   \* handles that fit a ric_req_id (2^16)
          MaxCalls,   \* bound: reports and controls the user asks for
          MaxInd,     \* bound: indications the RIC sends
          MaxResend   \* bound: setup requests resent

ASSUME XAppAssumption ==
    /\ KeySpace \in Nat /\ MaxCalls \in Nat /\ MaxInd \in Nat /\ MaxResend \in Nat

VARIABLES
    connected,  \* xapp->connected
    act,        \* act_proc: active procedures, by handle
    key,        \* next handle of act_proc
    pend,       \* pending: armed timers, which the map tells apart by type only
    flag,       \* sync.flag_sync, and msg_ack that changes with it
    stopToken,  \* xapp->stop_token
    q,          \* indications in the queue of each worker
    qStop,      \* stop token of each queue
    upc, op,    \* user's thread: program counter, request under way
    lpc, lmsg,  \* event loop: program counter, message being handled
    wpc,        \* workers
    xIn,        \* receive queue of the E42 socket
    toRic,      \* requests on their way to the RIC or being served
    subs,       \* subscriptions the RIC serves
    inds,       \* indications the RIC has sent
    resent,     \* setup requests resent
    died        \* the assert that ended the process, "none" while it runs

xstate == <<connected, act, key, pend, flag, stopToken, q, qStop>>
user == <<upc, op>>
loop == <<lpc, lmsg>>
ric == <<toRic, subs, inds>>
vars == <<xstate, user, loop, wpc, xIn, ric, resent, died>>

Queues == {"disp", "db"}
Calls == {"SUB", "DEL", "CTRL"}
Events == Calls \cup {"SETUP"}
Requests == [ev : Calls, h : Nat] \cup [ev : {"SETUP"}]
Answers == [type : {"ANSWER"}, ev : Calls, h : Nat] \cup [type : {"SETUP_RESP"}]
              \cup [type : {"IND"}, h : Nat]
NoMsg == [type |-> "NONE"]
NoOp == [ev |-> "NONE", h |-> 0]

Init ==
    /\ connected = FALSE /\ act = {} /\ key = 0 /\ pend = {} /\ flag = FALSE
    /\ stopToken = FALSE /\ q = [k \in Queues |-> <<>>] /\ qStop = [k \in Queues |-> FALSE]
    /\ upc = "connect" /\ op = NoOp /\ lpc = "start" /\ lmsg = NoMsg
    /\ wpc = [k \in Queues |-> "pop"] /\ xIn = <<>> /\ toRic = <<>> /\ subs = {}
    /\ inds = 0 /\ resent = 0 /\ died = "none"

Up == died = "none"
Die(why) ==
    /\ died' = why
    /\ UNCHANGED <<xstate, user, loop, wpc, xIn, ric, resent>>

-----------------------------------------------------------------------------
(* The user's thread. *)

\* init_xapp_api polls connected.
UserConnected ==
    /\ Up /\ upc = "connect" /\ connected /\ upc' = "idle"
    /\ UNCHANGED <<xstate, op, loop, wpc, xIn, ric, resent, died>>

\* report_sm_sync_xapp, control_sm_sync_xapp: generate_ric_gen_id
UserRequest(ev) ==
    /\ Up /\ upc = "idle" /\ key < MaxCalls
    /\ IF key < KeySpace
       THEN /\ act' = act \cup {[h |-> key, ev |-> ev]} /\ key' = key + 1
            /\ op' = [ev |-> ev, h |-> key] /\ upc' = "send"
            /\ UNCHANGED <<connected, pend, flag, stopToken, q, qStop, loop, wpc, xIn,
                           ric, resent, died>>
       ELSE Die("Overflow detected")

\* rm_report_sm_sync_xapp, with a handle that report_sm_sync_xapp returned
MutUserUnsubscribeType ==
    /\ Up /\ upc = "idle"
    /\ \E p \in act : /\ p.ev = "SUB" /\ op' = [ev |-> "DEL", h |-> p.h]
                      /\ act' = act \cup {op'}
    /\ upc' = "send"
    /\ UNCHANGED <<connected, key, pend, flag, stopToken, q, qStop, loop, wpc, xIn, ric,
                   resent, died>>
MutUserUnsubscribe ==
    /\ Up /\ upc = "idle"
    /\ \E p \in act : /\ p.ev = "SUB" /\ op' = [ev |-> "DEL", h |-> p.h]
                      /\ act' = act \ {p}
    /\ upc' = "send"
    /\ UNCHANGED <<connected, key, pend, flag, stopToken, q, qStop, loop, wpc, xIn, ric,
                   resent, died>>
UserUnsubscribe ==
    /\ Up /\ upc = "idle"
    /\ \E p \in act : p.ev = "SUB" /\ op' = [ev |-> "DEL", h |-> p.h]
    /\ upc' = "send"
    /\ UNCHANGED <<xstate, loop, wpc, xIn, ric, resent, died>>

\* e2ap_send_bytes_xapp
UserSend ==
    /\ Up /\ upc = "send" /\ upc' = "arm"
    /\ toRic' = Append(toRic, op)
    /\ UNCHANGED <<xstate, op, loop, wpc, xIn, subs, inds, resent, died>>

\* add_pending_event_xapp, after the message has left
UserArm ==
    /\ Up /\ upc = "arm" /\ upc' = "enter"
    /\ pend' = pend \cup {op.ev}
    /\ UNCHANGED <<connected, act, key, flag, stopToken, q, qStop, op, loop, wpc, xIn, ric,
                   resent, died>>

\* cond_wait_sync_ui up to pthread_cond_timedwait: clears the flag, sleeps
MutUserEnter ==
    /\ Up /\ upc = "enter" /\ upc' = "wait"
    /\ UNCHANGED <<xstate, op, loop, wpc, xIn, ric, resent, died>>
UserEnter ==
    /\ Up /\ upc = "enter" /\ upc' = "wait" /\ flag' = FALSE
    /\ UNCHANGED <<connected, act, key, pend, stopToken, q, qStop, op, loop, wpc, xIn, ric,
                   resent, died>>

UserWoken ==
    /\ Up /\ upc = "wait" /\ flag /\ upc' = "woken"
    /\ UNCHANGED <<xstate, op, loop, wpc, xIn, ric, resent, died>>

\* ETIMEDOUT after 6 s: by then the 5 s timer armed before has been served or
\* removed, and the loop that removed it has signalled.
UserTimeout ==
    /\ Up /\ upc = "wait" /\ ~flag /\ op.ev \notin pend /\ lpc # "signal"
    /\ Die("No response from the E2 Node, and neither from epoll")

\* The call returns; a delete or a control removes its procedure first.
UserReturn ==
    /\ Up /\ upc = "woken" /\ upc' = "idle" /\ op' = NoOp
    /\ act' = IF op.ev = "SUB" THEN act ELSE {p \in act : p.h # op.h}
    /\ UNCHANGED <<connected, key, pend, flag, stopToken, q, qStop, loop, wpc, xIn, ric,
                   resent, died>>

\* try_stop_xapp_api: nothing to do while indications wait to be dispatched;
\* otherwise free_e42_xapp, although the loop may dispatch more meanwhile.
UserStop ==
    /\ Up /\ upc = "idle" /\ q["disp"] = <<>> /\ upc' = "stop_token"
    /\ UNCHANGED <<xstate, op, loop, wpc, xIn, ric, resent, died>>

UserStopToken ==
    /\ Up /\ upc = "stop_token" /\ upc' = "stop_loop" /\ stopToken' = TRUE
    /\ UNCHANGED <<connected, act, key, pend, flag, q, qStop, op, loop, wpc, xIn, ric,
                   resent, died>>

\* free_e42_xapp: waits for stopped, frees the shared state, then each queue
\* once its worker has ended, then the xApp itself.
UserFree ==
    /\ Up /\ upc = "stop_loop" /\ lpc = "stopped"
    /\ upc' = "join_disp" /\ qStop' = [qStop EXCEPT !["disp"] = TRUE]
    /\ UNCHANGED <<connected, act, key, pend, flag, stopToken, q, op, loop, wpc, xIn, ric,
                   resent, died>>

UserFreeDispatcher ==
    /\ Up /\ upc = "join_disp" /\ wpc["disp"] = "exit"
    /\ upc' = "join_db" /\ qStop' = [qStop EXCEPT !["db"] = TRUE]
    /\ q' = [q EXCEPT !["disp"] = <<>>]
    /\ UNCHANGED <<connected, act, key, pend, flag, stopToken, op, loop, wpc, xIn, ric,
                   resent, died>>

UserFreeDb ==
    /\ Up /\ upc = "join_db" /\ wpc["db"] = "exit"
    /\ upc' = "freed" /\ q' = [q EXCEPT !["db"] = <<>>]
    /\ UNCHANGED <<connected, act, key, pend, flag, stopToken, qStop, op, loop, wpc, xIn,
                   ric, resent, died>>

-----------------------------------------------------------------------------
(* The event loop. *)

\* start_e42_xapp: e2ap_handle_e42_setup_request_xapp
LoopStart ==
    /\ Up /\ lpc = "start" /\ lpc' = "top"
    /\ toRic' = Append(toRic, [ev |-> "SETUP"]) /\ pend' = pend \cup {"SETUP"}
    /\ UNCHANGED <<connected, act, key, flag, stopToken, q, qStop, user, lmsg, wpc, xIn,
                   subs, inds, resent, died>>

\* The test of stop_token ...
LoopTop ==
    /\ Up /\ lpc = "top"
    /\ lpc' = IF stopToken THEN "stopped" ELSE "poll"
    /\ UNCHANGED <<xstate, user, lmsg, wpc, xIn, ric, resent, died>>

\* ... then epoll_wait, which gives up after a second,
LoopNoEvent ==
    /\ Up /\ lpc = "poll" /\ xIn = <<>> /\ lpc' = "top"
    /\ UNCHANGED <<xstate, user, lmsg, wpc, xIn, ric, resent, died>>

\* ... reports a timer: a setup request is sent again, anything else ends it,
MutLoopTimer(ev) ==
    /\ Up /\ lpc = "poll" /\ ev \in pend /\ resent < MaxResend
    /\ lpc' = "top" /\ toRic' = Append(toRic, [ev |-> "SETUP"]) /\ resent' = resent + 1
    /\ UNCHANGED <<xstate, user, lmsg, wpc, xIn, subs, inds, died>>
LoopTimer(ev) ==
    /\ Up /\ lpc = "poll" /\ ev \in pend
    /\ \/ /\ ev = "SETUP" /\ resent < MaxResend
          /\ lpc' = "top" /\ toRic' = Append(toRic, [ev |-> "SETUP"]) /\ resent' = resent + 1
          /\ UNCHANGED <<xstate, user, lmsg, wpc, xIn, subs, inds, died>>
       \/ ev # "SETUP" /\ Die("Timeout waiting for an answer")

Receives(type) == Up /\ lpc = "poll" /\ xIn # <<>> /\ Head(xIn).type = type

\* ... or a message.  e2ap_handle_e42_setup_response_xapp
LoopSetupResponse ==
    /\ Receives("SETUP_RESP")
    /\ IF connected THEN Die("connected == false")
       ELSE /\ connected' = TRUE /\ pend' = pend \ {"SETUP"}
            /\ lpc' = "top" /\ xIn' = Tail(xIn)
            /\ UNCHANGED <<act, key, flag, stopToken, q, qStop, user, lmsg, wpc, ric, resent, died>>

Registered(h) == \E p \in act : p.h = h

\* The handlers of subscription response, delete response and control ack:
\* find_act_proc ...
LoopAnswer ==
    /\ Receives("ANSWER")
    /\ IF Registered(Head(xIn).h)
       THEN /\ lmsg' = Head(xIn) /\ xIn' = Tail(xIn) /\ lpc' = "rm_pend"
            /\ UNCHANGED <<xstate, user, wpc, ric, resent, died>>
       ELSE Die("ric_req_id not registered in the registry")

\* ... rm_pending_event_xapp ...
MutLoopRmPending ==
    /\ Up /\ lpc = "rm_pend" /\ lmsg.ev \in pend /\ lpc' = "signal"
    /\ UNCHANGED <<xstate, user, lmsg, wpc, xIn, ric, resent, died>>
LoopRmPending ==
    /\ Up /\ lpc = "rm_pend"
    /\ IF lmsg.ev \in pend
       THEN /\ pend' = pend \ {lmsg.ev} /\ lpc' = "signal"
            /\ UNCHANGED <<connected, act, key, flag, stopToken, q, qStop, user, lmsg, wpc,
                           xIn, ric, resent, died>>
       ELSE Die("Trying to extract a key not found in the tree")

\* ... and signal_sync_ui.
LoopSignal ==
    /\ Up /\ lpc = "signal" /\ lpc' = "top"
    /\ flag' = TRUE /\ lmsg' = NoMsg
    /\ UNCHANGED <<connected, act, key, pend, stopToken, q, qStop, user, wpc, xIn, ric,
                   resent, died>>

\* e2ap_handle_indication_xapp: find_act_proc copies the entry, whose
\* e2_node it only references; without an entry the indication is dropped ...
LoopIndication ==
    /\ Receives("IND") /\ xIn' = Tail(xIn)
    /\ IF Registered(Head(xIn).h)
       THEN lmsg' = Head(xIn) /\ lpc' = "write_db"
       ELSE lpc' = "top" /\ UNCHANGED lmsg
    /\ UNCHANGED <<xstate, user, wpc, ric, resent, died>>

\* ... write_db_xapp copies e2_node into the queue of the database ...
LoopWriteDb ==
    /\ Up /\ lpc = "write_db" /\ lpc' = "dispatch"
    /\ q' = [q EXCEPT !["db"] = Append(@, lmsg.h)]
    /\ UNCHANGED <<connected, act, key, pend, flag, stopToken, qStop, user, lmsg, wpc, xIn,
                   ric, resent, died>>

\* ... and send_msg_dispatcher.
LoopDispatch ==
    /\ Up /\ lpc = "dispatch" /\ lpc' = "top" /\ lmsg' = NoMsg
    /\ q' = [q EXCEPT !["disp"] = Append(@, lmsg.h)]
    /\ UNCHANGED <<connected, act, key, pend, flag, stopToken, qStop, user, wpc, xIn, ric,
                   resent, died>>

-----------------------------------------------------------------------------
(* The workers, by the name of their queue. *)

MutWorkerPop(k) ==
    /\ Up /\ wpc[k] = "pop" /\ q[k] # <<>>
    /\ q' = [q EXCEPT ![k] = Tail(@)] /\ wpc' = [wpc EXCEPT ![k] = "use"]
    /\ UNCHANGED <<connected, act, key, pend, flag, stopToken, qStop, user, loop, xIn, ric,
                   resent, died>>
WorkerPop(k) ==
    /\ Up /\ wpc[k] = "pop"
    /\ \/ /\ qStop[k] /\ wpc' = [wpc EXCEPT ![k] = "exit"] /\ UNCHANGED q
       \/ /\ ~qStop[k] /\ q[k] # <<>>
          /\ q' = [q EXCEPT ![k] = Tail(@)] /\ wpc' = [wpc EXCEPT ![k] = "use"]
    /\ UNCHANGED <<connected, act, key, pend, flag, stopToken, qStop, user, loop, xIn, ric,
                   resent, died>>

\* The user's callback, or the write to the database.
WorkerUse(k) ==
    /\ Up /\ wpc[k] = "use" /\ wpc' = [wpc EXCEPT ![k] = "pop"]
    /\ UNCHANGED <<xstate, user, loop, xIn, ric, resent, died>>

-----------------------------------------------------------------------------
(* The RIC, as E2Routing shows it to one xApp. *)

RicAnswer ==
    /\ Up /\ toRic # <<>> /\ toRic' = Tail(toRic)
    /\ LET m == Head(toRic) IN
       IF m.ev = "SETUP"
       THEN xIn' = Append(xIn, [type |-> "SETUP_RESP"]) /\ UNCHANGED subs
       ELSE /\ xIn' = Append(xIn, [type |-> "ANSWER", ev |-> m.ev, h |-> m.h])
            /\ subs' = CASE m.ev = "SUB" -> subs \cup {m.h}
                         [] m.ev = "DEL" -> subs \ {m.h}
                         [] OTHER -> subs
    /\ UNCHANGED <<xstate, user, loop, wpc, inds, resent, died>>

RicIndication ==
    /\ Up /\ inds < MaxInd /\ inds' = inds + 1
    /\ \E h \in subs : xIn' = Append(xIn, [type |-> "IND", h |-> h])
    /\ UNCHANGED <<xstate, user, loop, wpc, toRic, subs, resent, died>>

-----------------------------------------------------------------------------
UserCall ==
    UserConnected \/ UserSend \/ UserArm \/ UserEnter \/ UserWoken \/ UserTimeout
    \/ UserReturn \/ UserStopToken \/ UserFree \/ UserFreeDispatcher \/ UserFreeDb
Loop ==
    LoopStart \/ LoopTop \/ LoopNoEvent \/ LoopSetupResponse \/ LoopAnswer
    \/ LoopRmPending \/ LoopSignal \/ LoopIndication \/ LoopWriteDb \/ LoopDispatch
Worker(k) == WorkerPop(k) \/ WorkerUse(k)

Next ==
    \/ UserCall \/ UserUnsubscribe \/ UserStop \/ Loop \/ RicAnswer \/ RicIndication
    \/ \E ev \in {"SUB", "CTRL"} : UserRequest(ev)
    \/ \E ev \in Events : LoopTimer(ev)
    \/ \E k \in Queues : Worker(k)

Spec == Init /\ [][Next]_vars

\* The threads are scheduled.  A timer that has expired stays readable and
\* epoll_wait serves the descriptors that are ready in turn, so an armed timer
\* is served or removed.  The RIC may never answer, the user may do nothing.
FairSpec ==
    /\ Spec /\ WF_vars(UserCall) /\ WF_vars(Loop)
    /\ \A ev \in Calls : SF_vars(LoopTimer(ev))
    /\ \A k \in Queues : WF_vars(Worker(k))

-----------------------------------------------------------------------------
(* Properties *)

\* The type of every variable.
TypeOK ==
    /\ connected \in BOOLEAN /\ act \subseteq [h : Nat, ev : {"SUB", "CTRL"}] /\ key \in Nat
    /\ pend \subseteq Events /\ flag \in BOOLEAN /\ stopToken \in BOOLEAN
    /\ q \in [Queues -> Seq(Nat)] /\ qStop \in [Queues -> BOOLEAN]
    /\ upc \in {"connect", "idle", "send", "arm", "enter", "wait", "woken", "stop_token",
                "stop_loop", "join_disp", "join_db", "freed"}
    /\ op \in [ev : Calls, h : Nat] \cup {NoOp}
    /\ lpc \in {"start", "top", "poll", "rm_pend", "signal", "write_db", "dispatch", "stopped"}
    /\ lmsg \in Answers \cup {NoMsg}
    /\ wpc \in [Queues -> {"pop", "use", "exit"}]
    /\ xIn \in Seq(Answers) /\ toRic \in Seq(Requests) /\ subs \subseteq Nat
    /\ inds \in Nat /\ resent \in Nat

\* A request, or its answer, that has not reached the handler of the answer.
Unanswered(o) ==
    \/ o \in Range(toRic)
    \/ [type |-> "ANSWER", ev |-> o.ev, h |-> o.h] \in Range(xIn)

\* A synchronous call returns only after the answer to this very request has
\* been handled and its timer stopped: cond_wait_sync_ui never takes the
\* signal of an earlier call for its own.
ReturnMeansAnswered ==
    upc = "woken" => ~Unanswered(op) /\ op.ev \notin pend /\ lpc \notin {"rm_pend", "signal"}

\* A timer armed for a call belongs to the call in progress.  One left behind
\* would end the process five seconds later ("Timeout waiting for ...").
NoStaleTimer ==
    \A ev \in pend \ {"SETUP"} : op.ev = ev /\ upc \in {"enter", "wait"}

\* What can end the process, and when: the handles run out; a setup that was
\* resent is answered twice; the timer of a call expires, which it does only
\* while the answer has not been handled; or the answer was too early, handled
\* before add_pending_event_xapp, or before cond_wait_sync_ui cleared the flag
\* ("Unforeseen path").  The answer of a registered procedure never meets a
\* registry without it ("ric_req_id not registered in the registry").
DeathsExplained ==
    CASE Up -> TRUE
      [] died = "Overflow detected" -> key = KeySpace
      [] died = "connected == false" -> resent > 0
      [] died = "Timeout waiting for an answer" -> op.ev \in pend /\ Unanswered(op)
      [] died = "Trying to extract a key not found in the tree" ->
           upc = "arm" /\ lmsg = [type |-> "ANSWER", ev |-> op.ev, h |-> op.h]
      [] died = "No response from the E2 Node, and neither from epoll" ->
           upc = "wait" /\ ~Unanswered(op)
      [] OTHER -> FALSE

\* Nothing is used after it is freed.  e2ap_handle_indication_xapp uses the
\* e2_node of an entry after find_act_proc has released its mutex: rm_act_proc
\* must not have freed it.  free_e42_xapp frees the shared state when the loop
\* has ended, and each queue and the xApp itself when the worker using it has.
NoUseAfterFree ==
    /\ lpc = "write_db" => Registered(lmsg.h)
    /\ upc \in {"join_disp", "join_db", "freed"} => lpc = "stopped"
    /\ upc \in {"join_db", "freed"} => wpc["disp"] = "exit"
    /\ upc = "freed" => wpc["db"] = "exit"

\* Every synchronous call returns, or an assert ends the process: whatever
\* the RIC does, the user's thread does not sleep for ever.
CallReturns == (upc = "send") ~> (upc = "idle" \/ ~Up)

\* A stop that has begun ends, whatever the loop and the workers were doing.
StopEnds == (upc = "stop_token") ~> (upc = "freed" \/ ~Up)
-----------------------------------------------------------------------------
(* Why the properties hold: an invariant that every step preserves *)

AnswerOf(o) == [type |-> "ANSWER", ev |-> o.ev, h |-> o.h]
Ind(h) == [type |-> "IND", h |-> h]
Subscribed(h) == [h |-> h, ev |-> "SUB"] \in act
InCall == upc \in {"send", "arm", "enter", "wait", "woken"}
InFlight == upc \in {"arm", "enter", "wait"}

\* s holds e at most once.
Once(s, e) == \A i, j \in DOMAIN s : s[i] = e /\ s[j] = e => i = j
\* Every a in s is followed by a b.
Before(s, a, b) == \A i \in DOMAIN s : s[i] = a => \E j \in DOMAIN s : i < j /\ s[j] = b

\* A handle names one procedure, and the call under way is registered.
ProcInv ==
    /\ key <= KeySpace
    /\ \A p1, p2 \in act : p1.h = p2.h => p1 = p2
    /\ \A p \in act : p.h < key
    /\ InCall => /\ op \in [ev : Calls, h : Nat]
                 /\ IF op.ev = "DEL" THEN Subscribed(op.h) ELSE op \in act
    /\ ~InCall => op = NoOp

\* Only the call under way has a request or an answer under way, and one of
\* them at most: sent once, answered once, handled once.
FlightInv ==
    /\ \A m \in Range(toRic) : m.ev # "SETUP" => m = op /\ InFlight
    /\ \A m \in Range(xIn) : m.type = "ANSWER" => m = AnswerOf(op) /\ InFlight
    /\ Once(toRic, op) /\ Once(xIn, AnswerOf(op))
    /\ ~(op \in Range(toRic) /\ AnswerOf(op) \in Range(xIn))
    /\ lpc \in {"rm_pend", "signal"} => lmsg = AnswerOf(op) /\ ~Unanswered(op) /\ InFlight
    /\ lpc = "signal" => upc # "arm"

\* The timer of the call is armed from add_pending_event_xapp until its answer
\* is handled, and sync.flag_sync is raised for an answer that was handled.
TimerInv ==
    /\ upc = "arm" => Unanswered(op) \/ lpc = "rm_pend"
    /\ \A ev \in pend \ {"SETUP"} :
         op.ev = ev /\ upc \in {"enter", "wait"} /\ (Unanswered(op) \/ lpc = "rm_pend")
    /\ upc \in {"enter", "wait"} /\ (Unanswered(op) \/ lpc = "rm_pend") => op.ev \in pend
    /\ upc = "woken" \/ (upc = "wait" /\ flag) =>
         ~Unanswered(op) /\ lpc \notin {"rm_pend", "signal"}

\* What the RIC serves, sends or the loop handles belongs to a subscription
\* that is registered; the indications of one being deleted precede the answer.
IndInv ==
    /\ \A h \in subs : Subscribed(h)
    /\ \A m \in Range(xIn) : m.type = "IND" => Subscribed(m.h)
    /\ lpc \in {"write_db", "dispatch"} =>
         lmsg.type = "IND" /\ lmsg = Ind(lmsg.h) /\ Subscribed(lmsg.h)
    /\ op.ev = "DEL" /\ (InFlight \/ upc = "woken") /\ op \notin Range(toRic) =>
         /\ op.h \notin subs /\ Before(xIn, Ind(op.h), AnswerOf(op))
         /\ lpc \in {"write_db", "dispatch"} /\ lmsg.h = op.h => AnswerOf(op) \in Range(xIn)

\* A setup that was sent once is answered once.
SetupInv ==
    LET req == [ev |-> "SETUP"] resp == [type |-> "SETUP_RESP"] IN
    resent = 0 =>
        /\ lpc = "start" \/ connected => req \notin Range(toRic) /\ resp \notin Range(xIn)
        /\ lpc = "start" => ~connected
        /\ Once(toRic, req) /\ Once(xIn, resp)
        /\ ~(req \in Range(toRic) /\ resp \in Range(xIn))

\* What is torn down has been stopped before.
StopInv ==
    /\ upc \in {"join_disp", "join_db", "freed"} => lpc = "stopped"
    /\ upc \in {"join_db", "freed"} => wpc["disp"] = "exit"
    /\ upc = "freed" => wpc["db"] = "exit"

XAppInv ==
    /\ TypeOK /\ ProcInv /\ FlightInv /\ TimerInv /\ IndInv /\ SetupInv /\ StopInv
    /\ DeathsExplained
=============================================================================

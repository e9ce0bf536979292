------------------------------ MODULE RicStop ------------------------------
(***************************************************************************)
(* Stopping the near-RT RIC while its two threads serve agents and xApps.  *)
(*                                                                         *)
(* free_near_ric stops the RIC thread, frees what the RIC owns, then stops *)
(* the iApp thread and frees what the iApp owns (free_e42_iapp).  Every    *)
(* structure the threads share sits behind a mutex of its own, so a        *)
(* handler is the sequence of the mutexes it locks and unlocks, and freeing*)
(* a structure destroys its mutex.  Locking a destroyed mutex, and         *)
(* destroying a locked one (its assert(rc == 0) fails), is a fault.        *)
(***************************************************************************)
EXTENDS Naturals, Sequences

Threads == {"ric", "iapp"}

\* The structures behind a mutex, by owner.
RicRes == {"ep", "e2_nodes", "conn_e2_nodes", "pending"}
IAppRes == {"iapp_ep", "xapps", "reg_e2_nodes", "map_ric_id"}
Resources == RicRes \cup IAppRes

Lock(r) == [op |-> "lock", res |-> r]
Unlock(r) == [op |-> "unlock", res |-> r]
Use(r) == <<Lock(r), Unlock(r)>>

(* Handlers of the RIC thread *)
RicSetup == Use("ep") \o Use("e2_nodes") \o Use("reg_e2_nodes") \o Use("conn_e2_nodes")
              \o Use("ep")
RicNotifyIApp == Use("map_ric_id") \o Use("xapps") \o Use("iapp_ep")
RicAnswer == Use("ep") \o Use("pending") \o RicNotifyIApp
RicIndication == Use("ep") \o RicNotifyIApp
RicShutdown == Use("ep") \o Use("e2_nodes") \o Use("conn_e2_nodes") \o Use("reg_e2_nodes")
RicTimeout == Use("pending")

(* Handlers of the iApp thread *)
Forward == Use("pending") \o Use("e2_nodes") \o Use("ep")
IAppSetup == Use("iapp_ep") \o Use("reg_e2_nodes") \o Use("xapps") \o Use("iapp_ep")

\* Mutant: the mutex of map_ric_id is never released.
MutRequest == Use("iapp_ep") \o Use("reg_e2_nodes") \o <<Lock("map_ric_id")>> \o Forward

\* map_ric_id stays locked while the request is forwarded.
IAppRequest == Use("iapp_ep") \o Use("reg_e2_nodes")
                 \o <<Lock("map_ric_id")>> \o Forward \o <<Unlock("map_ric_id")>>

IAppDelete == Use("iapp_ep") \o Use("map_ric_id") \o Forward

Handlers(t) ==
    IF t = "ric"
    THEN {RicSetup, RicAnswer, RicIndication, RicShutdown, RicTimeout}
    ELSE {IAppSetup, IAppRequest, IAppDelete}

Stop(t) == [op |-> "token", who |-> t]
Await(t) == [op |-> "await", who |-> t]
Free(r) == [op |-> "free", res |-> r]
FreeAll(s) == [i \in DOMAIN s |-> Free(s[i])]

\* Mutant: the iApp's structures are freed before its thread is awaited.
MutTeardown ==
    <<Stop("ric"), Await("ric")>>
      \o FreeAll(<<"ep", "e2_nodes", "conn_e2_nodes", "pending">>)
      \o <<Stop("iapp")>>
      \o FreeAll(<<"iapp_ep", "xapps", "reg_e2_nodes", "map_ric_id">>)
      \o <<Await("iapp")>>

\* free_near_ric, with stop_iapp_api and free_e42_iapp inside.
Teardown ==
    <<Stop("ric"), Await("ric")>>
      \o FreeAll(<<"ep", "e2_nodes", "conn_e2_nodes", "pending">>)
      \o <<Stop("iapp"), Await("iapp")>>
      \o FreeAll(<<"iapp_ep", "xapps", "reg_e2_nodes", "map_ric_id">>)

VARIABLES
    pc,      \* of the threads: "test", "wait", "handle", "exited"
    prog,    \* what is left of the handler a thread is in
    token,   \* stop_token
    stopped, \* server_stopped and stopped
    live,    \* structures that are not freed
    owner,   \* holder of the mutex of a structure
    step,    \* position of the stopping thread in Teardown, 0 before it starts
    fault    \* who met a freed structure or a locked mutex, and where

vars == <<pc, prog, token, stopped, live, owner, step, fault>>

NoFault == [who |-> "none", res |-> "none"]

Init ==
    /\ pc = [t \in Threads |-> "test"] /\ prog = [t \in Threads |-> <<>>]
    /\ token = [t \in Threads |-> FALSE] /\ stopped = [t \in Threads |-> FALSE]
    /\ live = Resources /\ owner = [r \in Resources |-> "none"]
    /\ step = 0 /\ fault = NoFault

Running == fault = NoFault

-----------------------------------------------------------------------------
(* The event loops *)

\* Mutant: the loop ends without saying so.
MutTest(t) ==
    /\ Running /\ pc[t] = "test"
    /\ pc' = [pc EXCEPT ![t] = IF token[t] THEN "exited" ELSE "wait"]
    /\ UNCHANGED <<prog, token, stopped, live, owner, step, fault>>

Test(t) ==
    /\ Running /\ pc[t] = "test"
    /\ pc' = [pc EXCEPT ![t] = IF token[t] THEN "exited" ELSE "wait"]
    /\ stopped' = [stopped EXCEPT ![t] = token[t]]
    /\ UNCHANGED <<prog, token, live, owner, step, fault>>

\* epoll_wait ran into its timeout.
NoEvent(t) ==
    /\ Running /\ pc[t] = "wait"
    /\ pc' = [pc EXCEPT ![t] = "test"]
    /\ UNCHANGED <<prog, token, stopped, live, owner, step, fault>>

Event(t) ==
    /\ Running /\ pc[t] = "wait"
    /\ \E h \in Handlers(t) : prog' = [prog EXCEPT ![t] = h]
    /\ pc' = [pc EXCEPT ![t] = "handle"]
    /\ UNCHANGED <<token, stopped, live, owner, step, fault>>

\* The next lock or unlock of the handler; a lock waits for its holder.
Handle(t) ==
    /\ Running /\ pc[t] = "handle"
    /\ LET op == Head(prog[t]) IN
         IF op.res \notin live
         THEN /\ fault' = [who |-> t, res |-> op.res]
              /\ UNCHANGED <<pc, prog, owner>>
         ELSE /\ op.op = "lock" => owner[op.res] = "none"
              /\ owner' = [owner EXCEPT ![op.res] = IF op.op = "lock" THEN t ELSE "none"]
              /\ prog' = [prog EXCEPT ![t] = Tail(@)]
              /\ pc' = [pc EXCEPT ![t] = IF Len(prog[t]) = 1 THEN "test" ELSE "handle"]
              /\ UNCHANGED fault
    /\ UNCHANGED <<token, stopped, live, step>>

-----------------------------------------------------------------------------
(* The stopping thread *)

StopStart ==
    /\ Running /\ step = 0
    /\ step' = 1
    /\ UNCHANGED <<pc, prog, token, stopped, live, owner, fault>>

At(op) == Running /\ step \in DOMAIN Teardown /\ Teardown[step].op = op

StopToken ==
    /\ At("token")
    /\ token' = [token EXCEPT ![Teardown[step].who] = TRUE]
    /\ step' = step + 1
    /\ UNCHANGED <<pc, prog, stopped, live, owner, fault>>

StopAwait ==
    /\ At("await") /\ stopped[Teardown[step].who]
    /\ step' = step + 1
    /\ UNCHANGED <<pc, prog, token, stopped, live, owner, fault>>

\* pthread_mutex_destroy fails on a locked mutex.
StopFree ==
    /\ At("free")
    /\ IF owner[Teardown[step].res] # "none"
       THEN /\ fault' = [who |-> "stop", res |-> Teardown[step].res]
            /\ UNCHANGED <<live, step>>
       ELSE /\ live' = live \ {Teardown[step].res}
            /\ step' = step + 1
            /\ UNCHANGED fault
    /\ UNCHANGED <<pc, prog, token, stopped, owner>>

Stopper == StopToken \/ StopAwait \/ StopFree

Loop(t) == Test(t) \/ NoEvent(t) \/ Event(t) \/ Handle(t)

Next == StopStart \/ Stopper \/ \E t \in Threads : Loop(t)

\* The threads keep running, and who waits for a mutex gets it in the end.
Spec == Init /\ [][Next]_vars /\ WF_vars(Stopper)
             /\ \A t \in Threads : WF_vars(Loop(t)) /\ SF_vars(Handle(t))

-----------------------------------------------------------------------------
(* Properties *)

\* A mutex is held exactly by the thread whose handler has still to release
\* it, and never by one that has left its loop.
LocksReleased ==
    \A r \in Resources, t \in Threads :
        owner[r] = t <=>
            \E i \in DOMAIN prog[t] :
                /\ prog[t][i] = Unlock(r)
                /\ \A j \in 1 .. i - 1 : prog[t][j] # Lock(r)

\* The order of the teardown protects the RIC thread from everything, and the
\* iApp thread from the freeing of the iApp's own structures.  What it does not
\* protect is the RIC's structures from a request that the iApp thread forwards
\* while the RIC's are freed and until its own stop: the only way to a fault.
FaultsExplained ==
    fault # NoFault =>
        /\ fault.who # "ric" /\ fault.res \in {"pending", "e2_nodes", "ep"}
        /\ pc["iapp"] = "handle" /\ pc["ric"] = "exited" /\ ~stopped["iapp"]

\* stop_near_ric_api returns: every loop looks at its token again, and neither
\* thread waits for a mutex for ever.
StopEnds == step > 0 ~> (step > Len(Teardown) \/ fault # NoFault)
=============================================================================

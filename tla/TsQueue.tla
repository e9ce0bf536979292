------------------------------ MODULE TsQueue ------------------------------
(***************************************************************************)
(* The thread safe queue of the xApp (ts_queue.c) with the threads that    *)
(* use it: the event loop pushes, a worker pops, the user's thread frees.  *)
(* The worker is the one of the dispatcher (msg_dispatcher_xapp.c), which  *)
(* pops one element at a time, or the one of the database (db.c), which    *)
(* reads the size first and then pops Big, Small or one element.           *)
(*                                                                         *)
(* stop_token and stopped are atomics accessed without the mutex; the ring *)
(* is only accessed with it.  A step is one access to an atomic or one     *)
(* critical section; the worker's section in wait_and_pop_tsq is split     *)
(* where it reads stop_token and where it blocks on the condition variable.*)
(***************************************************************************)
EXTENDS Naturals, Sequences

CONSTANTS Batched,   \* TRUE: the worker of db.c, FALSE: that of the dispatcher
          Small,     \* smaller batch of db.c (10)
          Big,       \* larger batch of db.c (100)
          MaxPush    \* bound: elements pushed

ASSUME TsqAssumption ==
    /\ Batched \in BOOLEAN
    /\ Small \in Nat /\ Big \in Nat /\ 1 < Small /\ Small < Big
    /\ MaxPush \in Nat

VARIABLES
    r,          \* the ring: elements, numbered in the order they are pushed
    pushed,     \* number of elements pushed
    popped,     \* number of elements popped
    mtx,        \* q->mtx: "free", or "worker" inside wait_and_pop_tsq or pop_tsq_*
    stopToken,  \* q->stop_token
    stopped,    \* q->stopped
    wpc,        \* worker
    wn,         \* elements the worker is about to pop
    ppc,        \* event loop: "run", or "done" once it has stopped
    opc         \* thread that frees the queue

vars == <<r, pushed, popped, mtx, stopToken, stopped, wpc, wn, ppc, opc>>

\* Where a worker starts an iteration of its loop.
Start == IF Batched THEN "size" ELSE "lock"

Init ==
    /\ r = <<>> /\ pushed = 0 /\ popped = 0 /\ mtx = "free"
    /\ stopToken = FALSE /\ stopped = FALSE
    /\ wpc = Start /\ wn = 1 /\ ppc = "run" /\ opc = "run"

-----------------------------------------------------------------------------
(* The event loop. *)

\* pthread_cond_signal: a blocked worker has to take the mutex again.
Signal == wpc' = IF wpc = "blocked" THEN "relock" ELSE wpc

MutPush ==
    /\ ppc = "run" /\ mtx = "free" /\ pushed < MaxPush
    /\ pushed' = pushed + 1 /\ r' = Append(r, pushed + 1)
    /\ UNCHANGED <<popped, mtx, stopToken, stopped, wpc, wn, ppc, opc>>
Push ==
    /\ ppc = "run" /\ mtx = "free" /\ pushed < MaxPush
    /\ pushed' = pushed + 1 /\ r' = Append(r, pushed + 1)
    /\ Signal
    /\ UNCHANGED <<popped, mtx, stopToken, stopped, wn, ppc, opc>>

\* e2_event_loop_xapp has ended: nobody pushes any more.
LoopEnds ==
    /\ ppc = "run" /\ ppc' = "done"
    /\ UNCHANGED <<r, pushed, popped, mtx, stopToken, stopped, wpc, wn, opc>>

-----------------------------------------------------------------------------
(* The worker. *)

\* size_tsq, and the choice of how many elements to pop.
MutBatchOrder(sz) == IF sz > Small THEN Big ELSE IF sz > Big THEN Small ELSE 1
Batch(sz) == IF sz > Big THEN Big ELSE IF sz > Small THEN Small ELSE 1

WorkerSize ==
    /\ wpc = "size" /\ mtx = "free"
    /\ wn' = Batch(Len(r)) /\ wpc' = "lock"
    /\ UNCHANGED <<r, pushed, popped, mtx, stopToken, stopped, ppc, opc>>

\* pthread_mutex_lock; pop_tsq_10 and pop_tsq_100 do not wait for elements.
WorkerLock ==
    /\ wpc = "lock" /\ mtx = "free"
    /\ mtx' = "worker" /\ wpc' = IF wn = 1 THEN "check" ELSE "decide"
    /\ UNCHANGED <<r, pushed, popped, stopToken, stopped, wn, ppc, opc>>

\* The condition of the while loop of wait_and_pop_tsq.
MutWorkerCheck ==
    /\ wpc = "check"
    /\ wpc' = IF r = <<>> THEN "block" ELSE "decide"
    /\ UNCHANGED <<r, pushed, popped, mtx, stopToken, stopped, wn, ppc, opc>>
WorkerCheck ==
    /\ wpc = "check"
    /\ wpc' = IF r = <<>> /\ ~stopToken THEN "block" ELSE "decide"
    /\ UNCHANGED <<r, pushed, popped, mtx, stopToken, stopped, wn, ppc, opc>>

\* pthread_cond_wait releases the mutex and blocks in one step ...
WorkerBlock ==
    /\ wpc = "block"
    /\ wpc' = "blocked" /\ mtx' = "free"
    /\ UNCHANGED <<r, pushed, popped, stopToken, stopped, wn, ppc, opc>>

\* ... may return without a signal ...
SpuriousWakeup ==
    /\ wpc = "blocked" /\ wpc' = "relock"
    /\ UNCHANGED <<r, pushed, popped, mtx, stopToken, stopped, wn, ppc, opc>>

\* ... and holds the mutex when it returns.
WorkerRelock ==
    /\ wpc = "relock" /\ mtx = "free"
    /\ wpc' = "check" /\ mtx' = "worker"
    /\ UNCHANGED <<r, pushed, popped, stopToken, stopped, wn, ppc, opc>>

\* The test of stop_token after the wait: give up, unlocking first ...
MutWorkerGiveUp ==
    /\ wpc = "decide" /\ stopToken /\ ~stopped
    /\ stopped' = TRUE
    /\ UNCHANGED <<r, pushed, popped, mtx, stopToken, wpc, wn, ppc, opc>>
WorkerGiveUp ==
    /\ wpc = "decide" /\ stopToken
    /\ wpc' = "give_up" /\ mtx' = "free"
    /\ UNCHANGED <<r, pushed, popped, stopToken, stopped, wn, ppc, opc>>

\* ... or copy the first wn elements, erase them and unlock.
WorkerPop ==
    /\ wpc = "decide" /\ ~stopToken /\ wn <= Len(r)
    /\ popped' = popped + wn /\ r' = SubSeq(r, wn + 1, Len(r))
    /\ wpc' = "use" /\ mtx' = "free"
    /\ UNCHANGED <<pushed, stopToken, stopped, wn, ppc, opc>>

\* The callback, or the writes to the database, outside of the mutex.
WorkerUse ==
    /\ wpc = "use" /\ wpc' = Start
    /\ wn' = 1
    /\ UNCHANGED <<r, pushed, popped, mtx, stopToken, stopped, ppc, opc>>

\* wait_and_pop_tsq and pop_tsq_* set stopped before they return NULL, and
\* worker_thread sets it again after its loop.
WorkerStopped ==
    /\ wpc \in {"give_up", "leave"}
    /\ stopped' = TRUE
    /\ wpc' = IF wpc = "give_up" THEN "leave" ELSE "exit"
    /\ UNCHANGED <<r, pushed, popped, mtx, stopToken, wn, ppc, opc>>

-----------------------------------------------------------------------------
(* The thread that frees the queue: free_tsq, then pthread_join. *)

\* free_e42_xapp calls it once the event loop has stopped.
MutOwnerStop ==
    /\ opc = "run"
    /\ stopToken' = TRUE /\ opc' = "signal"
    /\ UNCHANGED <<r, pushed, popped, mtx, stopped, wpc, wn, ppc>>
OwnerStop ==
    /\ opc = "run" /\ ppc = "done"
    /\ stopToken' = TRUE /\ opc' = "signal"
    /\ UNCHANGED <<r, pushed, popped, mtx, stopped, wpc, wn, ppc>>

MutOwnerSignal ==
    /\ opc = "signal" /\ opc' = "spin"
    /\ Signal
    /\ UNCHANGED <<r, pushed, popped, mtx, stopToken, stopped, wn, ppc>>
OwnerSignal ==
    /\ opc = "signal" /\ mtx = "free" /\ opc' = "spin"
    /\ Signal
    /\ UNCHANGED <<r, pushed, popped, mtx, stopToken, stopped, wn, ppc>>

\* The busy wait for stopped, then seq_free.
OwnerFreeRing ==
    /\ opc = "spin" /\ stopped /\ opc' = "destroy"
    /\ r' = <<>>
    /\ UNCHANGED <<pushed, popped, mtx, stopToken, stopped, wpc, wn, ppc>>

\* pthread_cond_destroy, pthread_mutex_destroy
OwnerDestroy ==
    /\ opc = "destroy" /\ opc' = "join"
    /\ UNCHANGED <<r, pushed, popped, mtx, stopToken, stopped, wpc, wn, ppc>>

\* pthread_join, after which the memory of the queue is released.
OwnerJoin ==
    /\ opc = "join" /\ wpc = "exit" /\ opc' = "released"
    /\ UNCHANGED <<r, pushed, popped, mtx, stopToken, stopped, wpc, wn, ppc>>

Worker ==
    WorkerSize \/ WorkerLock \/ WorkerCheck \/ WorkerBlock \/ WorkerRelock
    \/ WorkerGiveUp \/ WorkerPop \/ WorkerUse \/ WorkerStopped
Owner == OwnerStop \/ OwnerSignal \/ OwnerFreeRing \/ OwnerDestroy \/ OwnerJoin

Next == Push \/ LoopEnds \/ SpuriousWakeup \/ Worker \/ Owner

Spec == Init /\ [][Next]_vars

\* The threads are scheduled; the mutex is handed to a thread that keeps
\* asking for it.  A spurious wakeup or a push need never happen.
FairSpec == Spec /\ WF_vars(Worker) /\ WF_vars(Owner)

-----------------------------------------------------------------------------
(* Properties *)

\* The type of every variable.
TypeOK ==
    /\ r \in Seq(Nat) /\ pushed \in Nat /\ popped \in Nat
    /\ mtx \in {"free", "worker"}
    /\ stopToken \in BOOLEAN /\ stopped \in BOOLEAN
    /\ wpc \in {"size", "lock", "check", "block", "blocked", "relock", "decide",
                "use", "give_up", "leave", "exit"}
    /\ wn \in {1, Small, Big}
    /\ ppc \in {"run", "done"}
    /\ opc \in {"run", "signal", "spin", "destroy", "join", "released"}

\* free_tsq has freed the ring.
Freed == opc \in {"destroy", "join", "released"}

\* Elements leave in the order they were pushed, none lost, none twice: the
\* ring holds exactly those pushed after the last one popped, until seq_free.
InOrder ==
    /\ \A i \in 1 .. Len(r) : r[i] = popped + i
    /\ Len(r) = IF Freed THEN 0 ELSE pushed - popped

\* No lost wakeup: the worker sleeps in pthread_cond_wait only while the ring
\* is empty and free_tsq has not signalled the stop yet.
SleepsOnlyWhenIdle ==
    wpc = "blocked" => r = <<>> /\ opc \in {"run", "signal"}

\* The asserts of pop_tsq_10 and pop_tsq_100 (and the front of the ring in
\* wait_and_pop_tsq) hold although the size was read in another section.
PopHasElements ==
    wpc = "decide" /\ ~stopToken => wn <= Len(r)

\* The worker neither holds nor asks for the mutex or the ring once free_tsq
\* frees them, and has exited when the memory that holds stopped is released.
NoUseAfterFree ==
    /\ Freed => wpc \in {"leave", "exit"} /\ mtx = "free"
    /\ opc = "released" => wpc = "exit"

\* The inductive invariant of TsQueueProofs: the four properties above, who
\* holds the mutex, how far stopping has come, and that what the worker saw
\* before it blocked or before it pops a batch still holds.
MutexHeld == mtx = "worker" <=> wpc \in {"check", "block", "decide"}
StopStages ==
    /\ stopToken <=> opc # "run"
    /\ opc # "run" => ppc = "done"
    /\ wpc \in {"give_up", "leave", "exit"} => stopToken
    /\ stopped <=> wpc \in {"leave", "exit"}
    /\ Freed => stopped
    /\ opc = "released" => wpc = "exit"
StillIdle == wpc \in {"block", "blocked"} => r = <<>> /\ opc \in {"run", "signal"}
BatchReady ==
    /\ wpc \in {"check", "block", "blocked", "relock"} => wn = 1
    /\ wpc = "lock" /\ wn # 1 => wn <= Len(r)
    /\ wpc = "decide" /\ (wn # 1 \/ ~stopToken) => wn <= Len(r)
TsqInv == InOrder /\ MutexHeld /\ StopStages /\ StillIdle /\ BatchReady

\* free_tsq and the join that follows end, whatever the worker was doing.
StopTerminates == (opc = "signal") ~> (opc = "released")

\* Every element is popped unless the queue is stopped first.
Delivered ==
    \A n \in 1 .. MaxPush : (pushed >= n) ~> (popped >= n \/ stopToken)

\* The queue implements FifoQueue: elements enter and leave atomically, in
\* order, and stopping and freeing are its Close and Discard.
Queue == INSTANCE FifoQueue WITH
    items <- r, put <- pushed, taken <- popped,
    phase <- IF opc = "run" THEN "open" ELSE IF Freed THEN "freed" ELSE "closed"

ImplementsFifo == Queue!Spec

=============================================================================

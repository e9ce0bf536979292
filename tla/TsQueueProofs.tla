--------------------------- MODULE TsQueueProofs ---------------------------
(***************************************************************************)
(* For every batch size and every number of pushes: the thread safe queue  *)
(* is type correct, its inductive invariant holds, its safety properties   *)
(* follow from it, and it implements FifoQueue.                            *)
(***************************************************************************)
EXTENDS TsQueue, TLAPS

-----------------------------------------------------------------------------
(* Type correctness *)

\* The queue returned by init_tsq is of the right type.
LEMMA InitType == Init => TypeOK
<1>1. Start \in {"size", "lock"}
  BY DEF Start
<1>2. ASSUME Init PROVE r \in Seq(Nat)
  BY <1>2 DEF Init
<1>3. ASSUME Init PROVE stopToken \in BOOLEAN /\ stopped \in BOOLEAN
  BY <1>3 DEF Init
<1>4. ASSUME Init PROVE /\ pushed \in Nat /\ popped \in Nat /\ mtx \in {"free", "worker"}
                        /\ wn \in {1, Small, Big}
                        /\ ppc \in {"run", "done"} /\ opc = "run" /\ wpc = Start
  BY <1>4 DEF Init
<1> QED
  BY <1>1, <1>2, <1>3, <1>4 DEF TypeOK

\* Every step of the event loop, the worker or the owner keeps the types.
LEMMA NextType == TypeOK /\ [Next]_vars => TypeOK'
<1> SUFFICES ASSUME TypeOK, [Next]_vars PROVE TypeOK'
  OBVIOUS
<1> USE TsqAssumption DEF TsqAssumption, TypeOK
<1>1. CASE Push
  BY <1>1 DEF Push, Signal
<1>2. CASE LoopEnds
  BY <1>2 DEF LoopEnds
<1>3. CASE SpuriousWakeup
  BY <1>3 DEF SpuriousWakeup
<1>4. CASE WorkerSize
  BY <1>4 DEF WorkerSize, Batch
<1>5. CASE WorkerLock
  BY <1>5 DEF WorkerLock
<1>6. CASE WorkerCheck
  BY <1>6 DEF WorkerCheck
<1>7. CASE WorkerBlock
  BY <1>7 DEF WorkerBlock
<1>8. CASE WorkerRelock
  BY <1>8 DEF WorkerRelock
<1>9. CASE WorkerGiveUp
  BY <1>9 DEF WorkerGiveUp
<1>10. CASE WorkerPop
  BY <1>10 DEF WorkerPop
<1>11. CASE WorkerUse
  <2>1. Start \in {"size", "lock"}
    BY DEF Start
  <2> QED
    BY <1>11, <2>1 DEF WorkerUse
<1>12. CASE WorkerStopped
  BY <1>12 DEF WorkerStopped
<1>13. CASE Owner
  <2>1. CASE OwnerStop
    BY <2>1 DEF OwnerStop
  <2>2. CASE OwnerSignal
    BY <2>2 DEF OwnerSignal, Signal
  <2>3. CASE OwnerFreeRing
    <3>1. r' \in Seq(Nat)
      BY <2>3 DEF OwnerFreeRing
    <3> QED
      BY <2>3, <3>1 DEF OwnerFreeRing
  <2>4. CASE OwnerDestroy
    BY <2>4 DEF OwnerDestroy
  <2>5. CASE OwnerJoin
    BY <2>5 DEF OwnerJoin
  <2> QED
    BY <1>13, <2>1, <2>2, <2>3, <2>4, <2>5 DEF Owner
<1>14. CASE UNCHANGED vars
  BY <1>14 DEF vars
<1> QED
  BY <1>1, <1>2, <1>3, <1>4, <1>5, <1>6, <1>7, <1>8, <1>9, <1>10, <1>11, <1>12,
     <1>13, <1>14 DEF Next, Worker

\* The queue is always of the right type.
THEOREM TsqTypeCorrect == Spec => []TypeOK
<1>1. Init => TypeOK
  BY InitType
<1>2. TypeOK /\ [Next]_vars => TypeOK'
  BY NextType
<1> QED
  BY <1>1, <1>2, PTL DEF Spec

-----------------------------------------------------------------------------
(* The inductive invariant *)

\* What SubSeq leaves of a sequence from position n + 1 on.
LEMMA SubSeqTail ==
  ASSUME NEW s \in Seq(Nat), NEW n \in Nat, n <= Len(s)
  PROVE  /\ Len(SubSeq(s, n + 1, Len(s))) = Len(s) - n
         /\ \A i \in 1 .. Len(s) - n : SubSeq(s, n + 1, Len(s))[i] = s[n + i]
  OBVIOUS

\* A fresh queue is in order, unlocked and not stopping.
LEMMA InitInv == Init => TsqInv
  BY DEF Init, Start, TsqInv, InOrder, Freed, MutexHeld, StopStages, StillIdle, BatchReady

\* Every step keeps the invariant.
LEMMA NextInv == TypeOK /\ TsqInv /\ [Next]_vars => TsqInv'
<1> SUFFICES ASSUME TypeOK, TsqInv, [Next]_vars PROVE TsqInv'
  OBVIOUS
<1> USE TsqAssumption DEF TsqAssumption, TypeOK, TsqInv, InOrder, Freed, MutexHeld, StopStages,
        StillIdle, BatchReady
<1>1. CASE Push
  <2>1. opc = "run" /\ ~Freed
    BY <1>1 DEF Push
  <2>2. Len(r') = Len(r) + 1 /\ r' # <<>>
    BY <1>1 DEF Push
  <2>3. \A i \in 1 .. Len(r') : r'[i] = popped + i
    <3> TAKE i \in 1 .. Len(r')
    <3>1. CASE i = Len(r) + 1
      <4>1. r'[i] = pushed + 1
        BY <1>1, <3>1 DEF Push
      <4>2. Len(r) = pushed - popped
        BY <2>1
      <4> QED
        BY <3>1, <4>1, <4>2
    <3>2. CASE i \in 1 .. Len(r)
      BY <1>1, <3>2 DEF Push
    <3> QED
      BY <2>2, <3>1, <3>2
  <2> QED
    BY <1>1, <2>1, <2>2, <2>3 DEF Push, Signal
<1>2. CASE LoopEnds
  BY <1>2 DEF LoopEnds
<1>3. CASE SpuriousWakeup
  BY <1>3 DEF SpuriousWakeup
<1>4. CASE WorkerSize
  BY <1>4 DEF WorkerSize, Batch
<1>5. CASE WorkerLock
  BY <1>5 DEF WorkerLock
<1>6. CASE WorkerCheck
  BY <1>6 DEF WorkerCheck
<1>7. CASE WorkerBlock
  BY <1>7 DEF WorkerBlock
<1>8. CASE WorkerRelock
  BY <1>8 DEF WorkerRelock
<1>9. CASE WorkerGiveUp
  BY <1>9 DEF WorkerGiveUp
<1>10. CASE WorkerPop
  <2>1. wn \in Nat /\ wn <= Len(r) /\ opc = "run"
    BY <1>10 DEF WorkerPop
  <2>2. /\ Len(r') = Len(r) - wn
        /\ \A i \in 1 .. Len(r) - wn : r'[i] = r[wn + i]
    BY <1>10, <2>1, SubSeqTail DEF WorkerPop
  <2>3. \A i \in 1 .. Len(r') : r'[i] = popped' + i
    BY <1>10, <2>1, <2>2 DEF WorkerPop
  <2> QED
    BY <1>10, <2>1, <2>2, <2>3 DEF WorkerPop
<1>11. CASE WorkerUse
  BY <1>11 DEF WorkerUse, Start
<1>12. CASE WorkerStopped
  BY <1>12 DEF WorkerStopped
<1>13. CASE OwnerStop
  BY <1>13 DEF OwnerStop
<1>14. CASE OwnerSignal
  BY <1>14 DEF OwnerSignal, Signal
<1>15. CASE OwnerFreeRing
  BY <1>15 DEF OwnerFreeRing
<1>16. CASE OwnerDestroy
  BY <1>16 DEF OwnerDestroy
<1>17. CASE OwnerJoin
  BY <1>17 DEF OwnerJoin
<1>18. CASE UNCHANGED vars
  BY <1>18 DEF vars
<1> QED
  BY <1>1, <1>2, <1>3, <1>4, <1>5, <1>6, <1>7, <1>8, <1>9, <1>10, <1>11, <1>12,
     <1>13, <1>14, <1>15, <1>16, <1>17, <1>18 DEF Next, Worker, Owner

\* The inductive invariant holds in every reachable state.
THEOREM TsqInvariant == Spec => []TsqInv
<1>1. Init => TypeOK /\ TsqInv
  BY InitType, InitInv
<1>2. (TypeOK /\ TsqInv) /\ [Next]_vars => (TypeOK /\ TsqInv)'
  BY NextType, NextInv
<1> QED
  BY <1>1, <1>2, PTL DEF Spec

\* No element is lost, repeated or overtaken in the ring.
THEOREM TsqInOrder == Spec => []InOrder
<1>1. TsqInv => InOrder
  BY DEF TsqInv
<1> QED
  BY <1>1, TsqInvariant, PTL

\* No wakeup is lost: a sleeping worker has nothing to do.
THEOREM TsqNoLostWakeup == Spec => []SleepsOnlyWhenIdle
<1>1. TsqInv => SleepsOnlyWhenIdle
  BY DEF TsqInv, StillIdle, SleepsOnlyWhenIdle
<1> QED
  BY <1>1, TsqInvariant, PTL

\* A worker that has read the size finds as many elements when it pops.
THEOREM TsqPopHasElements == Spec => []PopHasElements
<1>1. TsqInv => PopHasElements
  BY DEF TsqInv, BatchReady, PopHasElements
<1> QED
  BY <1>1, TsqInvariant, PTL

\* Nobody touches the ring, the mutex or the memory once it is given back.
THEOREM TsqNoUseAfterFree == Spec => []NoUseAfterFree
<1>1. TypeOK /\ TsqInv => NoUseAfterFree
  BY DEF TypeOK, TsqInv, StopStages, MutexHeld, Freed, NoUseAfterFree
<1> QED
  BY <1>1, TsqInvariant, TsqTypeCorrect, PTL

-----------------------------------------------------------------------------
(* Refinement *)

\* Under the refinement mapping every step is a step of FifoQueue or a stutter.
LEMMA NextRefines ==
  TypeOK /\ TsqInv /\ [Next]_vars => [Queue!Next]_(Queue!vars)
<1> SUFFICES ASSUME TypeOK, TsqInv, [Next]_vars
             PROVE  [Queue!Next]_(Queue!vars)
  OBVIOUS
<1> USE TsqAssumption DEF TsqAssumption, TypeOK, TsqInv, Freed, StopStages, Queue!vars
<1>1. CASE Push
  <2>1. opc = "run"
    BY <1>1 DEF Push
  <2>2. Queue!Put
    BY <1>1, <2>1 DEF Push, Queue!Put
  <2> QED
    BY <2>2 DEF Queue!Next
<1>2. CASE WorkerPop
  <2>1. wn \in 1 .. Len(r) /\ opc = "run"
    BY <1>2 DEF WorkerPop, BatchReady
  <2>2. Queue!Take(wn)
    BY <1>2, <2>1 DEF WorkerPop, InOrder, Queue!Take
  <2> QED
    BY <2>1, <2>2 DEF Queue!Next
<1>3. CASE OwnerStop
  <2>1. Queue!Close
    BY <1>3 DEF OwnerStop, Queue!Close
  <2> QED
    BY <2>1 DEF Queue!Next
<1>4. CASE OwnerFreeRing
  <2>1. Queue!Discard
    BY <1>4 DEF OwnerFreeRing, Queue!Discard
  <2> QED
    BY <2>1 DEF Queue!Next
<1>5. CASE LoopEnds \/ SpuriousWakeup
  BY <1>5 DEF LoopEnds, SpuriousWakeup
<1>6. CASE WorkerSize \/ WorkerLock \/ WorkerCheck \/ WorkerBlock \/ WorkerRelock
           \/ WorkerGiveUp \/ WorkerUse \/ WorkerStopped
  BY <1>6 DEF WorkerSize, WorkerLock, WorkerCheck, WorkerBlock, WorkerRelock,
              WorkerGiveUp, WorkerUse, WorkerStopped
<1>7. CASE OwnerSignal \/ OwnerDestroy \/ OwnerJoin
  BY <1>7 DEF OwnerSignal, OwnerDestroy, OwnerJoin
<1>8. CASE UNCHANGED vars
  BY <1>8 DEF vars
<1> QED
  BY <1>1, <1>2, <1>3, <1>4, <1>5, <1>6, <1>7, <1>8 DEF Next, Worker, Owner

\* The queue with its mutex, its condition variable and its atomics
\* implements the atomic queue that its users rely on.
THEOREM TsqImplementsFifo == Spec => ImplementsFifo
<1>1. Init => Queue!Init
  BY DEF Init, Queue!Init
<1>2. TypeOK /\ TsqInv /\ [Next]_vars => [Queue!Next]_(Queue!vars)
  BY NextRefines
<1> QED
  BY <1>1, <1>2, TsqTypeCorrect, TsqInvariant, PTL DEF Spec, Queue!Spec, ImplementsFifo
=============================================================================

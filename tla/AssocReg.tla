------------------------------ MODULE AssocReg -----------------------------
(***************************************************************************)
(* The registry of the xApp's procedures (assoc_reg.c with find_reg and    *)
(* lower_bound_reg): an array of buckets in the order of their keys, which *)
(* the registry hands out.  Erasing leaves holes; the array is compacted,  *)
(* shrunk and expanded as necessary.  An iterator is a bucket number.      *)
(***************************************************************************)
EXTENDS Integers, Sequences, SequencesExt, FiniteSets

CONSTANTS RegMin,    \* MIN_SIZE (16)
          RegMax     \* bound: keys handed out

ASSUME RegAssumption == RegMin \in Nat \ {0} /\ RegMax \in Nat

VARIABLES
    areg,      \* buckets up to occ_bucket, sz, cap and key_id
    aregRef,   \* the keys handed out and not erased
    aregPc     \* "up" or "freed"

regVars == <<areg, aregRef, aregPc>>

RegInit ==
    /\ areg = [arr |-> <<>>, sz |-> 0, cap |-> RegMin, keyId |-> 1]
    /\ aregRef = {} /\ aregPc = "up"

HasValue(b) == b.has

\* copy_if and partition keep the buckets with a value, in their order.
Compacted(r) == [r EXCEPT !.arr = SelectSeq(@, HasValue)]

ExpandIfNecessary(r) ==
    IF Len(r.arr) < r.cap - 1 THEN r ELSE [Compacted(r) EXCEPT !.cap = 2 * @]

CompactIfNecessary(r) == IF r.sz * 2 > Len(r.arr) THEN r ELSE Compacted(r)

ShrinkIfNecessary(r) ==
    IF r.cap = RegMin \/ r.sz * 4 > r.cap THEN r ELSE [Compacted(r) EXCEPT !.cap = @ \div 2]

RegPushBack ==
    /\ aregPc = "up" /\ areg.keyId <= RegMax
    /\ LET r == ExpandIfNecessary(areg) IN
         areg' = [r EXCEPT !.arr = Append(@, [key |-> r.keyId, has |-> TRUE]),
                           !.keyId = @ + 1, !.sz = @ + 1]
    /\ aregRef' = aregRef \cup {areg.keyId}
    /\ UNCHANGED aregPc

\* The first bucket with a value from number i on, the end if there is none.
FirstFrom(r, i) == SelectInSubSeq(r.arr, i, Len(r.arr), HasValue)

RegEnd(r) == Len(r.arr) + 1
RegFront(r) == IF FirstFrom(r, 1) = 0 THEN RegEnd(r) ELSE FirstFrom(r, 1)
RegSucc(r, i) == IF FirstFrom(r, i + 1) = 0 THEN RegEnd(r) ELSE FirstFrom(r, i + 1)

\* assoc_reg_erase of the range [i, j).
RegErase(i, j) ==
    /\ aregPc = "up"
    /\ i \in DOMAIN areg.arr /\ areg.arr[i].has
    /\ i < j /\ j \in RegSucc(areg, i) .. RegEnd(areg)
    /\ j # RegEnd(areg) => areg.arr[j].has
    /\ LET erased == {n \in i .. j - 1 : areg.arr[n].has}
           holes == [n \in DOMAIN areg.arr |->
                       IF n \in erased THEN [areg.arr[n] EXCEPT !.has = FALSE] ELSE areg.arr[n]] IN
         /\ areg' = ShrinkIfNecessary(CompactIfNecessary(
                      [areg EXCEPT !.arr = holes, !.sz = @ - Cardinality(erased)]))
         /\ aregRef' = aregRef \ {areg.arr[n].key : n \in erased}
    /\ UNCHANGED aregPc

RegFree == aregPc = "up" /\ aregPc' = "freed" /\ UNCHANGED <<areg, aregRef>>

RegNext ==
    RegPushBack \/ RegFree \/ \E i \in 1 .. RegMax, j \in 1 .. RegMax + 1 : RegErase(i, j)

-----------------------------------------------------------------------------
(* Search *)

MutHalve(r, start, key, lower, len) ==
    LET half == len \div 2 IN
      IF r.arr[start + lower + half].key < key
      THEN <<lower + half + 1, len - half - 1>> ELSE <<lower, half - 1>>

\* One iteration of the loop of lower_bound_reg: the next lower and len.
Halve(r, start, key, lower, len) ==
    LET half == len \div 2 IN
      IF r.arr[start + lower + half].key < key
      THEN <<lower + half + 1, len - half - 1>> ELSE <<lower, half>>

LowerBound(r, start, key) ==
    LET n == RegEnd(r) - start
        search[lo \in 0 .. n, len \in -1 .. n] ==
          IF len <= 0 THEN lo
          ELSE LET h == Halve(r, start, key, lo, len) IN search[h[1], h[2]]
    IN  start + search[0, n]

\* find_reg from the front, as find_act_proc and rm_act_proc call it.
FindReg(r, key) ==
    LET it == LowerBound(r, RegFront(r), key) IN
      IF RegFront(r) = RegEnd(r) \/ it = RegEnd(r) THEN RegEnd(r)
      ELSE IF ~r.arr[it].has \/ r.arr[it].key # key THEN RegEnd(r) ELSE it

-----------------------------------------------------------------------------
\* test_invariants_registry_hold: buckets are in the order of their keys, sz
\* counts those with a value, and the array is never full, so that
\* lower_bound_reg's "iterator out of the range" cannot fail.
RegInvariants ==
    /\ Len(areg.arr) < areg.cap
    /\ \A i, j \in DOMAIN areg.arr : i < j => areg.arr[i].key < areg.arr[j].key
    /\ areg.sz = Cardinality({i \in DOMAIN areg.arr : areg.arr[i].has})

\* find_reg finds exactly the keys that were handed out and not erased: the
\* binary search sees holes (whose stale keys it compares) and moved buckets.
RegFindsLiveKeys ==
    /\ RegInvariants
    /\ \A k \in 1 .. areg.keyId :
         LET it == FindReg(areg, k) IN
           IF k \in aregRef THEN it # RegEnd(areg) /\ areg.arr[it].key = k
           ELSE it = RegEnd(areg)
=============================================================================

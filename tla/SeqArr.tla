------------------------------- MODULE SeqArr ------------------------------
(***************************************************************************)
(* The growing and shrinking array of seq_arr.c, by its sizes: the number  *)
(* of elements, the capacity in elements, and the bytes allocated.         *)
(***************************************************************************)
EXTENDS Naturals

CONSTANTS ArrMin,    \* MIN_SIZE (8)
          ArrElt,    \* elt_size, the bytes of an element
          ArrMax     \* bound: elements of the array

ASSUME ArrAssumption == ArrMin \in Nat \ {0} /\ ArrElt \in Nat \ {0} /\ ArrMax \in Nat

VARIABLE arr   \* size, cap, bytes, and whether the process still runs

ArrInit == arr = [size |-> 0, cap |-> ArrMin, bytes |-> ArrMin * ArrElt, pc |-> "up"]

\* maybe_expand reallocates one element before the array is full.
MaybeExpand(a) ==
    IF a.size + 1 = a.cap
    THEN [a EXCEPT !.cap = 2 * @, !.bytes = 2 * a.cap * ArrElt]
    ELSE a

MutMaybeShrink(a) ==
    IF a.size > ArrMin /\ 2 * a.size < a.cap
    THEN [a EXCEPT !.cap = @ \div 4, !.bytes = (a.cap \div 4) * (a.cap \div 4)]
    ELSE a

\* maybe_shrink: calloc(tmp.cap, tmp.cap).
MaybeShrink(a) ==
    IF a.size > ArrMin /\ 4 * a.size < a.cap
    THEN IF a.cap > ArrMin /\ a.size <= a.cap \div 2
         THEN [a EXCEPT !.cap = @ \div 2, !.bytes = (a.cap \div 2) * (a.cap \div 2)]
         ELSE [a EXCEPT !.pc = "aborted"]
    ELSE a

ArrPushBack ==
    /\ arr.pc = "up" /\ arr.size < ArrMax
    /\ arr' = [MaybeExpand(arr) EXCEPT !.size = @ + 1]

\* seq_arr_erase of n elements, wherever they are.
ArrErase(n) ==
    /\ arr.pc = "up" /\ n <= arr.size
    /\ arr' = MaybeShrink([arr EXCEPT !.size = @ - n])

ArrFree == arr.pc = "up" /\ arr' = [arr EXCEPT !.pc = "freed"]

ArrNext == ArrPushBack \/ (\E n \in 1 .. ArrMax : ArrErase(n)) \/ ArrFree

ArrSpec == ArrInit /\ [][ArrNext]_arr

-----------------------------------------------------------------------------
\* Growing and shrinking in any order keep a slot free behind the elements
\* (seq_end stays inside the array) and never fail an assert of maybe_shrink.
ArrHasRoom == arr.size < arr.cap /\ arr.pc # "aborted"

\* The elements fit into the memory allocated for them: the capacity is a
\* number of elements ("assert(arr->size <= tmp.cap)", seq_arr.c).
ArrFits == arr.size * ArrElt <= arr.bytes
=============================================================================

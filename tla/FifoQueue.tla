----------------------------- MODULE FifoQueue -----------------------------
(***************************************************************************)
(* What the thread safe queue promises its two users, the dispatcher of    *)
(* indications and the database writer of an xApp: elements leave in the   *)
(* order they entered, once each, until the queue is closed; what is left  *)
(* when it is freed is discarded, and nothing leaves a freed queue.        *)
(* Elements are numbered in the order they are put in.                     *)
(***************************************************************************)
EXTENDS Naturals, Sequences

VARIABLES items,   \* elements in the queue
          put,     \* number of elements put in
          taken,   \* number of elements taken out
          phase    \* "open", "closed" or "freed"

vars == <<items, put, taken, phase>>

Init == items = <<>> /\ put = 0 /\ taken = 0 /\ phase = "open"

Put ==
    /\ phase = "open"
    /\ put' = put + 1 /\ items' = Append(items, put + 1)
    /\ UNCHANGED <<taken, phase>>

\* The n elements at the front are those that follow the last one taken.
Take(n) ==
    /\ phase # "freed"
    /\ \A i \in 1 .. n : items[i] = taken + i
    /\ taken' = taken + n /\ items' = SubSeq(items, n + 1, Len(items))
    /\ UNCHANGED <<put, phase>>

Close == phase = "open" /\ phase' = "closed" /\ UNCHANGED <<items, put, taken>>

Discard ==
    /\ phase = "closed" /\ phase' = "freed"
    /\ items' = <<>> /\ UNCHANGED <<put, taken>>

Next == Put \/ (\E n \in 1 .. Len(items) : Take(n)) \/ Close \/ Discard

Spec == Init /\ [][Next]_vars
=============================================================================

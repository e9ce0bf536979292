------------------------------ MODULE SeqRing ------------------------------
(***************************************************************************)
(* The growing ring buffer under the thread safe queue (seq_ring.c).  head *)
(* and tail are uint32_t counters that only grow, until they wrap; an      *)
(* iterator is a position of the array.                                    *)
(***************************************************************************)
EXTENDS Naturals, Sequences

CONSTANTS RingElts,      \* elements
          RingDefault,   \* DEFAULT_ELM (32)
          UINT32,        \* number of values of a uint32_t (2^32)
          RingMaxCap     \* bound: the capacity the ring may grow to

ASSUME RingAssumption ==
    /\ RingDefault \in Nat \ {0} /\ UINT32 \in Nat /\ RingMaxCap \in Nat
    /\ \E n \in 1 .. 64 : RingDefault = 2 ^ n   \* mask needs a power of two
    /\ RingDefault <= RingMaxCap /\ RingMaxCap < UINT32
    /\ UINT32 % RingDefault = 0                  \* powers of two: as long as a
    /\ \A c \in 1 .. RingMaxCap :               \* capacity is smaller, it divides
         UINT32 % c = 0 /\ 2 * c <= RingMaxCap => UINT32 % (2 * c) = 0

VARIABLES
    ring,      \* array, capacity, head and tail
    ringRef,   \* the elements pushed and not erased, in order
    ringPc     \* "up", "freed" or "aborted"

ringVars == <<ring, ringRef, ringPc>>

Zeroed(n) == [i \in 0 .. n - 1 |-> 0]

RingInit ==
    /\ ring = [arr |-> Zeroed(RingDefault), cap |-> RingDefault, head |-> 0, tail |-> 0]
    /\ ringRef = <<>> /\ ringPc = "up"

Mask(r, val) == val % r.cap
RingSize(r) == (r.head + UINT32 - r.tail) % UINT32
Full(r) == RingSize(r) = r.cap - 1

RingFront(r) == Mask(r, r.tail)
RingEnd(r) == Mask(r, r.head)
RingSucc(r, pos) == IF pos + 1 = r.cap THEN 0 ELSE pos + 1
RingAt(r, i) == Mask(r, (r.tail + i) % UINT32)

\* enlarge_buffer: the elements move to the start of an array twice as large.
MutEnlarge(r) ==
    LET t == Mask(r, r.tail) IN
      [arr |-> [i \in 0 .. 2 * r.cap - 1 |-> IF i < r.cap - t THEN r.arr[t + i] ELSE 0],
       cap |-> 2 * r.cap, tail |-> 0, head |-> r.cap - 1]

Enlarge(r) ==
    LET h == Mask(r, r.head)
        t == Mask(r, r.tail)
        moved(i) == IF h > t
                    THEN IF i < h - t THEN r.arr[t + i] ELSE 0
                    ELSE IF i < r.cap - t THEN r.arr[t + i]
                    ELSE IF i < r.cap - t + h THEN r.arr[i - (r.cap - t)] ELSE 0 IN
      [arr |-> [i \in 0 .. 2 * r.cap - 1 |-> moved(i)],
       cap |-> 2 * r.cap, tail |-> 0, head |-> r.cap - 1]

RingPushBack(e) ==
    /\ ringPc = "up" /\ (Full(ring) => 2 * ring.cap <= RingMaxCap)
    /\ LET r == IF Full(ring) THEN Enlarge(ring) ELSE ring IN
         ring' = [r EXCEPT !.arr = [@ EXCEPT ![Mask(r, r.head)] = e], !.head = (@ + 1) % UINT32]
    /\ ringRef' = Append(ringRef, e)
    /\ UNCHANGED ringPc

Erased(r, last) ==
    LET first == RingFront(r)
        gone(i) == IF last > first THEN first <= i /\ i < last ELSE first <= i \/ i < last IN
      [r EXCEPT !.arr = [i \in DOMAIN @ |-> IF gone(i) THEN 0 ELSE @[i]],
                !.tail = (@ + (IF last > first THEN last - first
                               ELSE r.cap - first + last)) % UINT32]

\* Erases the first n elements; the iterator was advanced n times.
RingErase(n) ==
    /\ ringPc = "up" /\ n <= Len(ringRef)
    /\ LET last == (RingFront(ring) + n) % ring.cap
           r == Erased(ring, last) IN
         IF Mask(r, r.tail) = last
         THEN ring' = r /\ ringRef' = SubSeq(ringRef, n + 1, Len(ringRef)) /\ UNCHANGED ringPc
         ELSE ringPc' = "aborted" /\ UNCHANGED <<ring, ringRef>>

RingFree == ringPc = "up" /\ ringPc' = "freed" /\ UNCHANGED <<ring, ringRef>>

RingNext ==
    \/ \E e \in RingElts : RingPushBack(e)
    \/ \E n \in 1 .. RingMaxCap : RingErase(n)
    \/ RingFree

RingSpec == RingInit /\ [][RingNext]_ringVars

-----------------------------------------------------------------------------
\* The ring is the sequence of what was pushed and not erased: by size, by
\* seq_ring_at, and by the iterators from front to end, whose number tells an
\* empty ring from a full one; also when it grew around the end of its array
\* and when the 32-bit counters have wrapped.  The asserts of seq_ring_erase
\* hold, and slots without an element are zeroed, as calloc left them.
RingHoldsSequence ==
    LET n == Len(ringRef) IN
      /\ RingSize(ring) = n /\ ringPc # "aborted"
      /\ RingFront(ring) = RingAt(ring, 0) /\ RingEnd(ring) = RingAt(ring, n)
      /\ \A i \in 1 .. n : /\ ring.arr[RingAt(ring, i - 1)] = ringRef[i]
                           /\ RingAt(ring, i - 1) # RingEnd(ring)
                           /\ RingSucc(ring, RingAt(ring, i - 1)) = RingAt(ring, i)
      /\ \A i \in 0 .. ring.cap - 1 :
           (\A j \in 1 .. n : RingAt(ring, j - 1) # i) => ring.arr[i] = 0
=============================================================================

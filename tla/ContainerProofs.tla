-------------------------- MODULE ContainerProofs --------------------------
(***************************************************************************)
(* Proofs about the sequence containers: the array of seq_arr.c and the    *)
(* ring of seq_ring.c.                                                     *)
(***************************************************************************)
EXTENDS SeqArr, SeqRing, Integers, TLAPS

(* The array *)

\* The type of the array and the slot kept free behind its elements.
ArrInv ==
    /\ arr \in [size : Nat, cap : Nat, bytes : Nat, pc : {"up", "freed", "aborted"}]
    /\ ArrHasRoom

\* Growing and shrinking in any order keep a slot free behind the elements and
\* never fail an assert of maybe_shrink, for every MIN_SIZE and element size.
THEOREM ArrKeepsRoom == ArrSpec => []ArrHasRoom
<1>1. ArrInit => ArrInv
  BY ArrAssumption DEF ArrInit, ArrInv, ArrHasRoom
<1>2. ArrInv /\ [ArrNext]_arr => ArrInv'
  <2> SUFFICES ASSUME ArrInv, [ArrNext]_arr PROVE ArrInv'
    OBVIOUS
  <2> USE ArrAssumption DEF ArrInv, ArrHasRoom
  <2>1. CASE ArrPushBack
    <3>1. arr' = [MaybeExpand(arr) EXCEPT !.size = @ + 1] /\ arr.pc = "up"
      BY <2>1 DEF ArrPushBack
    <3>2. CASE arr.size + 1 = arr.cap
      <4> DEFINE b == 2 * arr.cap * ArrElt
      <4>1. b \in Nat
        OBVIOUS
      <4>2. MaybeExpand(arr) = [arr EXCEPT !.cap = 2 * @, !.bytes = b]
        BY <3>2 DEF MaybeExpand
      <4> HIDE DEF b
      <4>3. arr' = [size |-> arr.size + 1, cap |-> 2 * arr.cap, bytes |-> b, pc |-> "up"]
        BY <3>1, <4>2
      <4> QED
        BY <3>2, <4>1, <4>3
    <3>3. CASE arr.size + 1 # arr.cap
      BY <3>1, <3>3 DEF MaybeExpand
    <3> QED
      BY <3>2, <3>3
  <2>2. ASSUME NEW n \in 1 .. ArrMax, ArrErase(n) PROVE ArrInv'
    <3> DEFINE a == [arr EXCEPT !.size = @ - n]
    <3>1. a.size \in Nat /\ a.size < a.cap /\ a.cap = arr.cap /\ a.pc = "up"
          /\ a \in [size : Nat, cap : Nat, bytes : Nat, pc : {"up", "freed", "aborted"}]
      BY <2>2 DEF ArrErase
    <3>2. arr' = MaybeShrink(a)
      BY <2>2 DEF ArrErase
    <3> HIDE DEF a
    <3>3. CASE a.size > ArrMin /\ 4 * a.size < a.cap
      <4>1. a.cap > ArrMin /\ a.size <= a.cap \div 2 /\ a.size < a.cap \div 2
            /\ a.cap \div 2 \in Nat
        BY <3>1, <3>3
      <4>2. (a.cap \div 2) * (a.cap \div 2) \in Nat
        BY <4>1
      <4>3. arr' = [a EXCEPT !.cap = @ \div 2, !.bytes = (a.cap \div 2) * (a.cap \div 2)]
        BY <3>2, <3>3, <4>1 DEF MaybeShrink
      <4> QED
        BY <3>1, <4>1, <4>2, <4>3
    <3>4. CASE ~(a.size > ArrMin /\ 4 * a.size < a.cap)
      BY <3>1, <3>2, <3>4 DEF MaybeShrink
    <3> QED
      BY <3>3, <3>4
  <2>3. CASE ArrFree
    BY <2>3 DEF ArrFree
  <2>4. CASE UNCHANGED arr
    BY <2>4
  <2> QED
    BY <2>1, <2>2, <2>3, <2>4 DEF ArrNext
<1>3. ArrInv => ArrHasRoom
  BY DEF ArrInv
<1> QED
  BY <1>1, <1>2, <1>3, PTL DEF ArrSpec

-----------------------------------------------------------------------------
(* The slots of the ring *)

\* The position i places behind t in a ring of c slots.
Pos(t, i, c) == IF t + i < c THEN t + i ELSE t + i - c

\* The remainder is the only one: q * c + s leaves s.
LEMMA ModUnique ==
    ASSUME NEW c \in Nat, c > 0, NEW q \in Int, NEW s \in Int, 0 <= s, s < c
    PROVE  (q * c + s) % c = s
<1> DEFINE x == q * c + s
           p == x \div c
           m == x % c
<1>1. x \in Int /\ p \in Int /\ m \in Int /\ 0 <= m /\ m < c /\ x = p * c + m
  OBVIOUS
<1>2. (q - p) * c = m - s
  BY <1>1
<1> HIDE DEF p, m, x
<1>3. CASE q - p >= 1
  <2>1. (q - p) * c >= c
    BY <1>1, <1>3
  <2> QED
    BY <1>1, <1>2, <2>1
<1>4. CASE q - p <= -1
  <2>1. (q - p) * c <= -c
    BY <1>1, <1>4
  <2> QED
    BY <1>1, <1>2, <2>1
<1>5. CASE q = p
  BY <1>1, <1>2, <1>5 DEF x, m
<1> QED
  BY <1>1, <1>3, <1>4, <1>5

\* Adding at most c to x moves its slot forward, once around at most.
LEMMA ModPlus ==
    ASSUME NEW c \in Nat, c > 0, NEW x \in Nat, NEW i \in 0 .. c
    PROVE  /\ x % c \in 0 .. c - 1
           /\ (x + i) % c = Pos(x % c, i, c)
           /\ Pos(x % c, i, c) \in 0 .. c - 1
<1> DEFINE p == x \div c
           m == x % c
<1>1. p \in Int /\ m \in Int /\ 0 <= m /\ m < c /\ x = p * c + m
  OBVIOUS
<1> HIDE DEF p, m
<1>2. CASE m + i < c
  <2>1. (p * c + (m + i)) % c = m + i
    BY <1>1, <1>2, ModUnique
  <2>2. x + i = p * c + (m + i)
    BY <1>1
  <2> QED
    BY <1>1, <1>2, <2>1, <2>2 DEF Pos, m
<1>3. CASE m + i >= c
  <2>0. m + i - c \in Int /\ 0 <= m + i - c /\ m + i - c < c /\ p + 1 \in Int
    BY <1>1, <1>3
  <2>1. ((p + 1) * c + (m + i - c)) % c = m + i - c
    BY <2>0, ModUnique
  <2>2. x + i = (p + 1) * c + (m + i - c)
    BY <1>1
  <2> QED
    BY <1>1, <1>3, <2>1, <2>2 DEF Pos, m
<1> QED
  BY <1>1, <1>2, <1>3

\* Taking away a multiple of c leaves the slot alone.
LEMMA ModLess ==
    ASSUME NEW c \in Nat, c > 0, NEW u \in Nat, u % c = 0, NEW x \in Nat, x >= u
    PROVE  (x - u) % c = x % c
<1> DEFINE p == x \div c
           m == x % c
           q == u \div c
<1>1. p \in Int /\ m \in Int /\ 0 <= m /\ m < c /\ x = p * c + m
  OBVIOUS
<1>2. q \in Int /\ u = q * c
  <2>1. u = (u \div c) * c + (u % c)
    OBVIOUS
  <2> QED
    BY <2>1
<1> HIDE DEF p, m, q
<1>3. x - u = (p - q) * c + m
  BY <1>1, <1>2
<1>4. ((p - q) * c + m) % c = m
  BY <1>1, <1>2, ModUnique
<1> QED
  BY <1>3, <1>4 DEF m

\* A uint32_t counter c places ahead or less.
LEMMA CounterPlus ==
    ASSUME NEW u \in Nat, NEW c \in Nat, c > 0, c < u, u % c = 0,
           NEW x \in 0 .. u - 1, NEW i \in 0 .. c
    PROVE  /\ (x + i) % u = Pos(x, i, u) /\ Pos(x, i, u) \in 0 .. u - 1
           /\ ((x + i) % u) % c = Pos(x % c, i, c)
<1>1. x % u = x
  BY ModUnique
<1>2. (x + i) % u = Pos(x, i, u) /\ Pos(x, i, u) \in 0 .. u - 1
  <2>1. u > 0 /\ x \in Nat /\ i \in 0 .. u
    OBVIOUS
  <2>2. (x + i) % u = Pos(x % u, i, u) /\ Pos(x % u, i, u) \in 0 .. u - 1
    BY <2>1, ModPlus
  <2> QED
    BY <1>1, <2>2
<1>3. Pos(x, i, u) % c = (x + i) % c
  <2>1. CASE x + i < u
    BY <2>1 DEF Pos
  <2>2. CASE x + i >= u
    <3> DEFINE y == x + i
    <3>1. y \in Nat /\ y >= u
      BY <2>2
    <3> HIDE DEF y
    <3>2. (y - u) % c = y % c
      BY <3>1, ModLess
    <3> QED
      BY <2>2, <3>2 DEF Pos, y
  <2> QED
    BY <2>1, <2>2
<1> QED
  BY <1>2, <1>3, ModPlus

-----------------------------------------------------------------------------
(* The ring r holds the sequence s *)

\* The type of the ring; the capacity divides the range of the counters.
RingTypes(r) ==
    /\ r.cap \in 1 .. RingMaxCap /\ UINT32 % r.cap = 0
    /\ r.head \in 0 .. UINT32 - 1 /\ r.tail \in 0 .. UINT32 - 1
    /\ r.arr \in [0 .. r.cap - 1 -> RingElts \cup {0}]
    /\ r = [arr |-> r.arr, cap |-> r.cap, head |-> r.head, tail |-> r.tail]

\* The i-th element of s is i - 1 slots behind the tail, and the rest is zero.
Filled(a, c, t, s) ==
    /\ \A i \in 1 .. Len(s) : a[Pos(t, i - 1, c)] = s[i]
    /\ \A k \in 0 .. c - 1 : (\A j \in 1 .. Len(s) : Pos(t, j - 1, c) # k) => a[k] = 0

\* The ring holds the sequence s: the head is Len(s) behind the tail.
Holds(r, s) ==
    /\ RingTypes(r) /\ s \in Seq(RingElts) /\ Len(s) < r.cap
    /\ r.head = Pos(r.tail, Len(s), UINT32)
    /\ Filled(r.arr, r.cap, r.tail % r.cap, s)

\* Where the counters point to, in terms of the slot of the tail.
LEMMA RingPlaces ==
    ASSUME NEW r, NEW s, Holds(r, s)
    PROVE  /\ r.tail % r.cap \in 0 .. r.cap - 1 /\ RingFront(r) = r.tail % r.cap
           /\ \A i \in 0 .. r.cap : /\ RingAt(r, i) = Pos(r.tail % r.cap, i, r.cap)
                                    /\ RingAt(r, i) \in 0 .. r.cap - 1
                                    /\ (r.tail + i) % UINT32 = Pos(r.tail, i, UINT32)
                                    /\ Pos(r.tail, i, UINT32) \in 0 .. UINT32 - 1
           /\ Mask(r, r.head) = RingAt(r, Len(s))
           /\ RingSize(r) = Len(s)
<1> DEFINE u == UINT32
           c == r.cap
           x == r.tail
           n == Len(s)
<1>1. u \in Nat /\ c \in Nat /\ c > 0 /\ c < u /\ u % c = 0 /\ x \in 0 .. u - 1
      /\ n \in 0 .. c /\ r.head = Pos(x, n, u)
  BY RingAssumption DEF Holds, RingTypes
<1>2. \A i \in 0 .. c : /\ (x + i) % u = Pos(x, i, u) /\ Pos(x, i, u) \in 0 .. u - 1
                        /\ ((x + i) % u) % c = Pos(x % c, i, c)
  BY <1>1, CounterPlus
<1>3. x % c \in 0 .. c - 1 /\ \A i \in 0 .. c : Pos(x % c, i, c) \in 0 .. c - 1
  <2>1. x \in Nat /\ 0 \in 0 .. c
    BY <1>1
  <2>2. \A i \in 0 .. c : x % c \in 0 .. c - 1 /\ Pos(x % c, i, c) \in 0 .. c - 1
    BY <1>1, <2>1, ModPlus
  <2> QED
    BY <2>1, <2>2
<1>4. \A i \in 0 .. c : RingAt(r, i) = Pos(x % c, i, c)
  BY <1>2 DEF RingAt, Mask
<1>5. Mask(r, r.head) = RingAt(r, Len(s))
  BY <1>1, <1>2 DEF RingAt, Mask
<1>6. RingSize(r) = n
  <2>1. CASE x + n < u
    <3>1. r.head + u - x = 1 * u + n
      BY <1>1, <2>1 DEF Pos
    <3>2. (1 * u + n) % u = n
      BY <1>1, ModUnique
    <3> QED
      BY <3>1, <3>2 DEF RingSize
  <2>2. CASE x + n >= u
    <3>1. r.head + u - x = 0 * u + n
      BY <1>1, <2>2 DEF Pos
    <3>2. (0 * u + n) % u = n
      BY <1>1, ModUnique
    <3> QED
      BY <3>1, <3>2 DEF RingSize
  <2> QED
    BY <1>1, <2>1, <2>2
<1> QED
  BY <1>2, <1>3, <1>4, <1>5, <1>6 DEF RingFront, Mask

\* seq_ring_push_back, when a slot is left.
LEMMA PushHolds ==
    ASSUME NEW r, NEW s, Holds(r, s), Len(s) < r.cap - 1, NEW e \in RingElts
    PROVE  Holds([r EXCEPT !.arr = [@ EXCEPT ![Mask(r, r.head)] = e], !.head = (@ + 1) % UINT32],
                 Append(s, e))
<1> DEFINE u == UINT32
           c == r.cap
           x == r.tail
           t == x % c
           n == Len(s)
           h == Mask(r, r.head)
           q == [r EXCEPT !.arr = [@ EXCEPT ![h] = e], !.head = (@ + 1) % UINT32]
<1>1. u \in Nat /\ c \in Nat /\ c < u /\ x \in 0 .. u - 1 /\ r.head \in 0 .. u - 1
      /\ n \in Nat /\ n < c - 1 /\ r.head = Pos(x, n, u) /\ s \in Seq(RingElts)
  BY RingAssumption DEF Holds, RingTypes
<1>2. t \in 0 .. c - 1 /\ h = Pos(t, n, c) /\ h \in 0 .. c - 1
  BY RingPlaces, <1>1
<1>3. (r.head + 1) % u = Pos(r.head, 1, u) /\ Pos(r.head, 1, u) \in 0 .. u - 1
  <2>1. 1 \in 0 .. c /\ c > 0 /\ u % c = 0
    BY <1>1 DEF Holds, RingTypes
  <2> QED
    BY <1>1, <2>1, CounterPlus
<1>4. Pos(r.head, 1, u) = Pos(x, n + 1, u)
  BY <1>1 DEF Pos
<1>5. /\ q.cap = c /\ q.tail = x /\ q.head = Pos(x, n + 1, u)
      /\ q.arr = [r.arr EXCEPT ![h] = e]
      /\ q = [arr |-> [r.arr EXCEPT ![h] = e], cap |-> c, head |-> Pos(x, n + 1, u), tail |-> x]
  <2>1. r = [arr |-> r.arr, cap |-> c, head |-> r.head, tail |-> x]
    BY DEF Holds, RingTypes
  <2>2. (r.head + 1) % UINT32 = Pos(x, n + 1, u)
    BY <1>3, <1>4
  <2> DEFINE a == [r.arr EXCEPT ![h] = e]
             y == Pos(x, n + 1, u)
  <2>3. q = [r EXCEPT !.arr = a, !.head = y]
    BY <2>2
  <2>4. PICK ra, rc, rh, rt : r = [arr |-> ra, cap |-> rc, head |-> rh, tail |-> rt]
    BY <2>1
  <2> HIDE DEF a, y, q
  <2>5. q = [arr |-> a, cap |-> c, head |-> y, tail |-> x]
    BY <2>3, <2>4
  <2> QED
    BY <2>5 DEF a, y
<1>6. RingTypes(q)
  BY <1>2, <1>3, <1>4, <1>5 DEF Holds, RingTypes
<1>7. Append(s, e) \in Seq(RingElts) /\ Len(Append(s, e)) = n + 1
      /\ \A i \in 1 .. n + 1 : Append(s, e)[i] = IF i = n + 1 THEN e ELSE s[i]
  BY <1>1
<1>8. r.arr \in [0 .. c - 1 -> RingElts \cup {0}] /\ Filled(r.arr, c, t, s)
  BY DEF Holds, RingTypes
<1> HIDE DEF u, c, x, t, n, h, q
<1>9. Filled(q.arr, c, t, Append(s, e))
  <2>1. ASSUME NEW i \in 1 .. n + 1 PROVE q.arr[Pos(t, i - 1, c)] = Append(s, e)[i]
    <3>1. CASE i = n + 1
      <4>1. Pos(t, i - 1, c) = h
        <5>1. i - 1 = n
          BY <1>1, <3>1
        <5> QED
          BY <1>2, <5>1
      <4> QED
        BY <1>1, <1>2, <1>5, <1>7, <1>8, <3>1, <4>1
    <3>2. CASE i \in 1 .. n
      <4>1. Pos(t, i - 1, c) # h /\ Pos(t, i - 1, c) \in 0 .. c - 1
        BY <1>1, <1>2, <3>2 DEF Pos
      <4>2. r.arr[Pos(t, i - 1, c)] = s[i]
        BY <1>8, <3>2 DEF Filled, n
      <4> QED
        BY <1>1, <1>5, <1>7, <1>8, <3>2, <4>1, <4>2
    <3>3. i = n + 1 \/ i \in 1 .. n
      BY <1>1
    <3> QED
      BY <3>1, <3>2, <3>3
  <2>2. ASSUME NEW k \in 0 .. c - 1,
               \A j \in 1 .. n + 1 : Pos(t, j - 1, c) # k
        PROVE  q.arr[k] = 0
    <3>1. k # h
      <4>1. (n + 1) - 1 = n /\ n + 1 \in 1 .. n + 1
        BY <1>1
      <4> QED
        BY <1>2, <2>2, <4>1
    <3>2. r.arr[k] = 0
      BY <1>1, <1>8, <2>2 DEF Filled, n
    <3> QED
      BY <1>5, <1>8, <3>1, <3>2
  <2> QED
    BY <1>7, <2>1, <2>2 DEF Filled
<1>10. Holds(q, Append(s, e))
  BY <1>1, <1>5, <1>6, <1>7, <1>9 DEF Holds, t, u, x, c
<1> QED
  BY <1>10 DEF q, h

\* enlarge_buffer keeps the sequence, wherever the array was cut.
LEMMA EnlargeHolds ==
    ASSUME NEW r, NEW s, Holds(r, s), Len(s) = r.cap - 1, 2 * r.cap <= RingMaxCap
    PROVE  Holds(Enlarge(r), s) /\ Enlarge(r).cap = 2 * r.cap
<1> DEFINE u == UINT32
           c == r.cap
           t == r.tail % r.cap
           h == Mask(r, r.head)
           q == Enlarge(r)
<1>1. u \in Nat /\ c \in Nat /\ c > 0 /\ 2 * c < u /\ u % (2 * c) = 0 /\ Len(s) = c - 1
      /\ s \in Seq(RingElts)
  <2>1. c \in 1 .. RingMaxCap /\ u % c = 0
    BY DEF Holds, RingTypes
  <2> QED
    BY <2>1, RingAssumption DEF Holds
<1>2. t \in 0 .. c - 1 /\ h = Pos(t, c - 1, c) /\ Mask(r, r.tail) = t
  BY RingPlaces, <1>1 DEF RingFront
<1>3. r.arr \in [0 .. c - 1 -> RingElts \cup {0}] /\ Filled(r.arr, c, t, s)
  BY DEF Holds, RingTypes
<1>4. /\ q.cap = 2 * c /\ q.tail = 0 /\ q.head = c - 1
      /\ q = [arr |-> q.arr, cap |-> q.cap, head |-> q.head, tail |-> q.tail]
      /\ q.arr = [i \in 0 .. 2 * c - 1 |->
                    IF h > t
                    THEN IF i < h - t THEN r.arr[t + i] ELSE 0
                    ELSE IF i < c - t THEN r.arr[t + i]
                    ELSE IF i < c - t + h THEN r.arr[i - (c - t)] ELSE 0]
  BY <1>2 DEF Enlarge
<1> HIDE DEF u, c, t, h, q
<1>5. ASSUME NEW i \in 0 .. 2 * c - 1
      PROVE  q.arr[i] = IF i < c - 1 THEN r.arr[Pos(t, i, c)] ELSE 0
  <2>1. h = IF t = 0 THEN c - 1 ELSE t - 1
    BY <1>1, <1>2 DEF Pos
  <2>2. CASE c = 1
    <3>1. r.arr[0] = 0
      BY <1>1, <1>3, <2>2 DEF Filled
    <3> QED
      BY <1>1, <1>2, <1>4, <2>1, <2>2, <3>1
  <2>3. CASE t = 0 /\ c > 1
    <3>1. q.arr[i] = IF i < c - 1 THEN r.arr[t + i] ELSE 0
      BY <1>1, <1>4, <2>1, <2>3
    <3>2. i < c - 1 => Pos(t, i, c) = t + i
      BY <1>1, <2>3 DEF Pos
    <3> QED
      BY <3>1, <3>2
  <2>4. CASE t # 0
    <3>1. q.arr[i] = IF i < c - t THEN r.arr[t + i]
                     ELSE IF i < c - 1 THEN r.arr[i - (c - t)] ELSE 0
      BY <1>1, <1>2, <1>4, <2>1, <2>4
    <3>2. /\ i < c - t => i < c - 1 /\ Pos(t, i, c) = t + i
          /\ ~(i < c - t) /\ i < c - 1 => Pos(t, i, c) = i - (c - t)
      BY <1>1, <1>2, <2>4 DEF Pos
    <3> QED
      BY <3>1, <3>2
  <2> QED
    BY <1>1, <2>2, <2>3, <2>4
<1>6. q.arr \in [0 .. 2 * c - 1 -> RingElts \cup {0}]
  <2>1. ASSUME NEW i \in 0 .. 2 * c - 1 PROVE q.arr[i] \in RingElts \cup {0}
    <3>1. i < c - 1 => Pos(t, i, c) \in 0 .. c - 1
      BY <1>1, <1>2 DEF Pos
    <3> QED
      BY <1>3, <1>5, <3>1
  <2>2. \E f : q.arr = [i \in 0 .. 2 * c - 1 |-> f[i]]
    BY <1>4
  <2> QED
    BY <2>1, <2>2
<1>7. 0 % (2 * c) = 0
  BY <1>1
<1>8. Filled(q.arr, 2 * c, 0, s)
  <2>1. ASSUME NEW i \in 1 .. Len(s) PROVE q.arr[Pos(0, i - 1, 2 * c)] = s[i]
    <3>1. Pos(0, i - 1, 2 * c) = i - 1 /\ i - 1 \in 0 .. 2 * c - 1 /\ i - 1 < c - 1
      BY <1>1 DEF Pos
    <3>2. r.arr[Pos(t, i - 1, c)] = s[i]
      BY <1>3 DEF Filled
    <3> QED
      BY <1>5, <3>1, <3>2
  <2>2. ASSUME NEW k \in 0 .. 2 * c - 1, \A j \in 1 .. Len(s) : Pos(0, j - 1, 2 * c) # k
        PROVE  q.arr[k] = 0
    <3>1. ~(k < c - 1)
      <4>1. SUFFICES ASSUME k < c - 1 PROVE FALSE
        OBVIOUS
      <4>2. k + 1 \in 1 .. Len(s) /\ (k + 1) - 1 = k /\ Pos(0, k, 2 * c) = k
        BY <1>1, <4>1 DEF Pos
      <4> QED
        BY <2>2, <4>2
    <3> QED
      BY <1>5, <3>1
  <2> QED
    BY <2>1, <2>2 DEF Filled
<1>9. RingTypes(q)
  <2>1. q.cap \in 1 .. RingMaxCap
    BY <1>1, <1>4, RingAssumption DEF c
  <2>2. q.head \in 0 .. UINT32 - 1 /\ q.tail \in 0 .. UINT32 - 1
    BY <1>1, <1>4 DEF u
  <2> QED
    BY <1>1, <1>4, <1>6, <2>1, <2>2 DEF RingTypes, u
<1>10. q.head = Pos(0, Len(s), UINT32) /\ Len(s) < q.cap
  BY <1>1, <1>4 DEF Pos, u
<1>11. Holds(q, s)
  BY <1>1, <1>4, <1>7, <1>8, <1>9, <1>10 DEF Holds
<1> QED
  BY <1>4, <1>11 DEF q, c

\* seq_ring_erase of the first n elements drops them, and its assert holds.
LEMMA EraseHolds ==
    ASSUME NEW r, NEW s, Holds(r, s), NEW n \in 1 .. Len(s)
    PROVE  LET last == (RingFront(r) + n) % r.cap IN
             /\ Holds(Erased(r, last), SubSeq(s, n + 1, Len(s)))
             /\ Mask(Erased(r, last), Erased(r, last).tail) = last
<1> DEFINE u == UINT32
           c == r.cap
           x == r.tail
           t == x % c
           last == (RingFront(r) + n) % r.cap
           q == Erased(r, last)
           z == SubSeq(s, n + 1, Len(s))
<1>1. u \in Nat /\ c \in Nat /\ c > 0 /\ c < u /\ u % c = 0 /\ x \in 0 .. u - 1 /\ Len(s) < c
      /\ Len(s) \in Nat /\ n \in 0 .. c /\ s \in Seq(RingElts) /\ r.head = Pos(x, Len(s), u)
      /\ c \in 1 .. RingMaxCap /\ r.head \in 0 .. u - 1
  BY RingAssumption DEF Holds, RingTypes
<1>2. t \in 0 .. c - 1 /\ RingFront(r) = t
  BY RingPlaces
<1>3. r.arr \in [0 .. c - 1 -> RingElts \cup {0}] /\ Filled(r.arr, c, t, s)
  BY DEF Holds, RingTypes
<1>4. last = Pos(t, n, c) /\ last \in 0 .. c - 1
  <2>1. t \in Nat /\ t \in Int /\ 0 <= t /\ t < c
    BY <1>1, <1>2
  <2> HIDE DEF t, c
  <2>2. t % c = t
    <3>1. (0 * c + t) % c = t
      BY <1>1, <2>1, ModUnique
    <3>2. 0 * c + t = t
      BY <1>1, <2>1
    <3> QED
      BY <3>1, <3>2
  <2>3. (t + n) % c = Pos(t % c, n, c) /\ Pos(t % c, n, c) \in 0 .. c - 1
    BY <1>1, <2>1, ModPlus
  <2> QED
    BY <1>2, <2>2, <2>3 DEF c
<1>5. (x + n) % u = Pos(x, n, u) /\ Pos(x, n, u) \in 0 .. u - 1
      /\ ((x + n) % u) % c = Pos(t, n, c)
  BY <1>1, CounterPlus
<1>6. x + (IF last > t THEN last - t ELSE c - t + last) = x + n
  <2> HIDE DEF last, t, c, x
  <2> QED
    BY <1>1, <1>2, <1>4 DEF Pos
<1>7. /\ q.cap = c /\ q.head = r.head /\ q.tail = (x + n) % u
      /\ q = [arr |-> q.arr, cap |-> q.cap, head |-> q.head, tail |-> q.tail]
      /\ q.arr = [i \in 0 .. c - 1 |->
           IF IF last > t THEN t <= i /\ i < last ELSE t <= i \/ i < last
           THEN 0 ELSE r.arr[i]]
  <2> DEFINE a == [i \in 0 .. c - 1 |->
                     IF IF last > t THEN t <= i /\ i < last ELSE t <= i \/ i < last
                     THEN 0 ELSE r.arr[i]]
             y == (x + n) % u
  <2>1. DOMAIN r.arr = 0 .. c - 1
    BY <1>3
  <2>2. q = [r EXCEPT !.arr = a, !.tail = y]
    BY <1>2, <1>6, <2>1 DEF Erased
  <2>3. PICK ra, rc, rh, rt : r = [arr |-> ra, cap |-> rc, head |-> rh, tail |-> rt]
    BY DEF Holds, RingTypes
  <2> HIDE DEF a, y, q
  <2>4. q = [arr |-> a, cap |-> c, head |-> r.head, tail |-> y]
    BY <2>2, <2>3
  <2> QED
    BY <2>4 DEF a, y
<1>8. z \in Seq(RingElts) /\ Len(z) = Len(s) - n /\ \A i \in 1 .. Len(s) - n : z[i] = s[i + n]
  BY <1>1
<1> DEFINE m == Len(s)
<1> HIDE DEF u, c, x, t, last, q, z, m
<1>9. ASSUME NEW i \in 1 .. m - n
      PROVE  /\ Pos(last, i - 1, c) = Pos(t, (i + n) - 1, c) /\ Pos(last, i - 1, c) \in 0 .. c - 1
             /\ q.arr[Pos(last, i - 1, c)] = r.arr[Pos(last, i - 1, c)]
  <2>1. Pos(last, i - 1, c) = Pos(t, (i + n) - 1, c) /\ Pos(last, i - 1, c) \in 0 .. c - 1
    BY <1>1, <1>2, <1>4 DEF Pos, m
  <2>2. ~(IF last > t THEN t <= Pos(last, i - 1, c) /\ Pos(last, i - 1, c) < last
                      ELSE t <= Pos(last, i - 1, c) \/ Pos(last, i - 1, c) < last)
    BY <1>1, <1>2, <1>4 DEF Pos, m
  <2> QED
    BY <1>7, <2>1, <2>2
<1>10. Filled(q.arr, c, last, z)
  <2>1. ASSUME NEW i \in 1 .. Len(z) PROVE q.arr[Pos(last, i - 1, c)] = z[i]
    <3>1. i \in 1 .. m - n /\ i + n \in 1 .. Len(s)
      BY <1>1, <1>8 DEF m
    <3>2. r.arr[Pos(t, (i + n) - 1, c)] = s[i + n]
      BY <1>3, <3>1 DEF Filled
    <3>3. z[i] = s[i + n]
      BY <1>8, <3>1 DEF m
    <3> QED
      BY <1>9, <3>1, <3>2, <3>3
  <2>2. ASSUME NEW k \in 0 .. c - 1, \A j \in 1 .. Len(z) : Pos(last, j - 1, c) # k
        PROVE  q.arr[k] = 0
    <3>1. CASE IF last > t THEN t <= k /\ k < last ELSE t <= k \/ k < last
      BY <1>7, <3>1
    <3>2. CASE ~(IF last > t THEN t <= k /\ k < last ELSE t <= k \/ k < last)
      <4>1. ASSUME NEW j \in 1 .. Len(s) PROVE Pos(t, j - 1, c) # k
        <5>1. CASE j <= n
          BY <1>1, <1>2, <1>4, <3>2, <5>1 DEF Pos
        <5>2. CASE j > n
          <6>1. j - n \in 1 .. m - n /\ j - n \in 1 .. Len(z) /\ ((j - n) + n) - 1 = j - 1
            BY <1>1, <1>8, <5>2 DEF m
          <6>2. Pos(last, (j - n) - 1, c) = Pos(t, ((j - n) + n) - 1, c)
            BY <1>9, <6>1
          <6> QED
            BY <2>2, <6>1, <6>2
        <5> QED
          BY <1>1, <5>1, <5>2
      <4>2. r.arr[k] = 0
        BY <1>3, <4>1 DEF Filled
      <4> QED
        BY <1>7, <3>2, <4>2
    <3> QED
      BY <3>1, <3>2
  <2> QED
    BY <2>1, <2>2 DEF Filled
<1>11. q.head = Pos(q.tail, Len(z), u)
  <2>1. q.head = Pos(x, m, u) /\ q.tail = Pos(x, n, u) /\ Len(z) = m - n
    BY <1>1, <1>5, <1>7, <1>8 DEF m
  <2>2. Pos(x, m, u) = Pos(Pos(x, n, u), m - n, u)
    BY <1>1 DEF Pos, m
  <2> QED
    BY <2>1, <2>2
<1>12. q.arr \in [0 .. c - 1 -> RingElts \cup {0}]
  BY <1>3, <1>7
<1>13. RingTypes(q)
  BY <1>1, <1>5, <1>7, <1>12 DEF RingTypes, u
<1>14. q.tail % q.cap = last
  BY <1>4, <1>5, <1>7
<1>15. Holds(q, z) /\ Mask(q, q.tail) = last
  BY <1>1, <1>7, <1>8, <1>10, <1>11, <1>13, <1>14 DEF Holds, Mask, u
<1> QED
  BY <1>15 DEF q, z, last

-----------------------------------------------------------------------------
\* The inductive invariant: the ring holds the sequence, and no assert failed.
RingInv == Holds(ring, ringRef) /\ ringPc # "aborted"

\* The inductive invariant says that the ring is the sequence.
LEMMA RingInvMeans == RingInv => RingHoldsSequence
<1> SUFFICES ASSUME RingInv PROVE RingHoldsSequence
  OBVIOUS
<1> DEFINE c == ring.cap
           t == ring.tail % ring.cap
           n == Len(ringRef)
<1>1. c \in Nat /\ n \in Nat /\ n < c /\ Filled(ring.arr, c, t, ringRef)
  BY RingAssumption DEF RingInv, Holds, RingTypes
<1>2. /\ t \in 0 .. c - 1 /\ RingFront(ring) = t
      /\ \A i \in 0 .. c : RingAt(ring, i) = Pos(t, i, c)
      /\ RingEnd(ring) = RingAt(ring, n) /\ RingSize(ring) = n
  BY RingPlaces DEF RingInv, RingEnd
<1> HIDE DEF c, t, n
<1>3. ASSUME NEW i \in 1 .. n
      PROVE  /\ ring.arr[RingAt(ring, i - 1)] = ringRef[i]
             /\ RingAt(ring, i - 1) # RingEnd(ring)
             /\ RingSucc(ring, RingAt(ring, i - 1)) = RingAt(ring, i)
  <2>1. /\ RingAt(ring, i - 1) = Pos(t, i - 1, c) /\ RingAt(ring, i) = Pos(t, i, c)
        /\ RingEnd(ring) = Pos(t, n, c)
    BY <1>1, <1>2
  <2>2. ring.arr[Pos(t, i - 1, c)] = ringRef[i]
    BY <1>1 DEF Filled, n
  <2>3. Pos(t, i - 1, c) # Pos(t, n, c)
        /\ Pos(t, i, c) = IF Pos(t, i - 1, c) + 1 = c THEN 0 ELSE Pos(t, i - 1, c) + 1
    BY <1>1, <1>2 DEF Pos
  <2> QED
    BY <2>1, <2>2, <2>3 DEF RingSucc, c
<1>4. ASSUME NEW k \in 0 .. c - 1, \A j \in 1 .. n : RingAt(ring, j - 1) # k
      PROVE  ring.arr[k] = 0
  <2>1. \A j \in 1 .. n : Pos(t, j - 1, c) # k
    BY <1>1, <1>2, <1>4
  <2> QED
    BY <1>1, <2>1 DEF Filled, n
<1>5. RingFront(ring) = RingAt(ring, 0)
  BY <1>1, <1>2 DEF Pos
<1> QED
  BY <1>2, <1>3, <1>4, <1>5 DEF RingHoldsSequence, RingInv, n, c

\* In every order of pushes and erases, for every initial capacity and width
\* of the counters, the ring of seq_ring.c is the sequence of the elements
\* pushed and not erased: also when it was enlarged around the end of its
\* array and when the counters have wrapped.
THEOREM RingCorrect == RingSpec => []RingHoldsSequence
<1>1. RingInit => RingInv
  <2> SUFFICES ASSUME RingInit PROVE RingInv
    OBVIOUS
  <2>1. ring.cap = RingDefault /\ ring.head = 0 /\ ring.tail = 0 /\ ring.arr = Zeroed(RingDefault)
        /\ ring = [arr |-> ring.arr, cap |-> ring.cap, head |-> ring.head, tail |-> ring.tail]
        /\ ringRef = <<>> /\ ringPc = "up"
    BY DEF RingInit
  <2>2. RingDefault \in 1 .. RingMaxCap /\ UINT32 \in Nat /\ 0 \in 0 .. UINT32 - 1
        /\ UINT32 % RingDefault = 0
    BY RingAssumption
  <2>3. RingTypes(ring)
    BY <2>1, <2>2 DEF RingTypes, Zeroed
  <2>4. ringRef \in Seq(RingElts) /\ Len(ringRef) = 0
    BY <2>1
  <2>5. Filled(ring.arr, ring.cap, ring.tail % ring.cap, ringRef)
    BY <2>1, <2>2, <2>4 DEF Filled, Zeroed
  <2>6. ring.head = Pos(ring.tail, Len(ringRef), UINT32)
    BY <2>1, <2>2, <2>4 DEF Pos
  <2> QED
    BY <2>1, <2>2, <2>3, <2>4, <2>5, <2>6 DEF RingInv, Holds
<1>2. RingInv /\ [RingNext]_ringVars => RingInv'
  <2> SUFFICES ASSUME RingInv, [RingNext]_ringVars PROVE RingInv'
    OBVIOUS
  <2>1. ASSUME NEW e \in RingElts, RingPushBack(e) PROVE RingInv'
    <3> DEFINE r == IF Full(ring) THEN Enlarge(ring) ELSE ring
    <3>1. RingSize(ring) = Len(ringRef) /\ ring.cap \in Nat /\ ring.cap > 0
          /\ Len(ringRef) < ring.cap /\ Len(ringRef) \in Nat
      <4>1. RingSize(ring) = Len(ringRef)
        BY RingPlaces DEF RingInv
      <4>2. ring.cap \in 1 .. RingMaxCap /\ Len(ringRef) < ring.cap /\ Len(ringRef) \in Nat
        BY DEF RingInv, Holds, RingTypes
      <4> QED
        BY <4>1, <4>2, RingAssumption
    <3>2. Holds(r, ringRef) /\ Len(ringRef) < r.cap - 1
      <4>1. CASE Full(ring)
        <5>1. Len(ringRef) = ring.cap - 1 /\ 2 * ring.cap <= RingMaxCap
          BY <2>1, <3>1, <4>1 DEF Full, RingPushBack
        <5>2. Holds(Enlarge(ring), ringRef) /\ Enlarge(ring).cap = 2 * ring.cap
          BY <5>1, EnlargeHolds DEF RingInv
        <5> QED
          BY <3>1, <4>1, <5>1, <5>2
      <4>2. CASE ~Full(ring)
        BY <3>1, <4>2 DEF Full, RingInv
      <4> QED
        BY <4>1, <4>2
    <3>3. ring' = [r EXCEPT !.arr = [@ EXCEPT ![Mask(r, r.head)] = e],
                            !.head = (@ + 1) % UINT32]
          /\ ringRef' = Append(ringRef, e) /\ ringPc' = ringPc
      BY <2>1 DEF RingPushBack
    <3> HIDE DEF r
    <3>4. Holds(ring', ringRef')
      BY <3>2, <3>3, PushHolds
    <3> QED
      BY <3>3, <3>4 DEF RingInv
  <2>2. ASSUME NEW n \in 1 .. RingMaxCap, RingErase(n) PROVE RingInv'
    <3> DEFINE last == (RingFront(ring) + n) % ring.cap
               r == Erased(ring, last)
    <3>1. n \in 1 .. Len(ringRef)
      BY <2>2 DEF RingErase, RingInv, Holds
    <3>2. Holds(r, SubSeq(ringRef, n + 1, Len(ringRef))) /\ Mask(r, r.tail) = last
      BY <3>1, EraseHolds DEF RingInv
    <3>3. ring' = r /\ ringRef' = SubSeq(ringRef, n + 1, Len(ringRef)) /\ ringPc' = ringPc
      BY <2>2, <3>2 DEF RingErase
    <3> HIDE DEF r
    <3> QED
      BY <3>2, <3>3 DEF RingInv
  <2>3. CASE RingFree
    BY <2>3 DEF RingFree, RingInv
  <2>4. CASE UNCHANGED ringVars
    BY <2>4 DEF ringVars, RingInv
  <2> QED
    BY <2>1, <2>2, <2>3, <2>4 DEF RingNext
<1> QED
  BY <1>1, <1>2, RingInvMeans, PTL DEF RingSpec
=============================================================================

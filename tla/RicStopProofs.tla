--------------------------- MODULE RicStopProofs ---------------------------
(* Proofs about stopping the near-RT RIC: no thread keeps a mutex, and the   *)
(* only faults are the ones of a request forwarded during the teardown.      *)
EXTENDS RicStop, SequenceTheorems, TLAPS

Ops == [op : {"lock", "unlock"}, res : Resources]

\* p has still to release the mutex of r, which was taken before p starts.
Holds(p, r) ==
    \E i \in DOMAIN p : p[i] = Unlock(r) /\ \A j \in 1 .. i - 1 : p[j] # Lock(r)

\* Every mutex p takes it releases before it takes it again, and after a
\* release it releases it again only when it has taken it.
Nested(p) ==
    \A r \in Resources, i \in DOMAIN p :
        /\ p[i] = Lock(r) =>
             \E k \in DOMAIN p : /\ i < k /\ p[k] = Unlock(r)
                                 /\ \A j \in i + 1 .. k - 1 : p[j] # Lock(r)
        /\ p[i] = Unlock(r) =>
             \A k \in DOMAIN p : i < k /\ p[k] = Unlock(r) =>
               \E j \in i + 1 .. k - 1 : p[j] = Lock(r)

\* A handler starts and ends without a mutex.
Closed(p) == p \in Seq(Ops) /\ Nested(p) /\ \A r \in Resources : ~Holds(p, r)

\* The structures a handler locks.
Locks(p) == {p[i].res : i \in DOMAIN p}

\* A lock is not an unlock, and each names its structure.
LEMMA OpsDiffer ==
    \A r, q \in Resources :
        /\ Lock(r) \in Ops /\ Unlock(r) \in Ops /\ Lock(r) # Unlock(q)
        /\ Lock(r).res = r /\ Unlock(r).res = r
        /\ Lock(r).op = "lock" /\ Unlock(r).op = "unlock"
        /\ (Lock(r) = Lock(q) \/ Unlock(r) = Unlock(q)) => r = q
    BY DEF Lock, Unlock, Ops

\* lock_guard around one access of a structure.
LEMMA UseClosed ==
    ASSUME NEW r \in Resources
    PROVE  Closed(Use(r)) /\ Locks(Use(r)) = {r}
<1>1. Use(r) \in Seq(Ops) /\ Len(Use(r)) = 2 /\ DOMAIN Use(r) = 1 .. 2
    BY OpsDiffer DEF Use
<1>2. Use(r)[1] = Lock(r) /\ Use(r)[2] = Unlock(r)
    BY DEF Use
<1>. HIDE DEF Use
<1>3. Nested(Use(r))
  <2>. SUFFICES ASSUME NEW q \in Resources, NEW i \in 1 .. 2
       PROVE  /\ Use(r)[i] = Lock(q) =>
                   \E k \in 1 .. 2 : /\ i < k /\ Use(r)[k] = Unlock(q)
                                     /\ \A j \in i + 1 .. k - 1 : Use(r)[j] # Lock(q)
              /\ Use(r)[i] = Unlock(q) =>
                   \A k \in 1 .. 2 : i < k /\ Use(r)[k] = Unlock(q) =>
                     \E j \in i + 1 .. k - 1 : Use(r)[j] = Lock(q)
    BY <1>1 DEF Nested
  <2>1. CASE i = 1
    <3>1. Use(r)[i] # Unlock(q)
        BY <1>2, <2>1, OpsDiffer
    <3>2. ASSUME Use(r)[i] = Lock(q) PROVE q = r
      <4>1. Lock(r) = Lock(q)
        BY <1>2, <2>1, <3>2
      <4>. QED BY <4>1, OpsDiffer
    <3>3. \A j \in 2 .. 1 : Use(r)[j] # Lock(q)
        OBVIOUS
    <3>. QED BY <1>2, <2>1, <3>1, <3>2, <3>3
  <2>2. CASE i = 2
    <3>1. Use(r)[i] # Lock(q)
        BY <1>2, <2>2, OpsDiffer
    <3>. QED BY <2>2, <3>1
  <2>. QED BY <2>1, <2>2
<1>4. ASSUME NEW q \in Resources PROVE ~Holds(Use(r), q)
  <2>1. Use(r)[1] # Unlock(q)
    BY <1>2, OpsDiffer
  <2>2. ASSUME Use(r)[2] = Unlock(q) PROVE Use(r)[1] = Lock(q)
    BY <1>2, <2>2, OpsDiffer
  <2>. QED BY <1>1, <2>1, <2>2 DEF Holds
<1>5. Locks(Use(r)) = {r}
    BY <1>1, <1>2, OpsDiffer DEF Locks
<1>. QED BY <1>1, <1>3, <1>4, <1>5 DEF Closed

\* The elements of a concatenation.
LEMMA ConcatAt ==
    ASSUME NEW S, NEW p \in Seq(S), NEW q \in Seq(S)
    PROVE  /\ p \o q \in Seq(S) /\ Len(p \o q) = Len(p) + Len(q)
           /\ Len(p) \in Nat /\ Len(q) \in Nat
           /\ DOMAIN p = 1 .. Len(p) /\ DOMAIN q = 1 .. Len(q)
           /\ DOMAIN (p \o q) = 1 .. Len(p) + Len(q)
           /\ \A i \in 1 .. Len(p) : (p \o q)[i] = p[i]
           /\ \A i \in 1 .. Len(q) : (p \o q)[Len(p) + i] = q[i]
    OBVIOUS

\* Parts of a handler may be regrouped.
LEMMA ConcatRegroups ==
    \A p, q, s \in Seq(Ops) : (p \o q) \o s = p \o (q \o s)
    BY ConcatAssociative

\* A handler locks what its parts lock.
LEMMA LocksConcat ==
    ASSUME NEW p \in Seq(Ops), NEW q \in Seq(Ops)
    PROVE  Locks(p \o q) = Locks(p) \cup Locks(q)
<1>. DEFINE pq == p \o q
<1>1. /\ DOMAIN pq = 1 .. Len(p) + Len(q) /\ DOMAIN p = 1 .. Len(p) /\ DOMAIN q = 1 .. Len(q)
      /\ Len(p) \in Nat /\ Len(q) \in Nat
      /\ \A i \in 1 .. Len(p) : pq[i] = p[i]
      /\ \A i \in 1 .. Len(q) : pq[Len(p) + i] = q[i]
    BY ConcatAt
<1>. HIDE DEF pq
<1>2. ASSUME NEW i \in DOMAIN pq PROVE pq[i].res \in Locks(p) \cup Locks(q)
  <2>1. CASE i <= Len(p)
    BY <1>1, <2>1 DEF Locks
  <2>2. CASE i > Len(p)
    <3>1. i - Len(p) \in 1 .. Len(q) /\ i = Len(p) + (i - Len(p))
        BY <1>1, <2>2
    <3>. QED BY <1>1, <3>1 DEF Locks
  <2>. QED BY <1>1, <2>1, <2>2
<1>3. ASSUME NEW i \in DOMAIN p PROVE p[i].res \in Locks(pq)
  <2>1. i \in DOMAIN pq /\ pq[i] = p[i]
    BY <1>1
  <2>. QED BY <2>1 DEF Locks
<1>4. ASSUME NEW i \in DOMAIN q PROVE q[i].res \in Locks(pq)
  <2>1. Len(p) + i \in DOMAIN pq /\ pq[Len(p) + i] = q[i]
    BY <1>1
  <2>. QED BY <2>1 DEF Locks
<1>5. Locks(pq) = Locks(p) \cup Locks(q)
    BY <1>2, <1>3, <1>4 DEF Locks
<1>. QED BY <1>5 DEF pq

\* Handlers in a row are a handler.
LEMMA ClosedConcat ==
    ASSUME NEW p, NEW q, Closed(p), Closed(q)
    PROVE  Closed(p \o q)
<1>. DEFINE pq == p \o q
<1>p. p \in Seq(Ops) /\ q \in Seq(Ops)
    BY DEF Closed
<1>1. /\ pq \in Seq(Ops)
      /\ DOMAIN pq = 1 .. Len(p) + Len(q) /\ DOMAIN p = 1 .. Len(p) /\ DOMAIN q = 1 .. Len(q)
      /\ Len(p) \in Nat /\ Len(q) \in Nat
      /\ \A i \in 1 .. Len(p) : pq[i] = p[i]
      /\ \A i \in 1 .. Len(q) : pq[Len(p) + i] = q[i]
    BY <1>p, ConcatAt
<1>. HIDE DEF pq
<1>s. \A i \in DOMAIN pq : i > Len(p) => i - Len(p) \in DOMAIN q /\ pq[i] = q[i - Len(p)]
  <2>. SUFFICES ASSUME NEW i \in DOMAIN pq, i > Len(p)
       PROVE  i - Len(p) \in DOMAIN q /\ pq[i] = q[i - Len(p)]
    OBVIOUS
  <2>1. i - Len(p) \in 1 .. Len(q) /\ i = Len(p) + (i - Len(p))
    BY <1>1
  <2>. QED BY <1>1, <2>1
<1>h. ASSUME NEW r \in Resources, NEW k \in DOMAIN pq, k > Len(p), pq[k] = Unlock(r)
      PROVE  \E j \in Len(p) + 1 .. k - 1 : pq[j] = Lock(r)
  <2>1. k - Len(p) \in DOMAIN q /\ q[k - Len(p)] = Unlock(r)
    BY <1>h, <1>s
  <2>2. ~Holds(q, r)
    BY DEF Closed
  <2>3. PICK j \in 1 .. k - Len(p) - 1 : q[j] = Lock(r)
    BY <2>1, <2>2 DEF Holds
  <2>4. j \in 1 .. Len(q) /\ Len(p) + j \in Len(p) + 1 .. k - 1
    BY <1>1, <2>1
  <2>. QED BY <1>1, <2>3, <2>4
<1>2. ASSUME NEW r \in Resources, NEW i \in DOMAIN pq, pq[i] = Lock(r)
      PROVE  \E k \in DOMAIN pq : /\ i < k /\ pq[k] = Unlock(r)
                                  /\ \A j \in i + 1 .. k - 1 : pq[j] # Lock(r)
  <2>1. CASE i <= Len(p)
    <3>1. i \in DOMAIN p /\ p[i] = Lock(r)
        BY <1>1, <1>2, <2>1
    <3>2. PICK k \in DOMAIN p : /\ i < k /\ p[k] = Unlock(r)
                                /\ \A j \in i + 1 .. k - 1 : p[j] # Lock(r)
        BY <3>1 DEF Closed, Nested
    <3>3. \A j \in i + 1 .. k - 1 : j \in 1 .. Len(p)
        BY <1>1, <3>1
    <3>4. k \in DOMAIN pq /\ pq[k] = p[k] /\ \A j \in i + 1 .. k - 1 : pq[j] = p[j]
        BY <1>1, <3>3
    <3>. QED BY <3>2, <3>4
  <2>2. CASE i > Len(p)
    <3>. DEFINE a == i - Len(p)
    <3>1. a \in DOMAIN q /\ q[a] = Lock(r)
        BY <1>1, <1>2, <1>s, <2>2
    <3>2. PICK k \in DOMAIN q : /\ a < k /\ q[k] = Unlock(r)
                                /\ \A j \in a + 1 .. k - 1 : q[j] # Lock(r)
        BY <3>1 DEF Closed, Nested
    <3>3. Len(p) + k \in DOMAIN pq /\ i < Len(p) + k /\ pq[Len(p) + k] = q[k]
        BY <1>1, <3>2
    <3>4. ASSUME NEW j \in i + 1 .. Len(p) + k - 1 PROVE pq[j] # Lock(r)
      <4>1. j \in DOMAIN pq /\ j > Len(p) /\ j - Len(p) \in a + 1 .. k - 1
        BY <1>1, <2>2
      <4>. QED BY <1>s, <3>2, <4>1
    <3>. QED BY <3>2, <3>3, <3>4
  <2>. QED BY <1>1, <2>1, <2>2
<1>3. ASSUME NEW r \in Resources, NEW i \in DOMAIN pq, pq[i] = Unlock(r),
             NEW k \in DOMAIN pq, i < k, pq[k] = Unlock(r)
      PROVE  \E j \in i + 1 .. k - 1 : pq[j] = Lock(r)
  <2>1. CASE k <= Len(p)
    <3>1. i \in DOMAIN p /\ k \in DOMAIN p /\ p[i] = Unlock(r) /\ p[k] = Unlock(r)
        BY <1>1, <1>3, <2>1
    <3>2. PICK j \in i + 1 .. k - 1 : p[j] = Lock(r)
        BY <1>3, <3>1 DEF Closed, Nested
    <3>3. j \in 1 .. Len(p)
        BY <1>1, <3>1
    <3>. QED BY <1>1, <3>2, <3>3
  <2>2. CASE k > Len(p) /\ i <= Len(p)
    <3>1. PICK j \in Len(p) + 1 .. k - 1 : pq[j] = Lock(r)
        BY <1>3, <1>h, <2>2
    <3>2. j \in i + 1 .. k - 1
        BY <1>1, <2>2
    <3>. QED BY <3>1, <3>2
  <2>3. CASE i > Len(p)
    <3>. DEFINE a == i - Len(p)
    <3>. DEFINE b == k - Len(p)
    <3>1. a \in DOMAIN q /\ b \in DOMAIN q /\ q[a] = Unlock(r) /\ q[b] = Unlock(r) /\ a < b
        BY <1>1, <1>3, <1>s, <2>3
    <3>2. PICK j \in a + 1 .. b - 1 : q[j] = Lock(r)
        BY <3>1 DEF Closed, Nested
    <3>3. j \in 1 .. Len(q) /\ Len(p) + j \in i + 1 .. k - 1
        BY <1>1, <3>1
    <3>. QED BY <1>1, <3>2, <3>3
  <2>. QED BY <1>1, <2>1, <2>2, <2>3
<1>4. Nested(pq)
    BY <1>2, <1>3 DEF Nested
<1>5. ASSUME NEW r \in Resources PROVE ~Holds(pq, r)
  <2>. SUFFICES ASSUME NEW i \in DOMAIN pq, pq[i] = Unlock(r)
       PROVE  \E j \in 1 .. i - 1 : pq[j] = Lock(r)
    BY DEF Holds
  <2>1. CASE i <= Len(p)
    <3>1. i \in DOMAIN p /\ p[i] = Unlock(r)
        BY <1>1, <2>1
    <3>2. PICK j \in 1 .. i - 1 : p[j] = Lock(r)
        BY <3>1 DEF Closed, Holds
    <3>3. j \in 1 .. Len(p)
        BY <1>1, <3>1
    <3>. QED BY <1>1, <3>2, <3>3
  <2>2. CASE i > Len(p)
    <3>1. PICK j \in Len(p) + 1 .. i - 1 : pq[j] = Lock(r)
        BY <1>h, <2>2
    <3>2. j \in 1 .. i - 1
        BY <1>1
    <3>. QED BY <3>1, <3>2
  <2>. QED BY <1>1, <2>1, <2>2
<1>6. Closed(pq)
    BY <1>1, <1>4, <1>5 DEF Closed
<1>. QED BY <1>6 DEF pq

\* A handler run under one more mutex is a handler, when it does not take that
\* mutex itself.
LEMMA ClosedUnder ==
    ASSUME NEW p, Closed(p), NEW m \in Resources, m \notin Locks(p)
    PROVE  /\ Closed(<<Lock(m)>> \o p \o <<Unlock(m)>>)
           /\ Locks(<<Lock(m)>> \o p \o <<Unlock(m)>>) = Locks(p) \cup {m}
<1>. DEFINE s == <<Lock(m)>> \o p \o <<Unlock(m)>>
<1>. DEFINE n == Len(p) + 2
<1>p. p \in Seq(Ops) /\ Len(p) \in Nat /\ DOMAIN p = 1 .. Len(p)
    BY DEF Closed
<1>l. /\ <<Lock(m)>> \in Seq(Ops) /\ <<Unlock(m)>> \in Seq(Ops)
      /\ Len(<<Lock(m)>>) = 1 /\ Len(<<Unlock(m)>>) = 1
      /\ <<Lock(m)>>[1] = Lock(m) /\ <<Unlock(m)>>[1] = Unlock(m)
    BY OpsDiffer
<1>1. /\ <<Lock(m)>> \o p \in Seq(Ops) /\ Len(<<Lock(m)>> \o p) = 1 + Len(p)
      /\ (<<Lock(m)>> \o p)[1] = Lock(m)
      /\ \A i \in 1 .. Len(p) : (<<Lock(m)>> \o p)[i + 1] = p[i]
    BY <1>p, <1>l
<1>2. /\ s \in Seq(Ops) /\ DOMAIN s = 1 .. n /\ s[1] = Lock(m) /\ s[n] = Unlock(m)
      /\ \A i \in 1 .. Len(p) : s[i + 1] = p[i]
    BY <1>p, <1>l, <1>1
<1>. HIDE DEF s
<1>3. \A i \in 2 .. n - 1 : i - 1 \in DOMAIN p /\ s[i] = p[i - 1]
  <2>. SUFFICES ASSUME NEW i \in 2 .. n - 1 PROVE i - 1 \in DOMAIN p /\ s[i] = p[i - 1]
    OBVIOUS
  <2>1. i - 1 \in 1 .. Len(p) /\ i = (i - 1) + 1
    BY <1>p
  <2>. QED BY <1>p, <1>2, <2>1
<1>m. \A i \in 2 .. n - 1 : s[i] # Lock(m) /\ s[i] # Unlock(m)
  <2>. SUFFICES ASSUME NEW i \in 2 .. n - 1 PROVE s[i].res # m
    BY OpsDiffer
  <2>. QED BY <1>3 DEF Locks
<1>4. ASSUME NEW r \in Resources, NEW i \in DOMAIN s, s[i] = Lock(r)
      PROVE  \E k \in DOMAIN s : /\ i < k /\ s[k] = Unlock(r)
                                 /\ \A j \in i + 1 .. k - 1 : s[j] # Lock(r)
  <2>1. CASE i = 1
    <3>1. r = m
      <4>1. Lock(r) = Lock(m)
        BY <1>2, <1>4, <2>1
      <4>. QED BY <4>1, OpsDiffer
    <3>2. n \in DOMAIN s /\ 1 < n /\ \A j \in 1 + 1 .. n - 1 : s[j] # Lock(m)
        BY <1>p, <1>2, <1>m
    <3>. QED BY <1>2, <2>1, <3>1, <3>2
  <2>2. CASE i \in 2 .. n - 1
    <3>1. i - 1 \in DOMAIN p /\ p[i - 1] = Lock(r)
        BY <1>3, <1>4, <2>2
    <3>2. PICK k \in DOMAIN p : /\ i - 1 < k /\ p[k] = Unlock(r)
                                /\ \A j \in i - 1 + 1 .. k - 1 : p[j] # Lock(r)
        BY <3>1 DEF Closed, Nested
    <3>3. k + 1 \in DOMAIN s /\ i < k + 1 /\ s[k + 1] = Unlock(r)
        BY <1>p, <1>2, <2>2, <3>2
    <3>4. ASSUME NEW j \in i + 1 .. (k + 1) - 1 PROVE s[j] # Lock(r)
      <4>1. j \in 2 .. n - 1 /\ j - 1 \in i - 1 + 1 .. k - 1
        BY <1>p, <2>2, <3>2
      <4>. QED BY <1>3, <3>2, <4>1
    <3>5. \A j \in i + 1 .. (k + 1) - 1 : s[j] # Lock(r)
        BY <3>4
    <3>. DEFINE l == k + 1
    <3>6. l \in DOMAIN s /\ i < l /\ s[l] = Unlock(r) /\ \A j \in i + 1 .. l - 1 : s[j] # Lock(r)
        BY <3>3, <3>5
    <3>. HIDE DEF l
    <3>. QED BY <3>6
  <2>3. CASE i = n
    BY <1>2, <1>4, <2>3, OpsDiffer
  <2>. QED BY <1>p, <1>2, <2>1, <2>2, <2>3
<1>5. ASSUME NEW r \in Resources, NEW k \in DOMAIN s, s[k] = Unlock(r)
      PROVE  /\ \E j \in 1 .. k - 1 : s[j] = Lock(r)
             /\ \A i \in DOMAIN s : i < k /\ s[i] = Unlock(r) =>
                  \E j \in i + 1 .. k - 1 : s[j] = Lock(r)
  <2>1. k # 1
    BY <1>2, <1>5, OpsDiffer
  <2>2. CASE k = n
    <3>1. r = m
      <4>1. Unlock(r) = Unlock(m)
        BY <1>2, <1>5, <2>2
      <4>. QED BY <4>1, OpsDiffer
    <3>2. \A i \in DOMAIN s : i < k => s[i] # Unlock(r)
        BY <1>p, <1>2, <1>m, <2>2, <3>1, OpsDiffer
    <3>3. 1 \in 1 .. k - 1
        BY <1>p, <2>2
    <3>. QED BY <1>2, <3>1, <3>2, <3>3
  <2>3. CASE k \in 2 .. n - 1
    <3>1. k - 1 \in DOMAIN p /\ p[k - 1] = Unlock(r)
        BY <1>3, <1>5, <2>3
    <3>2. PICK j \in 1 .. k - 1 - 1 : p[j] = Lock(r)
        BY <3>1 DEF Closed, Holds
    <3>3. j \in 1 .. Len(p) /\ j + 1 \in 1 .. k - 1
        BY <1>p, <3>1
    <3>4. s[j + 1] = Lock(r)
        BY <1>2, <3>2, <3>3
    <3>5. ASSUME NEW i \in DOMAIN s, i < k, s[i] = Unlock(r)
          PROVE  \E l \in i + 1 .. k - 1 : s[l] = Lock(r)
      <4>1. i # 1
        BY <1>2, <3>5, OpsDiffer
      <4>2. i \in 2 .. n - 1
        BY <1>p, <1>2, <2>3, <3>5, <4>1
      <4>3. i - 1 \in DOMAIN p /\ p[i - 1] = Unlock(r) /\ i - 1 < k - 1
        BY <1>3, <2>3, <3>5, <4>2
      <4>4. PICK l \in i - 1 + 1 .. k - 1 - 1 : p[l] = Lock(r)
        BY <3>1, <4>3 DEF Closed, Nested
      <4>5. l \in 1 .. Len(p) /\ l + 1 \in i + 1 .. k - 1
        BY <1>p, <3>1, <4>2
      <4>. QED BY <1>2, <4>4, <4>5
    <3>. QED BY <3>3, <3>4, <3>5
  <2>. QED BY <1>p, <1>2, <2>1, <2>2, <2>3
<1>6. Closed(s)
  <2>1. Nested(s)
    BY <1>4, <1>5 DEF Nested
  <2>2. \A r \in Resources : ~Holds(s, r)
    BY <1>5 DEF Holds
  <2>. QED BY <1>2, <2>1, <2>2 DEF Closed
<1>7. Locks(s) = Locks(p) \cup {m}
  <2>1. ASSUME NEW i \in DOMAIN s PROVE s[i].res \in Locks(p) \cup {m}
    <3>1. CASE i \in 2 .. n - 1
        BY <1>3, <3>1 DEF Locks
    <3>2. CASE i = 1 \/ i = n
        BY <1>2, <3>2, OpsDiffer
    <3>. QED BY <1>p, <1>2, <3>1, <3>2
  <2>2. ASSUME NEW i \in DOMAIN p PROVE p[i].res \in Locks(s)
    <3>1. i + 1 \in DOMAIN s /\ s[i + 1] = p[i]
        BY <1>p, <1>2
    <3>. QED BY <3>1 DEF Locks
  <2>3. m \in Locks(s)
    <3>1. 1 \in DOMAIN s /\ s[1].res = m
        BY <1>p, <1>2, OpsDiffer
    <3>. QED BY <3>1 DEF Locks
  <2>. QED BY <2>1, <2>2, <2>3 DEF Locks
<1>. QED BY <1>6, <1>7 DEF s

\* Between two releases of a mutex it is taken.
LEMMA TakenBetween ==
    ASSUME NEW p \in Seq(Ops), Nested(p), NEW r \in Resources,
           NEW i \in DOMAIN p, NEW k \in DOMAIN p, i < k,
           p[i] = Unlock(r), p[k] = Unlock(r)
    PROVE  \E j \in DOMAIN p : i < j /\ j < k /\ p[j] = Lock(r)
<1>1. PICK j \in i + 1 .. k - 1 : p[j] = Lock(r)
    BY DEF Nested
<1>2. DOMAIN p = 1 .. Len(p) /\ Len(p) \in Nat
    OBVIOUS
<1>3. j \in DOMAIN p /\ i < j /\ j < k
    BY <1>2
<1>. QED BY <1>1, <1>3

\* The last operation of a handler.
LEMMA TailEmpty ==
    ASSUME NEW p \in Seq(Ops), p # <<>>
    PROVE  Len(p) = 1 <=> Tail(p) = <<>>
<1>1. Len(p) \in Nat /\ Len(Tail(p)) = Len(p) - 1 /\ Tail(p) \in Seq(Ops)
    OBVIOUS
<1>2. ASSUME NEW q \in Seq(Ops) PROVE Len(q) = 0 <=> q = <<>>
    OBVIOUS
<1>3. Len(Tail(p)) = 0 <=> Tail(p) = <<>>
    BY <1>1, <1>2
<1>. QED BY <1>1, <1>3

\* What is left to release when a handler has executed one more operation.
LEMMA NextOperation ==
    ASSUME NEW p \in Seq(Ops), p # <<>>, Nested(p)
    PROVE  /\ Head(p) \in Ops /\ Head(p).res \in Locks(p)
           /\ Tail(p) \in Seq(Ops) /\ Nested(Tail(p)) /\ Locks(Tail(p)) \subseteq Locks(p)
           /\ \A r \in Resources :
                /\ r # Head(p).res => (Holds(Tail(p), r) <=> Holds(p, r))
                /\ Head(p) = Lock(r) => Holds(Tail(p), r)
                /\ Head(p) = Unlock(r) => Holds(p, r) /\ ~Holds(Tail(p), r)
<1>. DEFINE q == Tail(p)
<1>1. /\ q \in Seq(Ops) /\ DOMAIN p = 1 .. Len(p) /\ DOMAIN q = 1 .. Len(p) - 1
      /\ Len(p) \in Nat \ {0} /\ Head(p) = p[1] /\ p[1] \in Ops
      /\ \A i \in 1 .. Len(p) - 1 : q[i] = p[i + 1]
    OBVIOUS
<1>. HIDE DEF q
<1>2. \A i \in DOMAIN p : i > 1 => i - 1 \in DOMAIN q /\ q[i - 1] = p[i]
  <2>. SUFFICES ASSUME NEW i \in DOMAIN p, i > 1 PROVE i - 1 \in DOMAIN q /\ q[i - 1] = p[i]
    OBVIOUS
  <2>1. i - 1 \in 1 .. Len(p) - 1 /\ i = (i - 1) + 1
    BY <1>1
  <2>. QED BY <1>1, <2>1
<1>3. Locks(q) \subseteq Locks(p) /\ p[1].res \in Locks(p)
  <2>1. \A i \in DOMAIN q : i + 1 \in DOMAIN p /\ q[i] = p[i + 1]
    BY <1>1
  <2>2. 1 \in DOMAIN p
    BY <1>1
  <2>. QED BY <2>1, <2>2 DEF Locks
<1>4. ASSUME NEW r \in Resources, NEW i \in DOMAIN q, q[i] = Lock(r)
      PROVE  \E k \in DOMAIN q : /\ i < k /\ q[k] = Unlock(r)
                                 /\ \A j \in i + 1 .. k - 1 : q[j] # Lock(r)
  <2>1. i + 1 \in DOMAIN p /\ p[i + 1] = Lock(r)
    BY <1>1, <1>4
  <2>2. PICK k \in DOMAIN p : /\ i + 1 < k /\ p[k] = Unlock(r)
                              /\ \A j \in i + 1 + 1 .. k - 1 : p[j] # Lock(r)
    BY <2>1 DEF Nested
  <2>3. k - 1 \in DOMAIN q /\ q[k - 1] = Unlock(r) /\ i < k - 1
    BY <1>1, <1>2, <2>2
  <2>4. ASSUME NEW j \in i + 1 .. k - 1 - 1 PROVE q[j] # Lock(r)
    <3>1. j + 1 \in i + 1 + 1 .. k - 1 /\ j \in 1 .. Len(p) - 1
        BY <1>1, <2>3
    <3>. QED BY <1>1, <2>2, <3>1
  <2>. QED BY <2>3, <2>4
<1>5. ASSUME NEW r \in Resources, NEW i \in DOMAIN q, q[i] = Unlock(r),
             NEW k \in DOMAIN q, i < k, q[k] = Unlock(r)
      PROVE  \E j \in i + 1 .. k - 1 : q[j] = Lock(r)
  <2>1. /\ i + 1 \in DOMAIN p /\ p[i + 1] = Unlock(r) /\ i + 1 < k + 1
        /\ k + 1 \in DOMAIN p /\ p[k + 1] = Unlock(r)
    BY <1>1, <1>5
  <2>2. PICK j \in DOMAIN p : i + 1 < j /\ j < k + 1 /\ p[j] = Lock(r)
    BY <2>1, TakenBetween
  <2>3. j - 1 \in i + 1 .. k - 1 /\ j > 1
    BY <1>1, <2>2
  <2>. QED BY <1>2, <2>2, <2>3
<1>6. Nested(q)
    BY <1>4, <1>5 DEF Nested
<1>7. ASSUME NEW r \in Resources, p[1] # Lock(r), Holds(q, r) PROVE Holds(p, r)
  <2>1. PICK i \in DOMAIN q : q[i] = Unlock(r) /\ \A j \in 1 .. i - 1 : q[j] # Lock(r)
    BY <1>7 DEF Holds
  <2>2. i + 1 \in DOMAIN p /\ p[i + 1] = Unlock(r)
    BY <1>1, <2>1
  <2>3. ASSUME NEW j \in 1 .. i + 1 - 1 PROVE p[j] # Lock(r)
    <3>1. CASE j = 1
        BY <1>7, <3>1
    <3>2. CASE j > 1
      <4>1. j - 1 \in 1 .. i - 1 /\ j \in DOMAIN p
        BY <1>1, <2>2, <3>2
      <4>. QED BY <1>2, <2>1, <3>2, <4>1
    <3>. QED BY <3>1, <3>2
  <2>. QED BY <2>2, <2>3 DEF Holds
<1>8. ASSUME NEW r \in Resources, p[1] # Unlock(r), Holds(p, r) PROVE Holds(q, r)
  <2>1. PICK i \in DOMAIN p : p[i] = Unlock(r) /\ \A j \in 1 .. i - 1 : p[j] # Lock(r)
    BY <1>8 DEF Holds
  <2>2. i > 1
    BY <1>1, <1>8, <2>1
  <2>3. i - 1 \in DOMAIN q /\ q[i - 1] = Unlock(r)
    BY <1>2, <2>1, <2>2
  <2>4. ASSUME NEW j \in 1 .. i - 1 - 1 PROVE q[j] # Lock(r)
    <3>1. j + 1 \in 1 .. i - 1 /\ j \in 1 .. Len(p) - 1
        BY <1>1, <2>3
    <3>. QED BY <1>1, <2>1, <3>1
  <2>. QED BY <2>3, <2>4 DEF Holds
<1>9. ASSUME NEW r \in Resources, p[1] = Lock(r) PROVE Holds(q, r)
  <2>1. 1 \in DOMAIN p
    BY <1>1
  <2>2. PICK k \in DOMAIN p : /\ 1 < k /\ p[k] = Unlock(r)
                              /\ \A j \in 1 + 1 .. k - 1 : p[j] # Lock(r)
    BY <1>9, <2>1 DEF Nested
  <2>3. k - 1 \in DOMAIN q /\ q[k - 1] = Unlock(r)
    BY <1>2, <2>2
  <2>4. ASSUME NEW j \in 1 .. k - 1 - 1 PROVE q[j] # Lock(r)
    <3>1. j + 1 \in 1 + 1 .. k - 1 /\ j \in 1 .. Len(p) - 1
        BY <1>1, <2>3
    <3>. QED BY <1>1, <2>2, <3>1
  <2>. QED BY <2>3, <2>4 DEF Holds
<1>10. ASSUME NEW r \in Resources, p[1] = Unlock(r) PROVE Holds(p, r) /\ ~Holds(q, r)
  <2>1. 1 \in DOMAIN p /\ \A j \in 1 .. 1 - 1 : p[j] # Lock(r)
    BY <1>1
  <2>2. Holds(p, r)
    BY <1>10, <2>1 DEF Holds
  <2>3. ASSUME NEW i \in DOMAIN q, q[i] = Unlock(r) PROVE \E j \in 1 .. i - 1 : q[j] = Lock(r)
    <3>1. i + 1 \in DOMAIN p /\ 1 < i + 1 /\ p[i + 1] = Unlock(r)
        BY <1>1, <2>3
    <3>2. PICK j \in DOMAIN p : 1 < j /\ j < i + 1 /\ p[j] = Lock(r)
        BY <1>10, <2>1, <3>1, TakenBetween
    <3>3. j > 1 /\ j - 1 \in 1 .. i - 1
        BY <1>1, <3>2
    <3>. QED BY <1>2, <3>2, <3>3
  <2>. QED BY <2>2, <2>3 DEF Holds
<1>11. \A r \in Resources : r # p[1].res => p[1] # Lock(r) /\ p[1] # Unlock(r)
    BY OpsDiffer
<1>. QED BY <1>1, <1>3, <1>6, <1>7, <1>8, <1>9, <1>10, <1>11 DEF q

\* Every handler of both event loops locks and unlocks in pairs, and of the
\* RIC's structures the iApp thread reaches those a forwarded request needs.
LEMMA HandlersClosed ==
    ASSUME NEW t \in Threads, NEW h \in Handlers(t)
    PROVE  /\ Closed(h) /\ h # <<>>
           /\ t = "iapp" => Locks(h) \cap RicRes \subseteq {"pending", "e2_nodes", "ep"}
<1>. DEFINE Good(p, L) == Closed(p) /\ p # <<>> /\ Locks(p) \subseteq L
<1>1. ASSUME NEW p, NEW q, NEW L, NEW M, Good(p, L), Good(q, M) PROVE Good(p \o q, L \cup M)
  <2>1. Closed(p \o q)
    BY <1>1, ClosedConcat
  <2>2. p \in Seq(Ops) /\ q \in Seq(Ops) /\ p # <<>>
    BY <1>1 DEF Closed
  <2>3. p \o q # <<>> /\ Locks(p \o q) = Locks(p) \cup Locks(q)
    BY <2>2, LocksConcat
  <2>. QED BY <1>1, <2>1, <2>3
<1>2. ASSUME NEW r \in Resources PROVE Good(Use(r), {r})
  <2>1. Use(r) # <<>>
    BY DEF Use
  <2>. QED BY <2>1, UseClosed
<1>r. /\ "ep" \in Resources /\ "e2_nodes" \in Resources /\ "conn_e2_nodes" \in Resources
      /\ "pending" \in Resources /\ "iapp_ep" \in Resources /\ "xapps" \in Resources
      /\ "reg_e2_nodes" \in Resources /\ "map_ric_id" \in Resources
    BY DEF Resources, RicRes, IAppRes
<1>u. /\ Good(Use("ep"), {"ep"}) /\ Good(Use("e2_nodes"), {"e2_nodes"})
      /\ Good(Use("conn_e2_nodes"), {"conn_e2_nodes"}) /\ Good(Use("pending"), {"pending"})
      /\ Good(Use("iapp_ep"), {"iapp_ep"}) /\ Good(Use("xapps"), {"xapps"})
      /\ Good(Use("reg_e2_nodes"), {"reg_e2_nodes"}) /\ Good(Use("map_ric_id"), {"map_ric_id"})
    BY <1>2, <1>r
<1>3. ASSUME NEW p, NEW q, NEW L, NEW M, Good(p, L), Good(q, M) PROVE \E N : Good(p \o q, N)
    BY <1>1, <1>3
<1>f. Good(Forward, ({"pending"} \cup {"e2_nodes"}) \cup {"ep"})
  <2>1. Good(Use("pending") \o Use("e2_nodes"), {"pending"} \cup {"e2_nodes"})
    BY <1>1, <1>u
  <2>. HIDE DEF Good
  <2>. QED BY <1>1, <1>u, <2>1 DEF Forward
<1>. DEFINE IAppLocks == IAppRes \cup {"pending", "e2_nodes", "ep"}
<1>4. Good(IAppSetup, IAppLocks)
  <2>. HIDE DEF Good
  <2>1. Good(Use("iapp_ep") \o Use("reg_e2_nodes"), {"iapp_ep"} \cup {"reg_e2_nodes"})
    BY <1>1, <1>u
  <2>2. Good(Use("iapp_ep") \o Use("reg_e2_nodes") \o Use("xapps"),
             ({"iapp_ep"} \cup {"reg_e2_nodes"}) \cup {"xapps"})
    BY <1>1, <1>u, <2>1
  <2>3. Good(IAppSetup, (({"iapp_ep"} \cup {"reg_e2_nodes"}) \cup {"xapps"}) \cup {"iapp_ep"})
    BY <1>1, <1>u, <2>2 DEF IAppSetup
  <2>. QED BY <2>3 DEF Good, IAppRes
<1>5. Good(IAppRequest, IAppLocks)
  <2>. DEFINE held == <<Lock("map_ric_id")>> \o Forward \o <<Unlock("map_ric_id")>>
  <2>1. "map_ric_id" \notin Locks(Forward)
    BY <1>f
  <2>2. Closed(held) /\ Locks(held) = Locks(Forward) \cup {"map_ric_id"}
    BY <1>f, <1>r, <2>1, ClosedUnder
  <2>3. held # <<>>
    <3>1. 1 \in {1} /\ "map_ric_id" \in Locks(held)
        BY <2>2
    <3>. QED BY <3>1 DEF Locks
  <2>4. Good(held, Locks(Forward) \cup {"map_ric_id"})
    BY <2>2, <2>3
  <2>. HIDE DEF Good, held
  <2>5. Good(Use("iapp_ep") \o Use("reg_e2_nodes"), {"iapp_ep"} \cup {"reg_e2_nodes"})
    BY <1>1, <1>u
  <2>6. Good((Use("iapp_ep") \o Use("reg_e2_nodes")) \o held,
             ({"iapp_ep"} \cup {"reg_e2_nodes"}) \cup (Locks(Forward) \cup {"map_ric_id"}))
    BY <1>1, <2>4, <2>5
  <2>7. IAppRequest = (Use("iapp_ep") \o Use("reg_e2_nodes")) \o held
    <3>1. /\ Use("iapp_ep") \o Use("reg_e2_nodes") \in Seq(Ops) /\ Forward \in Seq(Ops)
          /\ <<Lock("map_ric_id")>> \in Seq(Ops) /\ <<Unlock("map_ric_id")>> \in Seq(Ops)
        BY <1>f, <1>r, <2>5, OpsDiffer DEF Good, Closed
    <3>. DEFINE a == Use("iapp_ep") \o Use("reg_e2_nodes")
    <3>. DEFINE l == <<Lock("map_ric_id")>>
    <3>. DEFINE u == <<Unlock("map_ric_id")>>
    <3>a. a \in Seq(Ops) /\ l \in Seq(Ops) /\ u \in Seq(Ops)
        BY <3>1
    <3>b. IAppRequest = ((a \o l) \o Forward) \o u /\ held = (l \o Forward) \o u
        BY DEF IAppRequest, held
    <3>. HIDE DEF a, l, u
    <3>c. Forward \in Seq(Ops)
        BY <3>1
    <3>2. (a \o l) \o Forward = a \o (l \o Forward)
        BY <3>c, <3>a, ConcatRegroups
    <3>d. l \o Forward \in Seq(Ops)
        BY <3>c, <3>a
    <3>3. (a \o (l \o Forward)) \o u = a \o ((l \o Forward) \o u)
        BY <3>d, <3>a, ConcatRegroups
    <3>4. IAppRequest = a \o held
        BY <3>b, <3>2, <3>3
    <3>. QED BY <3>4 DEF a
  <2>. QED BY <1>f, <2>6, <2>7 DEF Good, IAppRes
<1>6. Good(IAppDelete, IAppLocks)
  <2>. HIDE DEF Good
  <2>1. Good(Use("iapp_ep") \o Use("map_ric_id"), {"iapp_ep"} \cup {"map_ric_id"})
    BY <1>1, <1>u
  <2>2. Good(IAppDelete, ({"iapp_ep"} \cup {"map_ric_id"})
                           \cup (({"pending"} \cup {"e2_nodes"}) \cup {"ep"}))
    BY <1>1, <1>f, <2>1 DEF IAppDelete
  <2>. QED BY <2>2 DEF Good, IAppRes
<1>7. CASE t = "iapp"
  <2>1. h \in {IAppSetup, IAppRequest, IAppDelete}
    BY <1>7 DEF Handlers
  <2>2. IAppLocks \cap RicRes \subseteq {"pending", "e2_nodes", "ep"}
    BY DEF IAppRes, RicRes
  <2>. QED BY <1>4, <1>5, <1>6, <2>1, <2>2
<1>8. CASE t = "ric"
  <2>. HIDE DEF Good
  <2>1. \E N : Good(RicNotifyIApp, N)
    BY <1>3, <1>u DEF RicNotifyIApp
  <2>2. \E N : Good(RicSetup, N)
    BY <1>3, <1>u DEF RicSetup
  <2>3. \E N : Good(Use("ep") \o Use("pending"), N)
    BY <1>3, <1>u
  <2>4. \E N : Good(RicAnswer, N)
    BY <1>3, <2>1, <2>3 DEF RicAnswer
  <2>5. \E N : Good(RicIndication, N)
    BY <1>3, <1>u, <2>1 DEF RicIndication
  <2>6. \E N : Good(RicShutdown, N)
    BY <1>3, <1>u DEF RicShutdown
  <2>7. \E N : Good(RicTimeout, N)
    BY <1>u DEF RicTimeout
  <2>8. h \in {RicSetup, RicAnswer, RicIndication, RicShutdown, RicTimeout}
    BY <1>8 DEF Handlers
  <2>. QED BY <1>8, <2>2, <2>4, <2>5, <2>6, <2>7, <2>8 DEF Good
<1>. QED BY <1>7, <1>8 DEF Threads

\* The order in which free_near_ric stops and frees.
LEMMA TeardownOrder ==
    /\ DOMAIN Teardown = 1 .. 12 /\ Len(Teardown) = 12
    /\ Teardown[1] = Stop("ric") /\ Teardown[2] = Await("ric")
    /\ Teardown[7] = Stop("iapp") /\ Teardown[8] = Await("iapp")
    /\ \A i \in 3 .. 6 : \E r \in RicRes : Teardown[i] = Free(r)
    /\ \A i \in 9 .. 12 : \E r \in IAppRes : Teardown[i] = Free(r)
<1>. DEFINE a == <<"ep", "e2_nodes", "conn_e2_nodes", "pending">>
<1>. DEFINE b == <<"iapp_ep", "xapps", "reg_e2_nodes", "map_ric_id">>
<1>. DEFINE S == {Stop("ric"), Await("ric"), Stop("iapp"), Await("iapp")}
                   \cup {Free(r) : r \in Resources}
<1>1. /\ FreeAll(a) \in Seq(S) /\ Len(FreeAll(a)) = 4
      /\ \A i \in 1 .. 4 : \E r \in RicRes : FreeAll(a)[i] = Free(r)
  <2>1. a \in Seq(RicRes) /\ Len(a) = 4 /\ DOMAIN a = 1 .. 4 /\ \A i \in 1 .. 4 : a[i] \in RicRes
    BY DEF RicRes
  <2>. HIDE DEF a
  <2>2. \A i \in 1 .. 4 : FreeAll(a)[i] = Free(a[i])
    BY <2>1 DEF FreeAll
  <2>3. FreeAll(a) \in [1 .. 4 -> S]
    BY <2>1 DEF FreeAll, Resources
  <2>. HIDE DEF S
  <2>4. FreeAll(a) \in Seq(S)
    BY <2>3, SeqDef, 4 \in Nat
  <2>5. Len(FreeAll(a)) = 4
    BY <2>3, <2>4
  <2>. QED BY <2>1, <2>2, <2>4, <2>5
<1>2. /\ FreeAll(b) \in Seq(S) /\ Len(FreeAll(b)) = 4
      /\ \A i \in 1 .. 4 : \E r \in IAppRes : FreeAll(b)[i] = Free(r)
  <2>1. b \in Seq(IAppRes) /\ Len(b) = 4 /\ DOMAIN b = 1 .. 4 /\ \A i \in 1 .. 4 : b[i] \in IAppRes
    BY DEF IAppRes
  <2>. HIDE DEF b
  <2>2. \A i \in 1 .. 4 : FreeAll(b)[i] = Free(b[i])
    BY <2>1 DEF FreeAll
  <2>3. FreeAll(b) \in [1 .. 4 -> S]
    BY <2>1 DEF FreeAll, Resources
  <2>. HIDE DEF S
  <2>4. FreeAll(b) \in Seq(S)
    BY <2>3, SeqDef, 4 \in Nat
  <2>5. Len(FreeAll(b)) = 4
    BY <2>3, <2>4
  <2>. QED BY <2>1, <2>2, <2>4, <2>5
<1>3. Stop("ric") \in S /\ Await("ric") \in S /\ Stop("iapp") \in S /\ Await("iapp") \in S
    OBVIOUS
<1>. DEFINE A == FreeAll(a)
<1>. DEFINE B == FreeAll(b)
<1>4. Teardown = <<Stop("ric"), Await("ric")>> \o A \o <<Stop("iapp"), Await("iapp")>> \o B
    BY DEF Teardown
<1>5. A \in Seq(S) /\ Len(A) = 4 /\ B \in Seq(S) /\ Len(B) = 4
    BY <1>1, <1>2
<1>. HIDE DEF A, B, S
<1>. DEFINE sr == <<Stop("ric"), Await("ric")>>
<1>. DEFINE si == <<Stop("iapp"), Await("iapp")>>
<1>s. /\ sr \in Seq(S) /\ Len(sr) = 2 /\ sr[1] = Stop("ric") /\ sr[2] = Await("ric")
      /\ si \in Seq(S) /\ Len(si) = 2 /\ si[1] = Stop("iapp") /\ si[2] = Await("iapp")
    BY <1>3
<1>t. Teardown = ((sr \o A) \o si) \o B
    BY <1>4
<1>. HIDE DEF sr, si
<1>. DEFINE c == sr \o A
<1>6. /\ c \in Seq(S) /\ Len(c) = 6 /\ c[1] = Stop("ric") /\ c[2] = Await("ric")
      /\ c[3] = A[1] /\ c[4] = A[2] /\ c[5] = A[3] /\ c[6] = A[4]
  <2>1. /\ c \in Seq(S) /\ Len(c) = 2 + 4
        /\ \A i \in 1 .. 2 : c[i] = sr[i] /\ \A j \in 1 .. 4 : c[2 + j] = A[j]
      <3>0. sr \in Seq(S) /\ A \in Seq(S)
        BY <1>s, <1>5
      <3>1. /\ c \in Seq(S) /\ Len(c) = Len(sr) + Len(A)
            /\ DOMAIN c = 1 .. Len(sr) + Len(A)
            /\ \A i \in 1 .. Len(sr) : c[i] = sr[i]
            /\ \A i \in 1 .. Len(A) : c[Len(sr) + i] = A[i]
        BY ONLY <3>0, ConcatAt
      <3>. HIDE DEF c
      <3>. QED BY <1>s, <1>5, <3>1
  <2>. HIDE DEF c
  <2>2. c[2 + 1] = A[1] /\ c[2 + 2] = A[2] /\ c[2 + 3] = A[3] /\ c[2 + 4] = A[4]
    BY <2>1
  <2>. QED BY <1>s, <2>1, <2>2
<1>. HIDE DEF c
<1>. DEFINE d == c \o si
<1>7. /\ d \in Seq(S) /\ Len(d) = 8 /\ d[7] = Stop("iapp") /\ d[8] = Await("iapp")
      /\ \A i \in 1 .. 6 : d[i] = c[i]
  <2>1. /\ d \in Seq(S) /\ Len(d) = 6 + 2
        /\ \A i \in 1 .. 6 : d[i] = c[i]
        /\ \A j \in 1 .. 2 : d[6 + j] = si[j]
      <3>0. c \in Seq(S) /\ si \in Seq(S)
        BY <1>s, <1>6
      <3>1. /\ d \in Seq(S) /\ Len(d) = Len(c) + Len(si)
            /\ DOMAIN d = 1 .. Len(c) + Len(si)
            /\ \A i \in 1 .. Len(c) : d[i] = c[i]
            /\ \A i \in 1 .. Len(si) : d[Len(c) + i] = si[i]
        BY ONLY <3>0, ConcatAt
      <3>. HIDE DEF d
      <3>. QED BY <1>s, <1>6, <3>1
  <2>. HIDE DEF d
  <2>2. d[6 + 1] = si[1] /\ d[6 + 2] = si[2]
    BY <2>1
  <2>. QED BY <1>s, <2>1, <2>2
<1>. HIDE DEF d
<1>8. Teardown = d \o B
    BY <1>t DEF c, d
<1>9. /\ Len(Teardown) = 12 /\ DOMAIN Teardown = 1 .. 12
      /\ \A i \in 1 .. 8 : Teardown[i] = d[i]
      /\ Teardown[9] = B[1] /\ Teardown[10] = B[2] /\ Teardown[11] = B[3] /\ Teardown[12] = B[4]
  <2>. DEFINE e == d \o B
  <2>1. /\ Len(e) = 8 + 4 /\ DOMAIN e = 1 .. 8 + 4
        /\ \A i \in 1 .. 8 : e[i] = d[i]
        /\ \A j \in 1 .. 4 : e[8 + j] = B[j]
      <3>0. d \in Seq(S) /\ B \in Seq(S)
        BY <1>5, <1>7
      <3>1. /\ e \in Seq(S) /\ Len(e) = Len(d) + Len(B)
            /\ DOMAIN e = 1 .. Len(d) + Len(B)
            /\ \A i \in 1 .. Len(d) : e[i] = d[i]
            /\ \A i \in 1 .. Len(B) : e[Len(d) + i] = B[i]
        BY ONLY <3>0, ConcatAt
      <3>. HIDE DEF e
      <3>. QED BY <1>5, <1>7, <3>1
  <2>. HIDE DEF e
  <2>2. e[8 + 1] = B[1] /\ e[8 + 2] = B[2] /\ e[8 + 3] = B[3] /\ e[8 + 4] = B[4]
    BY <2>1
  <2>3. Teardown = e
    BY <1>8 DEF e
  <2>. QED BY <2>1, <2>2, <2>3
<1>10. \A i \in 3 .. 6 : \E r \in RicRes : Teardown[i] = Free(r)
  <2>1. \A i \in 3 .. 6 : i = 3 \/ i = 4 \/ i = 5 \/ i = 6
    OBVIOUS
  <2>2. \A i \in 1 .. 4 : \E r \in RicRes : A[i] = Free(r)
    BY <1>1 DEF A
  <2>3. Teardown[3] = A[1] /\ Teardown[4] = A[2] /\ Teardown[5] = A[3] /\ Teardown[6] = A[4]
    BY <1>6, <1>7, <1>9
  <2>. QED BY <2>1, <2>2, <2>3
<1>11. \A i \in 9 .. 12 : \E r \in IAppRes : Teardown[i] = Free(r)
  <2>1. \A i \in 9 .. 12 : i = 9 \/ i = 10 \/ i = 11 \/ i = 12
    OBVIOUS
  <2>2. \A i \in 1 .. 4 : \E r \in IAppRes : B[i] = Free(r)
    BY <1>2 DEF B
  <2>. QED BY <1>9, <2>1, <2>2
<1>. QED BY <1>6, <1>7, <1>9, <1>10, <1>11

-----------------------------------------------------------------------------
StopTypes ==
    /\ pc \in [Threads -> {"test", "wait", "handle", "exited"}]
    /\ prog \in [Threads -> Seq(Ops)]
    /\ stopped \in [Threads -> BOOLEAN] /\ token \in [Threads -> BOOLEAN]
    /\ owner \in [Resources -> Threads \cup {"none"}]
    /\ step \in 0 .. 13

\* A thread has operations left exactly inside a handler, and says that it has
\* stopped exactly when it has left its loop.
LoopsInv ==
    \A t \in Threads :
        /\ pc[t] = "handle" <=> prog[t] # <<>>
        /\ stopped[t] <=> pc[t] = "exited"
        /\ Nested(prog[t])
        /\ t = "iapp" => Locks(prog[t]) \cap RicRes \subseteq {"pending", "e2_nodes", "ep"}

\* Nothing is freed before its thread has stopped.
OrderInv ==
    /\ step > 2 => stopped["ric"]
    /\ step > 8 => stopped["iapp"]
    /\ step <= 2 => live = Resources
    /\ step <= 8 => IAppRes \subseteq live

StopInv == StopTypes /\ LoopsInv /\ LocksReleased /\ OrderInv /\ FaultsExplained

\* A mutex is held by the thread whose handler has still to release it.
LEMMA HeldByHandler ==
    LocksReleased <=> \A r \in Resources, t \in Threads : owner[r] = t <=> Holds(prog[t], r)
    BY DEF LocksReleased, Holds

\* The RIC before its stop.
LEMMA StopInit == Init => StopInv
<1>. SUFFICES ASSUME Init PROVE StopInv
    OBVIOUS
<1>1. StopTypes
    BY DEF Init, StopTypes
<1>e. /\ DOMAIN <<>> = {} /\ Nested(<<>>) /\ Locks(<<>>) = {}
      /\ \A r \in Resources : ~Holds(<<>>, r)
    BY DEF Nested, Locks, Holds
<1>2. LoopsInv
    BY <1>e DEF Init, LoopsInv
<1>3. LocksReleased
  <2>1. \A r \in Resources, t \in Threads : owner[r] # t /\ prog[t] = <<>>
    BY DEF Init, Threads
  <2>. QED BY <1>e, <2>1, HeldByHandler
<1>4. OrderInv /\ FaultsExplained
    BY DEF Init, OrderInv, FaultsExplained, Resources
<1>. QED BY <1>1, <1>2, <1>3, <1>4 DEF StopInv

\* The next operation of a handler.
LEMMA HandleStep ==
    ASSUME StopInv, NEW t \in Threads, Handle(t)
    PROVE  StopInv'
<1>. USE DEF StopInv
<1>. DEFINE p == prog[t]
<1>. DEFINE r == Head(p).res
<1>1. p \in Seq(Ops) /\ p # <<>> /\ Nested(p) /\ pc[t] = "handle"
    BY DEF Handle, StopTypes, LoopsInv
<1>2. /\ Head(p) \in Ops /\ r \in Locks(p) /\ r \in Resources
      /\ Tail(p) \in Seq(Ops) /\ Nested(Tail(p)) /\ Locks(Tail(p)) \subseteq Locks(p)
  <2>1. /\ Head(p) \in Ops /\ r \in Locks(p)
        /\ Tail(p) \in Seq(Ops) /\ Nested(Tail(p)) /\ Locks(Tail(p)) \subseteq Locks(p)
    BY <1>1, NextOperation
  <2>. QED BY <2>1 DEF Ops
<1>3. \A q \in Resources :
         /\ q # r => (Holds(Tail(p), q) <=> Holds(p, q))
         /\ Head(p) = Lock(q) => Holds(Tail(p), q)
         /\ Head(p) = Unlock(q) => Holds(p, q) /\ ~Holds(Tail(p), q)
    BY <1>1, NextOperation
<1>4. (Head(p).op = "lock" /\ Head(p) = Lock(r)) \/ (Head(p).op = "unlock" /\ Head(p) = Unlock(r))
    BY <1>2 DEF Ops, Lock, Unlock
<1>o. \A q \in Resources, w \in Threads : owner[q] = w <=> Holds(prog[w], q)
    BY HeldByHandler
<1>u. UNCHANGED <<token, stopped, live, step>> /\ fault = NoFault
    BY DEF Handle, Running
<1>r. CASE r \notin live
  <2>1. fault' = [who |-> t, res |-> r] /\ UNCHANGED <<pc, prog, owner>>
    BY <1>r DEF Handle
  <2>2. t # "ric"
    <3>1. step > 2
        BY <1>r, <1>2 DEF OrderInv, StopTypes
    <3>2. pc["ric"] = "exited"
        BY <3>1 DEF OrderInv, LoopsInv, Threads
    <3>. QED BY <1>1, <3>2
  <2>3. t = "iapp"
    BY <2>2 DEF Threads
  <2>4. ~stopped["iapp"] /\ step <= 8 /\ step > 2
    <3>1. ~stopped["iapp"]
        BY <1>1, <2>3 DEF LoopsInv
    <3>2. step <= 8 /\ step > 2
        BY <1>r, <1>2, <3>1 DEF OrderInv, StopTypes
    <3>. QED BY <3>1, <3>2
  <2>5. pc["ric"] = "exited"
    BY <2>4 DEF OrderInv, LoopsInv, Threads
  <2>6. r \in {"pending", "e2_nodes", "ep"}
    <3>1. r \in RicRes
        BY <1>r, <1>2, <2>4 DEF OrderInv, Resources
    <3>. QED BY <1>2, <2>3, <3>1 DEF LoopsInv
  <2>7. FaultsExplained'
    BY <1>1, <1>u, <2>1, <2>3, <2>4, <2>5, <2>6 DEF FaultsExplained
  <2>8. StopTypes' /\ LoopsInv' /\ OrderInv' /\ LocksReleased'
    BY <1>u, <2>1 DEF StopTypes, LoopsInv, OrderInv, LocksReleased
  <2>. QED BY <2>7, <2>8
<1>l. CASE r \in live
  <2>1. /\ Head(p).op = "lock" => owner[r] = "none"
        /\ owner' = [owner EXCEPT ![r] = IF Head(p).op = "lock" THEN t ELSE "none"]
        /\ prog' = [prog EXCEPT ![t] = Tail(p)]
        /\ pc' = [pc EXCEPT ![t] = IF Len(p) = 1 THEN "test" ELSE "handle"]
        /\ fault' = fault
    BY <1>l DEF Handle
  <2>. HIDE DEF p, r
  <2>2. StopTypes'
    BY <1>2, <1>u, <2>1 DEF StopTypes
  <2>3. LoopsInv'
    <3>. SUFFICES ASSUME NEW w \in Threads
         PROVE  /\ pc'[w] = "handle" <=> prog'[w] # <<>>
                /\ stopped'[w] <=> pc'[w] = "exited"
                /\ Nested(prog'[w])
                /\ w = "iapp" => Locks(prog'[w]) \cap RicRes \subseteq {"pending", "e2_nodes", "ep"}
        BY DEF LoopsInv
    <3>1. CASE w # t
        BY <1>u, <2>1, <3>1 DEF LoopsInv, StopTypes
    <3>2. CASE w = t
      <4>1. prog'[w] = Tail(p) /\ pc'[w] = IF Len(p) = 1 THEN "test" ELSE "handle"
        BY <2>1, <3>2 DEF StopTypes
      <4>2. Len(p) = 1 <=> Tail(p) = <<>>
        BY <1>1, TailEmpty
      <4>3. ~stopped[t]
        BY <1>1 DEF LoopsInv
      <4>4. t = "iapp" => Locks(p) \cap RicRes \subseteq {"pending", "e2_nodes", "ep"}
        BY DEF LoopsInv, p
      <4>. QED BY <1>2, <1>u, <3>2, <4>1, <4>2, <4>3, <4>4
    <3>. QED BY <3>1, <3>2
  <2>4. LocksReleased'
    <3>. SUFFICES ASSUME NEW q \in Resources, NEW w \in Threads
         PROVE  owner'[q] = w <=> Holds(prog'[w], q)
        BY HeldByHandler DEF LocksReleased, Holds
    <3>1. owner[q] = w <=> Holds(prog[w], q)
        BY <1>o
    <3>n. w # "none" /\ t # "none"
        BY DEF Threads
    <3>2. CASE q # r
      <4>1. owner'[q] = owner[q]
        BY <2>1, <3>2 DEF StopTypes
      <4>2. CASE w # t
        BY <2>1, <3>1, <4>1, <4>2 DEF StopTypes
      <4>3. CASE w = t
        <5>1. prog'[w] = Tail(p) /\ prog[w] = p
            BY <2>1, <4>3 DEF StopTypes, p
        <5>. QED BY <1>3, <3>1, <3>2, <4>1, <5>1
      <4>. QED BY <4>2, <4>3
    <3>3. CASE q = r /\ w # t
      <4>1. prog'[w] = prog[w]
        BY <2>1, <3>3 DEF StopTypes
      <4>2. owner[r] # w
        <5>1. CASE Head(p).op = "lock"
            BY <2>1, <3>n, <5>1
        <5>2. CASE Head(p) = Unlock(r)
          <6>1. Holds(p, r)
            BY <1>2, <1>3, <5>2
          <6>2. owner[r] = t
            BY <1>2, <1>o, <6>1 DEF p
          <6>. QED BY <3>3, <6>2
        <5>. QED BY <1>4, <5>1, <5>2
      <4>3. owner'[r] # w
        BY <1>2, <2>1, <3>3, <3>n DEF StopTypes
      <4>. QED BY <3>1, <3>3, <4>1, <4>2, <4>3
    <3>4. CASE q = r /\ w = t
      <4>1. prog'[w] = Tail(p)
        BY <2>1, <3>4 DEF StopTypes
      <4>2. CASE Head(p).op = "lock" /\ Head(p) = Lock(r)
        <5>1. owner'[r] = t
            BY <1>2, <2>1, <4>2 DEF StopTypes
        <5>. QED BY <1>2, <1>3, <3>4, <4>1, <4>2, <5>1
      <4>3. CASE Head(p).op = "unlock" /\ Head(p) = Unlock(r)
        <5>1. owner'[r] = "none"
            BY <1>2, <2>1, <4>3 DEF StopTypes
        <5>. QED BY <1>2, <1>3, <3>n, <3>4, <4>1, <4>3, <5>1
      <4>. QED BY <1>4, <4>2, <4>3
    <3>. QED BY <3>2, <3>3, <3>4
  <2>5. OrderInv'
    BY <1>u DEF OrderInv
  <2>6. FaultsExplained'
    BY <1>u, <2>1 DEF FaultsExplained
  <2>. QED BY <2>2, <2>3, <2>4, <2>5, <2>6
<1>. QED BY <1>r, <1>l

\* Destroying a structure: only the iApp thread can be inside a mutex of the
\* RIC, and nobody inside one of the iApp.
LEMMA FreeStep ==
    ASSUME StopInv, StopFree
    PROVE  StopInv'
<1>. USE DEF StopInv
<1>. DEFINE r == Teardown[step].res
<1>o. \A q \in Resources, w \in Threads : owner[q] = w <=> Holds(prog[w], q)
    BY HeldByHandler
<1>e. \A q \in Resources : ~Holds(<<>>, q)
    BY DEF Holds
<1>x. ASSUME NEW w \in Threads, stopped[w], NEW q \in Resources PROVE owner[q] # w
  <2>1. prog[w] = <<>>
    BY <1>x DEF LoopsInv
  <2>. QED BY <1>e, <1>o, <2>1
<1>u. UNCHANGED <<pc, prog, token, stopped, owner>> /\ fault = NoFault
    BY DEF StopFree, At, Running
<1>1. /\ step \in 3 .. 6 \cup 9 .. 12
      /\ step \in 3 .. 6 => r \in RicRes
      /\ step \in 9 .. 12 => r \in IAppRes
  <2>1. step \in 1 .. 12 /\ Teardown[step].op = "free"
    BY TeardownOrder DEF StopFree, At
  <2>2. step # 1 /\ step # 2 /\ step # 7 /\ step # 8
    BY <2>1, TeardownOrder DEF Stop, Await
  <2>3. step \in 3 .. 6 \/ step \in 9 .. 12
    BY <2>1, <2>2
  <2>4. \A q : Free(q).res = q
    BY DEF Free
  <2>. QED BY <2>3, <2>4, TeardownOrder
<1>2. step > 2 /\ stopped["ric"] /\ pc["ric"] = "exited" /\ r \in Resources
  <2>1. step > 2 /\ r \in Resources
    BY <1>1 DEF Resources
  <2>2. stopped["ric"]
    BY <2>1 DEF OrderInv
  <2>. QED BY <2>1, <2>2 DEF LoopsInv, Threads
<1>h. CASE owner[r] # "none"
  <2>1. fault' = [who |-> "stop", res |-> r] /\ UNCHANGED <<live, step>>
    BY <1>h DEF StopFree
  <2>2. owner[r] = "iapp"
    <3>1. owner[r] \in {"ric", "iapp"}
        BY <1>h, <1>2 DEF StopTypes, Threads
    <3>2. owner[r] # "ric"
        BY <1>x, <1>2 DEF Threads
    <3>. QED BY <3>1, <3>2
  <2>3. ~stopped["iapp"]
    BY <1>x, <1>2, <2>2 DEF Threads
  <2>4. r \in RicRes
    <3>1. step <= 8
        BY <1>1, <2>3 DEF OrderInv
    <3>. QED BY <1>1, <3>1
  <2>5. Holds(prog["iapp"], r)
    BY <1>2, <1>o, <2>2 DEF Threads
  <2>6. r \in Locks(prog["iapp"]) /\ prog["iapp"] # <<>>
    <3>1. PICK i \in DOMAIN prog["iapp"] : prog["iapp"][i] = Unlock(r)
        BY <2>5 DEF Holds
    <3>2. prog["iapp"][i].res = r
        BY <1>2, <3>1, OpsDiffer
    <3>3. r \in Locks(prog["iapp"])
        BY <3>1, <3>2 DEF Locks
    <3>. QED BY <3>3, <2>5, <1>e, <1>2
  <2>7. r \in {"pending", "e2_nodes", "ep"} /\ pc["iapp"] = "handle"
    BY <2>4, <2>6 DEF LoopsInv, Threads
  <2>8. FaultsExplained'
    BY <1>2, <1>u, <2>1, <2>3, <2>7 DEF FaultsExplained
  <2>9. StopTypes' /\ LoopsInv' /\ OrderInv' /\ LocksReleased'
    BY <1>u, <2>1 DEF StopTypes, LoopsInv, OrderInv, LocksReleased
  <2>. QED BY <2>8, <2>9
<1>f. CASE owner[r] = "none"
  <2>1. live' = live \ {r} /\ step' = step + 1 /\ fault' = fault
    BY <1>f DEF StopFree
  <2>. HIDE DEF r
  <2>2. OrderInv'
    <3>1. CASE step \in 3 .. 6
      <4>1. r \notin IAppRes
        BY <1>1, <3>1 DEF RicRes, IAppRes
      <4>. QED BY <1>2, <1>u, <2>1, <3>1, <4>1 DEF OrderInv
    <3>2. CASE step \in 9 .. 12
        BY <1>2, <1>u, <2>1, <3>2 DEF OrderInv
    <3>. QED BY <1>1, <3>1, <3>2
  <2>3. StopTypes'
    BY <1>1, <1>u, <2>1 DEF StopTypes
  <2>4. LoopsInv' /\ LocksReleased' /\ FaultsExplained'
    BY <1>u, <2>1 DEF LoopsInv, LocksReleased, FaultsExplained
  <2>. QED BY <2>2, <2>3, <2>4
<1>. QED BY <1>h, <1>f

\* Every step of the three threads keeps the invariant.
LEMMA StopStep == StopInv /\ [Next]_vars => StopInv'
<1>. SUFFICES ASSUME StopInv, [Next]_vars PROVE StopInv'
    OBVIOUS
<1>. USE DEF StopInv
<1>1. CASE UNCHANGED vars
    BY <1>1 DEF vars, StopTypes, LoopsInv, LocksReleased, OrderInv, FaultsExplained
<1>2. CASE StopStart
  <2>1. step' = 1 /\ UNCHANGED <<pc, prog, token, stopped, live, owner, fault>> /\ step = 0
    BY <1>2 DEF StopStart
  <2>2. StopTypes' /\ OrderInv'
    BY <2>1 DEF StopTypes, OrderInv
  <2>3. LoopsInv' /\ LocksReleased' /\ FaultsExplained'
    BY <2>1 DEF LoopsInv, LocksReleased, FaultsExplained
  <2>. QED BY <2>2, <2>3
<1>3. CASE StopToken
  <2>0. step \in 1 .. 12 /\ Teardown[step].op = "token" /\ fault = NoFault
    BY <1>3, TeardownOrder DEF StopToken, At, Running
  <2>1. step = 1 \/ step = 7
    <3>1. step # 2 /\ step # 8
        BY <2>0, TeardownOrder DEF Await
    <3>2. step \notin 3 .. 6 /\ step \notin 9 .. 12
        BY <2>0, TeardownOrder DEF Free
    <3>. QED BY <2>0, <3>1, <3>2
  <2>2. /\ token' = [token EXCEPT ![Teardown[step].who] = TRUE] /\ step' = step + 1
        /\ UNCHANGED <<pc, prog, stopped, live, owner, fault>>
    BY <1>3 DEF StopToken
  <2>3. token' \in [Threads -> BOOLEAN]
    BY <2>2 DEF StopTypes
  <2>4. StopTypes' /\ OrderInv'
    BY <2>1, <2>2, <2>3 DEF StopTypes, OrderInv
  <2>5. LoopsInv' /\ LocksReleased' /\ FaultsExplained'
    BY <2>2 DEF LoopsInv, LocksReleased, FaultsExplained
  <2>. QED BY <2>4, <2>5
<1>4. CASE StopAwait
  <2>0. step \in 1 .. 12 /\ Teardown[step].op = "await" /\ stopped[Teardown[step].who]
    BY <1>4, TeardownOrder DEF StopAwait, At
  <2>1. step = 2 \/ step = 8
    <3>1. step # 1 /\ step # 7
        BY <2>0, TeardownOrder DEF Stop
    <3>2. step \notin 3 .. 6 /\ step \notin 9 .. 12
        BY <2>0, TeardownOrder DEF Free
    <3>. QED BY <2>0, <3>1, <3>2
  <2>2. (step = 2 => stopped["ric"]) /\ (step = 8 => stopped["iapp"])
    BY <2>0, TeardownOrder DEF Await
  <2>3. step' = step + 1 /\ UNCHANGED <<pc, prog, token, stopped, live, owner, fault>>
    BY <1>4 DEF StopAwait
  <2>4. StopTypes' /\ OrderInv'
    BY <2>1, <2>2, <2>3 DEF StopTypes, OrderInv
  <2>5. LoopsInv' /\ LocksReleased' /\ FaultsExplained'
    BY <2>3 DEF LoopsInv, LocksReleased, FaultsExplained
  <2>. QED BY <2>4, <2>5
<1>5. CASE StopFree
    BY <1>5, FreeStep
<1>6. ASSUME NEW t \in Threads, Test(t) PROVE StopInv'
  <2>1. /\ pc[t] = "test" /\ pc' = [pc EXCEPT ![t] = IF token[t] THEN "exited" ELSE "wait"]
        /\ stopped' = [stopped EXCEPT ![t] = token[t]]
        /\ UNCHANGED <<prog, token, live, owner, step, fault>> /\ fault = NoFault
    BY <1>6 DEF Test, Running
  <2>2. StopTypes'
    BY <2>1 DEF StopTypes
  <2>3. LoopsInv'
    BY <2>1 DEF LoopsInv, StopTypes
  <2>4. OrderInv'
    <3>1. ~stopped[t] /\ \A w \in Threads : stopped[w] => stopped'[w]
        BY <2>1 DEF LoopsInv, StopTypes
    <3>. QED BY <2>1, <3>1 DEF OrderInv, Threads
  <2>5. LocksReleased' /\ FaultsExplained'
    BY <2>1 DEF LocksReleased, FaultsExplained
  <2>. QED BY <2>2, <2>3, <2>4, <2>5
<1>7. ASSUME NEW t \in Threads, NoEvent(t) PROVE StopInv'
  <2>1. /\ pc[t] = "wait" /\ pc' = [pc EXCEPT ![t] = "test"] /\ fault = NoFault
        /\ UNCHANGED <<prog, token, stopped, live, owner, step, fault>>
    BY <1>7 DEF NoEvent, Running
  <2>2. StopTypes' /\ LoopsInv'
    BY <2>1 DEF StopTypes, LoopsInv
  <2>3. OrderInv' /\ LocksReleased' /\ FaultsExplained'
    BY <2>1 DEF OrderInv, LocksReleased, FaultsExplained
  <2>. QED BY <2>2, <2>3
<1>8. ASSUME NEW t \in Threads, Event(t) PROVE StopInv'
  <2>1. PICK h \in Handlers(t) : prog' = [prog EXCEPT ![t] = h]
    BY <1>8 DEF Event
  <2>2. /\ pc[t] = "wait" /\ pc' = [pc EXCEPT ![t] = "handle"] /\ fault = NoFault
        /\ UNCHANGED <<token, stopped, live, owner, step, fault>>
    BY <1>8 DEF Event, Running
  <2>3. /\ h \in Seq(Ops) /\ Nested(h) /\ h # <<>> /\ \A r \in Resources : ~Holds(h, r)
        /\ t = "iapp" => Locks(h) \cap RicRes \subseteq {"pending", "e2_nodes", "ep"}
    BY HandlersClosed DEF Closed
  <2>4. StopTypes'
    BY <2>1, <2>2, <2>3 DEF StopTypes
  <2>5. LoopsInv'
    <3>1. \A w \in Threads : w # t => prog'[w] = prog[w] /\ pc'[w] = pc[w]
        BY <2>1, <2>2 DEF StopTypes
    <3>2. prog'[t] = h /\ pc'[t] = "handle" /\ ~stopped[t]
        BY <2>1, <2>2 DEF StopTypes, LoopsInv
    <3>. QED BY <2>2, <2>3, <3>1, <3>2 DEF LoopsInv
  <2>6. LocksReleased'
    <3>. SUFFICES ASSUME NEW q \in Resources, NEW w \in Threads
         PROVE  owner'[q] = w <=> Holds(prog'[w], q)
        BY DEF LocksReleased, Holds
    <3>1. owner[q] = w <=> Holds(prog[w], q)
        BY HeldByHandler
    <3>2. CASE w # t
        BY <2>1, <2>2, <3>1, <3>2 DEF StopTypes
    <3>3. CASE w = t
      <4>1. prog[t] = <<>> /\ prog'[t] = h
        BY <2>1, <2>2 DEF LoopsInv, StopTypes
      <4>2. ~Holds(<<>>, q)
        BY DEF Holds
      <4>. QED BY <2>2, <2>3, <3>1, <3>3, <4>1, <4>2
    <3>. QED BY <3>2, <3>3
  <2>7. OrderInv' /\ FaultsExplained'
    BY <2>2 DEF OrderInv, FaultsExplained
  <2>. QED BY <2>4, <2>5, <2>6, <2>7
<1>9. ASSUME NEW t \in Threads, Handle(t) PROVE StopInv'
    BY <1>9, HandleStep
<1>. QED BY <1>1, <1>2, <1>3, <1>4, <1>5, <1>6, <1>7, <1>8, <1>9 DEF Next, Stopper, Loop

\* The inductive invariant of the stop: handlers pair their locks, a thread has
\* stopped before what it owns is freed.
THEOREM StopInvariant == Spec => []StopInv
<1>1. Init => StopInv
    BY StopInit
<1>2. StopInv /\ [Next]_vars => StopInv'
    BY StopStep
<1>. QED BY <1>1, <1>2, PTL DEF Spec

\* At any time a mutex is held exactly by the thread whose handler has still to
\* unlock it, so none is left locked by a thread that has left its loop.
THEOREM LocksCorrect == Spec => []LocksReleased
<1>1. StopInv => LocksReleased
    BY DEF StopInv
<1>. QED BY <1>1, StopInvariant, PTL

\* The only fault of stop_near_ric_api: the iApp thread forwards a request while
\* free_near_ric frees what the request needs, or the mutex it holds.
THEOREM FaultsAreExplained == Spec => []FaultsExplained
<1>1. StopInv => FaultsExplained
    BY DEF StopInv
<1>. QED BY <1>1, StopInvariant, PTL
=============================================================================

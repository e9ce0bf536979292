--------------------------- MODULE E2AgentProofs ----------------------------
(* Proofs about E2Agent, for any number of runs of the RIC, of requests and  *)
(* of waiting messages: the agent's timers, maps and ready list stay in      *)
(* step, and what ends either side is a message or a timer that outlived a   *)
(* run of the RIC.                                                           *)
EXTENDS E2Agent, FiniteSetTheorems, WellFoundedInduction, TLAPS

-----------------------------------------------------------------------------
(* Queues *)

\* The elements of a queue after a send.
LEMMA AppendElements ==
    ASSUME NEW S, NEW s \in Seq(S), NEW e \in S
    PROVE  /\ Append(s, e) \in Seq(S) /\ Append(s, e) # <<>>
           /\ Len(Append(s, e)) = Len(s) + 1 /\ Len(s) \in Nat
           /\ DOMAIN s = 1 .. Len(s) /\ DOMAIN Append(s, e) = 1 .. Len(s) + 1
           /\ \A i \in 1 .. Len(s) : Append(s, e)[i] = s[i]
           /\ Append(s, e)[Len(s) + 1] = e
    OBVIOUS

\* The elements of a queue after a receive.
LEMMA TailElements ==
    ASSUME NEW S, NEW s \in Seq(S), s # <<>>
    PROVE  /\ Tail(s) \in Seq(S) /\ Head(s) = s[1] /\ Head(s) \in S
           /\ Len(s) \in Nat /\ Len(s) >= 1 /\ Len(Tail(s)) = Len(s) - 1
           /\ DOMAIN s = 1 .. Len(s) /\ DOMAIN Tail(s) = 1 .. Len(s) - 1
           /\ \A i \in 1 .. Len(s) - 1 : Tail(s)[i] = s[i + 1]
    OBVIOUS

\* A part of a queue is counted by a natural number.
LEMMA CountFinite ==
    ASSUME NEW s, NEW n \in Nat, NEW M
    PROVE  IsFiniteSet({i \in 1 .. n : s[i] \in M}) /\ Count(s, n, M) \in Nat
<1>1. IsFiniteSet(1 .. n)
    BY FS_Interval
<1>2. IsFiniteSet({i \in 1 .. n : s[i] \in M})
    BY <1>1, FS_Subset
<1>. QED
    BY <1>2, FS_CardinalityType DEF Count

\* A queue that agrees with another one on the part that is counted.
LEMMA CountSame ==
    ASSUME NEW s, NEW t, NEW n \in Nat, NEW M, \A i \in 1 .. n : t[i] = s[i]
    PROVE  Count(t, n, M) = Count(s, n, M)
<1>1. {i \in 1 .. n : t[i] \in M} = {i \in 1 .. n : s[i] \in M}
    OBVIOUS
<1>. QED
    BY <1>1 DEF Count

\* One more element.
LEMMA CountNext ==
    ASSUME NEW s, NEW n \in Nat, NEW M
    PROVE  Count(s, n + 1, M) = Count(s, n, M) + (IF s[n + 1] \in M THEN 1 ELSE 0)
<1>. DEFINE A == {i \in 1 .. n : s[i] \in M}
            B == {i \in 1 .. n + 1 : s[i] \in M}
<1>1. IsFiniteSet(A) /\ Count(s, n, M) = Cardinality(A) /\ Cardinality(A) \in Nat
    BY CountFinite DEF Count
<1>2. Count(s, n + 1, M) = Cardinality(B)
    BY DEF Count
<1>3. CASE s[n + 1] \in M
  <2>1. B = A \cup {n + 1} /\ n + 1 \notin A
    BY <1>3
  <2>. QED
    BY <1>1, <1>2, <1>3, <2>1, FS_AddElement
<1>4. CASE s[n + 1] \notin M
  <2>1. B = A
    BY <1>4
  <2>. QED
    BY <1>1, <1>2, <1>4, <2>1
<1>. QED
    BY <1>3, <1>4

\* Counting after a receive.
LEMMA CountTail ==
    ASSUME NEW S, NEW s \in Seq(S), s # <<>>, NEW n \in 1 .. Len(s), NEW M
    PROVE  Count(s, n, M) = Count(Tail(s), n - 1, M) + (IF Head(s) \in M THEN 1 ELSE 0)
<1>. DEFINE t == Tail(s)
            A == {i \in 1 .. n - 1 : t[i] \in M}
            B == {i \in 1 .. n : s[i] \in M}
            C == B \ {1}
            f == [i \in A |-> i + 1]
<1>0. Len(s) \in Nat /\ Head(s) = s[1] /\ n \in Nat /\ n >= 1 /\ n <= Len(s)
    BY TailElements
<1>1. \A i \in 1 .. n - 1 : t[i] = s[i + 1]
    BY <1>0, TailElements
<1>2. IsFiniteSet(A) /\ IsFiniteSet(B)
  <2>1. n - 1 \in Nat
    BY <1>0
  <2>2. IsFiniteSet(A)
    BY <2>1, CountFinite
  <2>3. IsFiniteSet(B)
    BY <1>0, CountFinite
  <2>. QED
    BY <2>2, <2>3
<1>3. Cardinality(A) \in Nat /\ Cardinality(B) \in Nat
    BY <1>2, FS_CardinalityType
<1>4. f \in Bijection(A, C)
  <2>1. \A i \in A : i + 1 \in C
    BY <1>0, <1>1
  <2>2. \A j \in C : j - 1 \in A /\ (j - 1) + 1 = j
    BY <1>0, <1>1
  <2>3. f \in [A -> C]
    BY <2>1
  <2>4. \A i, j \in A : f[i] = f[j] => i = j
    BY <1>0
  <2>5. \A j \in C : \E i \in A : f[i] = j
    BY <2>2
  <2>. HIDE DEF f, A, C
  <2>. QED
    BY <2>3, <2>4, <2>5 DEF Bijection, Injection, Surjection, IsInjective
<1>5. Cardinality(C) = Cardinality(A)
    BY <1>2, <1>4, FS_Bijection DEF ExistsBijection
<1>6. Cardinality(C) = IF 1 \in B THEN Cardinality(B) - 1 ELSE Cardinality(B)
    BY <1>2, FS_RemoveElement
<1>7. 1 \in B <=> Head(s) \in M
    BY <1>0
<1>8. Count(s, n, M) = Cardinality(B) /\ Count(t, n - 1, M) = Cardinality(A)
    BY DEF Count
<1>. HIDE DEF t, A, B, C, f
<1>9. Cardinality(B) = Cardinality(A) + (IF Head(s) \in M THEN 1 ELSE 0)
    BY <1>3, <1>5, <1>6, <1>7
<1>. QED
    BY <1>8, <1>9 DEF t

\* Counting after a send.
LEMMA CountAppend ==
    ASSUME NEW S, NEW s \in Seq(S), NEW e \in S, NEW M
    PROVE  /\ \A n \in 0 .. Len(s) : Count(Append(s, e), n, M) = Count(s, n, M)
           /\ Count(Append(s, e), Len(s) + 1, M)
                = Count(s, Len(s), M) + (IF e \in M THEN 1 ELSE 0)
<1>. DEFINE t == Append(s, e)
<1>1. Len(s) \in Nat /\ (\A i \in 1 .. Len(s) : t[i] = s[i]) /\ t[Len(s) + 1] = e
    BY AppendElements
<1>. HIDE DEF t
<1>2. ASSUME NEW n \in 0 .. Len(s) PROVE Count(t, n, M) = Count(s, n, M)
  <2>1. n \in Nat /\ \A i \in 1 .. n : t[i] = s[i]
    BY <1>1, <1>2
  <2>. QED
    BY <2>1, CountSame
<1>3. Count(t, Len(s) + 1, M) = Count(t, Len(s), M) + (IF e \in M THEN 1 ELSE 0)
    BY <1>1, CountNext
<1>4. Count(t, Len(s), M) = Count(s, Len(s), M)
    BY <1>1, <1>2
<1>. QED
    BY <1>2, <1>3, <1>4 DEF t

\* The ready list without a descriptor keeps the other ones, once each.
LEMMA WithoutElements ==
    ASSUME NEW S, NEW s \in Seq(S), NEW fd, IsInjective(s)
    PROVE  /\ Without(s, fd) \in Seq(S) /\ IsInjective(Without(s, fd))
           /\ \A i \in DOMAIN Without(s, fd) :
                Without(s, fd)[i] # fd /\ \E j \in DOMAIN s : Without(s, fd)[i] = s[j]
<1>1. CASE fd \notin Range(s)
  <2>1. Without(s, fd) = s
    BY <1>1 DEF Without
  <2>. QED
    BY <1>1, <2>1 DEF Range
<1>2. CASE fd \in Range(s)
  <2>. DEFINE k == CHOOSE j \in DOMAIN s : s[j] = fd
  <2>1. k \in DOMAIN s /\ s[k] = fd
    BY <1>2 DEF Range
  <2>. DEFINE w == [j \in 1 .. Len(s) - 1 |-> IF j < k THEN s[j] ELSE s[j + 1]]
  <2>2. w = Without(s, fd)
    BY <1>2 DEF Without
  <2>. HIDE DEF k
  <2>3. DOMAIN s = 1 .. Len(s) /\ Len(s) \in Nat /\ k \in 1 .. Len(s)
    BY <2>1
  <2>4. Len(s) - 1 \in Nat /\ \A j \in 1 .. Len(s) - 1 : w[j] \in S
    BY <2>3
  <2>5. w \in Seq(S) /\ DOMAIN w = 1 .. Len(s) - 1
    BY <2>4
  <2>6. /\ \A j \in 1 .. Len(s) - 1 : j < k => w[j] = s[j]
        /\ \A j \in 1 .. Len(s) - 1 : ~(j < k) => w[j] = s[j + 1]
    OBVIOUS
  <2>. HIDE DEF w
  <2>. DEFINE o(i) == IF i < k THEN i ELSE i + 1
  <2>7. \A i \in DOMAIN w : o(i) \in DOMAIN s /\ o(i) # k /\ w[i] = s[o(i)]
    BY <2>3, <2>5, <2>6
  <2>8. \A i, j \in DOMAIN w : o(i) = o(j) => i = j
    BY <2>3, <2>5
  <2>. HIDE DEF o
  <2>. QED
    BY <2>1, <2>2, <2>5, <2>7, <2>8 DEF IsInjective
<1>. QED
    BY <1>1, <1>2

-----------------------------------------------------------------------------
(* Descriptors *)

\* A set of natural numbers that is not empty has a least element.
LEMMA LeastElement ==
    ASSUME NEW T, T \subseteq Nat, T # {}
    PROVE  \E x \in T : \A y \in T : x <= y
<1>1. PICK x \in T : \A y \in T : ~(<<y, x>> \in OpToRel(<, Nat))
    BY NatLessThanWellFounded, WFMin
<1>2. \A y \in T : ~(y < x)
    BY <1>1 DEF OpToRel
<1>. QED
    BY <1>2

\* There are as many descriptors as the bounds allow timers.
LEMMA FdsFinite ==
    /\ IsFiniteSet(Fds) /\ Fds \subseteq Nat /\ SOCK \notin Fds
    /\ Cardinality(Fds) = MaxRuns * MaxReq + MaxRuns + 1
<1>1. MaxRuns * MaxReq + MaxRuns + 1 \in Nat
    BY AgentAssumption
<1>2. IsFiniteSet(Fds) /\ Cardinality(Fds) = MaxRuns * MaxReq + MaxRuns + 1
    BY <1>1, FS_Interval DEF Fds
<1>. QED
    BY <1>1, <1>2 DEF Fds, SOCK

\* The kernel's choice of a descriptor, as long as there is one left.
LEMMA NewFdFree ==
    ASSUME timers \subseteq Fds, Cardinality(timers) < Cardinality(Fds)
    PROVE  NewFd \in Fds \ timers
<1>1. IsFiniteSet(timers)
    BY FdsFinite, FS_Subset
<1>2. Fds \ timers # {}
  <2>1. timers # Fds
    BY FdsFinite, FS_CardinalityType
  <2>. QED
    BY <2>1
<1>3. \E f \in Fds \ timers : \A g \in Fds \ timers : f <= g
    BY <1>2, FdsFinite, LeastElement
<1>. QED
    BY <1>3 DEF NewFd

-----------------------------------------------------------------------------
(* The maps *)

\* An insertion of a new descriptor.
LEMMA InsertNew ==
    ASSUME NEW m, NEW fd, NEW key, Mirrored(m), fd \notin FdsOf(m), NEW A, NEW B,
           m.left \subseteq A \X B, m.right \subseteq B \X A, fd \in A, key \in B
    PROVE  LET w == bi_map_insert(m, fd, key) IN
           /\ w.left = m.left \cup {<<fd, key>>} /\ w.right = m.right \cup {<<key, fd>>}
           /\ Mirrored(w) /\ FdsOf(w) = FdsOf(m) \cup {fd}
           /\ w.left \subseteq A \X B /\ w.right \subseteq B \X A
<1>. DEFINE w == bi_map_insert(m, fd, key)
<1>1. w.left = m.left \cup {<<fd, key>>} /\ w.right = m.right \cup {<<key, fd>>}
    BY DEF bi_map_insert
<1>. HIDE DEF w
<1>2. \A p \in m.left : p[1] # fd
    BY DEF FdsOf
<1>3. w.right = {<<p[2], p[1]>> : p \in w.left}
  <2>. DEFINE e == <<fd, key>>
  <2>1. w.left = m.left \cup {e} /\ w.right = m.right \cup {<<e[2], e[1]>>}
    BY <1>1
  <2>2. m.right = {<<p[2], p[1]>> : p \in m.left}
    BY DEF Mirrored
  <2>. HIDE DEF e
  <2>. QED
    BY <2>1, <2>2
<1>4. \A p, q \in w.left : p[1] = q[1] => p = q
    BY <1>1, <1>2 DEF Mirrored
<1>5. FdsOf(w) = FdsOf(m) \cup {fd}
  <2>. DEFINE e == <<fd, key>>
  <2>1. w.left = m.left \cup {e} /\ e[1] = fd
    BY <1>1
  <2>. HIDE DEF e
  <2>. QED
    BY <2>1 DEF FdsOf
<1>6. w.left \subseteq A \X B /\ w.right \subseteq B \X A
    BY <1>1
<1>. QED
    BY <1>1, <1>3, <1>4, <1>5, <1>6 DEF Mirrored, w

\* An extraction of one of the entries of a right key.
LEMMA ExtractOne ==
    ASSUME NEW m, NEW key, Mirrored(m), NEW r \in bi_map_extract_right(m, key)
    PROVE  /\ <<r.key1, key>> \in m.left /\ r.key1 \in FdsOf(m)
           /\ r.map.left = m.left \ {<<r.key1, key>>}
           /\ Mirrored(r.map) /\ FdsOf(r.map) = FdsOf(m) \ {r.key1}
           /\ r.map.left \subseteq m.left /\ r.map.right \subseteq m.right
<1>1. PICK p \in m.right : /\ p[1] = key /\ <<p[2], key>> \in m.left
                           /\ r.key1 = p[2] /\ r.map.left = m.left \ {<<p[2], key>>}
                           /\ r.map.right = m.right \ {p}
    BY DEF bi_map_extract_right
<1>2. p = <<key, r.key1>>
    BY <1>1 DEF Mirrored
<1>. DEFINE e == <<r.key1, key>>
            w == r.map
<1>3. e \in m.left /\ w.left = m.left \ {e} /\ w.right = m.right \ {<<e[2], e[1]>>}
    BY <1>1, <1>2
<1>4. e[1] = r.key1 /\ \A q \in m.left : q # e => q[1] # e[1]
    BY <1>3 DEF Mirrored
<1>. HIDE DEF e, w
<1>5. w.right = {<<q[2], q[1]>> : q \in w.left}
  <2>1. m.right = {<<q[2], q[1]>> : q \in m.left}
    BY DEF Mirrored
  <2>2. \A q \in m.left : q # e => <<q[2], q[1]>> # <<e[2], e[1]>>
    BY <1>4
  <2>. QED
    BY <1>3, <2>1, <2>2
<1>6. \A q, u \in w.left : q[1] = u[1] => q = u
    BY <1>3 DEF Mirrored
<1>7. FdsOf(w) = FdsOf(m) \ {r.key1}
    BY <1>3, <1>4 DEF FdsOf
<1>8. w.left \subseteq m.left /\ w.right \subseteq m.right
    BY <1>3
<1>. QED
    BY <1>3, <1>4, <1>5, <1>6, <1>7, <1>8 DEF FdsOf, Mirrored, e, w

\* An extraction finds an entry when there is one.
LEMMA ExtractFinds ==
    ASSUME NEW m, NEW key, Mirrored(m), bi_map_extract_right(m, key) = {},
           NEW A, NEW B, m.left \subseteq A \X B
    PROVE  \A p \in m.left : p[2] # key
<1>1. SUFFICES ASSUME NEW p \in m.left, p[2] = key PROVE FALSE
    OBVIOUS
<1>2. p = <<p[1], key>> /\ <<key, p[1]>> \in m.right
    BY <1>1 DEF Mirrored
<1>3. <<key, p[1]>> \in {q \in m.right : q[1] = key /\ <<q[2], key>> \in m.left}
    BY <1>2
<1>. QED
    BY <1>3 DEF bi_map_extract_right

-----------------------------------------------------------------------------
(* Descriptors left *)

\* Where the code creates a timer, there is a descriptor for it.
LEMMA NewFdLeft ==
    ASSUME TypeOK, ToCome, apc = "init" \/ (agIn # <<>> /\ Head(agIn) \in Creating)
    PROVE  NewFd \in Fds /\ NewFd \notin timers /\ NewFd # SOCK
<1>. DEFINE c == Count(agIn, Len(agIn), Creating)
            i == IF apc = "init" THEN 1 ELSE 0
            u == IF ricUp THEN MaxReq + 2 - ricNext ELSE 0
            v == (MaxRuns - ricRun) * (MaxReq + 1)
<1>1. agIn \in Seq(ToAgent) /\ Len(agIn) \in Nat
    BY DEF TypeOK
<1>2. c \in Nat
    BY <1>1, CountFinite
<1>3. agIn # <<>> /\ Head(agIn) \in Creating => c >= 1
  <2>1. HAVE agIn # <<>> /\ Head(agIn) \in Creating
  <2>2. Len(agIn) >= 1 /\ Len(agIn) - 1 \in Nat
    BY <1>1, <2>1, TailElements
  <2>3. c = Count(Tail(agIn), Len(agIn) - 1, Creating) + 1
    BY <1>1, <2>1, <2>2, CountTail
  <2>4. Count(Tail(agIn), Len(agIn) - 1, Creating) \in Nat
    BY <2>2, CountFinite
  <2>. QED
    BY <2>3, <2>4
<1>4. u \in Nat
    BY AgentAssumption DEF TypeOK
<1>5. v \in Nat
  <2>1. MaxRuns - ricRun \in Nat /\ MaxReq + 1 \in Nat
    BY AgentAssumption DEF TypeOK, Runs
  <2>. QED
    BY <2>1
<1>6. timers \subseteq Fds /\ Cardinality(timers) \in Nat
    BY FdsFinite, FS_Subset, FS_CardinalityType DEF TypeOK
<1>7. Cardinality(timers) + c + i + u + v <= Cardinality(Fds)
    BY FdsFinite DEF ToCome
<1>8. c + i >= 1
    BY <1>2, <1>3
<1>9. Cardinality(timers) < Cardinality(Fds)
  <2>1. Cardinality(Fds) \in Nat /\ i \in Nat
    BY FdsFinite, FS_CardinalityType
  <2>. HIDE DEF c, i, u, v
  <2>. QED
    BY <1>2, <1>4, <1>5, <1>6, <1>7, <1>8, <2>1
<1>. QED
    BY <1>6, <1>9, NewFdFree, FdsFinite

-----------------------------------------------------------------------------
(* The steps *)

\* The requests and the answers to them.
Answering == {<<"SUB_REQ", "SUB_RESP">>, <<"DEL_REQ", "DEL_RESP">>, <<"CTRL_REQ", "CTRL_ACK">>}

LEMMA NextCases ==
    ASSUME [Next]_vars
    PROVE  \/ AgStart \/ AgTest \/ AgTimeout \/ AgSetupResponse \/ AgSubscription \/ AgDelete
           \/ AgControl \/ AgNotification \/ AgIndication \/ AgPendingEvent
           \/ (\E f \in Fds : TimerFires(f)) \/ StopRequest \/ StopFree
           \/ RicStart \/ RicSetupRequest \/ RicIndication
           \/ (\E q, t : <<q, t>> \in Answering /\ RicAnswer(q, t))
           \/ RicStop \/ (\E t \in {"SUB_REQ", "CTRL_REQ"} : RicRequest(t))
           \/ (\E rid \in Rids : RicDelete(rid)) \/ UNCHANGED vars
    BY DEF Next, AgentLoop, RicLoop, Answering

\* What the agent sends arrives at the end of the RIC's queue, or is lost.
LEMMA AgSendTypes ==
    ASSUME TypeOK, NEW m \in ToRic, AgSend(m)
    PROVE  ricIn' \in Seq(ToRic) /\ linked' \in BOOLEAN
<1>1. ricIn \in Seq(ToRic) /\ linked \in BOOLEAN
    BY DEF TypeOK
<1>2. CASE ricUp
  <2>1. ricIn' = Append(ricIn, m) /\ linked' = TRUE
    BY <1>2 DEF AgSend
  <2>. QED
    BY <1>1, <2>1, AppendElements
<1>3. CASE ~ricUp
    BY <1>1, <1>3 DEF AgSend, link
<1>. QED
    BY <1>2, <1>3

\* The messages the agent builds.
LEMMA AgMessages ==
    ASSUME TypeOK
    PROVE  /\ SetupRequest \in ToRic
           /\ \A m \in ToAgent : \A t \in {"SUB_RESP", "DEL_RESP", "CTRL_ACK"} :
                [m EXCEPT !.type = t] \in ToRic
           /\ \A p \in indEvent.left :
                [type |-> "IND", rid |-> p[2], run |-> born[p[1]]] \in ToRic
<1>1. SetupRequest \in ToRic
    BY AgentAssumption DEF SetupRequest, ToRic, Runs
<1>2. ASSUME NEW m \in ToAgent, NEW t \in {"SUB_RESP", "DEL_RESP", "CTRL_ACK"}
      PROVE  [m EXCEPT !.type = t] \in ToRic
    BY DEF ToAgent, ToRic
<1>3. ASSUME NEW p \in indEvent.left
      PROVE  [type |-> "IND", rid |-> p[2], run |-> born[p[1]]] \in ToRic
  <2>1. p[1] \in Fds /\ p[2] \in Rids /\ born[p[1]] \in Runs
    BY DEF TypeOK
  <2>. QED
    BY <2>1 DEF ToRic
<1>. QED
    BY <1>1, <1>2, <1>3

\* The end of the loop's turn for a message.
LEMMA ReadTypes ==
    ASSUME TypeOK, NEW t, AgReceives(t)
    PROVE  /\ rdl # <<>> /\ agIn # <<>> /\ Head(agIn) \in ToAgent /\ Head(agIn).type = t
           /\ Tail(agIn) \in Seq(ToAgent) /\ Tail(rdl) \in Seq(Fds \cup {SOCK})
           /\ Head(agIn).rid \in Rids \cup {0} /\ Head(agIn).run \in Runs
<1>1. rdl # <<>> /\ agIn # <<>> /\ Head(agIn).type = t
    BY DEF AgReceives
<1>2. Head(agIn) \in ToAgent /\ Tail(agIn) \in Seq(ToAgent) /\ Tail(rdl) \in Seq(Fds \cup {SOCK})
    BY <1>1, TailElements DEF TypeOK
<1>. QED
    BY <1>1, <1>2 DEF ToAgent

\* What the RIC sends arrives at the end of the agent's queue, if there is one.
LEMMA TellTypes ==
    ASSUME TypeOK, NEW m \in ToAgent, SendToAgent(m)
    PROVE  agIn' \in Seq(ToAgent) /\ rdl' \in Seq(Fds \cup {SOCK})
<1>1. agIn \in Seq(ToAgent) /\ rdl \in Seq(Fds \cup {SOCK})
    BY DEF TypeOK
<1>2. CASE AgentRuns
  <2>1. agIn' = Append(agIn, m) /\ (rdl' = rdl \/ rdl' = Append(rdl, SOCK))
    BY <1>2 DEF SendToAgent, Arm
  <2>. QED
    BY <1>1, <2>1, AppendElements
<1>3. CASE ~AgentRuns
    BY <1>1, <1>3 DEF SendToAgent, agSock
<1>. QED
    BY <1>2, <1>3

\* The end of a run.
LEMMA EndTypes ==
    ASSUME TypeOK, NEW u, RicEnds(u)
    PROVE  /\ agIn' \in Seq(ToAgent) /\ rdl' \in Seq(Fds \cup {SOCK})
           /\ ricIn' = <<>> /\ linked' = FALSE /\ ricUp' = FALSE
           /\ UNCHANGED <<agVars, stopVars, ricRun, ricState>>
<1>1. [type |-> "SHUTDOWN", rid |-> 0, run |-> ricRun] \in ToAgent
    BY DEF TypeOK, ToAgent
<1>2. \/ SendToAgent([type |-> "SHUTDOWN", rid |-> 0, run |-> ricRun])
      \/ UNCHANGED agSock
    BY DEF RicEnds
<1>3. agIn' \in Seq(ToAgent) /\ rdl' \in Seq(Fds \cup {SOCK})
    BY <1>1, <1>2, TellTypes DEF TypeOK, agSock
<1>. QED
    BY <1>3 DEF RicEnds

\* Every step keeps the types.
LEMMA TypeStep ==
    ASSUME AgentInv, [Next]_vars PROVE TypeOK'
<1>i. TypeOK /\ TimersInStep /\ ToCome /\ RunsInv /\ ReadyOnce
    BY DEF AgentInv
<1>m. /\ Mirrored(pending) /\ Mirrored(indEvent)
    BY <1>i DEF TimersInStep, MapsMatchTimers
<1>n. ASSUME NEW fd \in Fds, NEW key
      PROVE  /\ key \in {SETUP} => /\ bi_map_insert(pending, fd, key).left \subseteq Fds \X {SETUP}
                                   /\ bi_map_insert(pending, fd, key).right \subseteq {SETUP} \X Fds
             /\ key \in Rids => /\ bi_map_insert(indEvent, fd, key).left \subseteq Fds \X Rids
                                /\ bi_map_insert(indEvent, fd, key).right \subseteq Rids \X Fds
    BY <1>i DEF TypeOK, bi_map_insert
<1>a. ASSUME NEW why, AgAbort(why) PROVE TypeOK'
    BY <1>a, <1>i DEF AgAbort, TypeOK, agVars, agSock, stopVars, ricVars, ricState, link
<1>1. CASE AgStart
  <2>1. apc = "init" /\ AgSend(SetupRequest) /\ timers' = timers \cup {NewFd} /\ apc' = "test"
        /\ pending' = bi_map_insert(pending, NewFd, SETUP)
        /\ UNCHANGED <<agAbort, indEvent, born, setupRun, agSock, stopVars, ricVars>>
    BY <1>1 DEF AgStart
  <2>2. NewFd \in Fds
    BY <1>i, <2>1, NewFdLeft
  <2>3. ricIn' \in Seq(ToRic) /\ linked' \in BOOLEAN
    BY <1>i, <2>1, AgSendTypes, AgMessages
  <2>4. pending'.left \subseteq Fds \X {SETUP} /\ pending'.right \subseteq {SETUP} \X Fds
    BY <1>n, <2>1, <2>2
  <2>. QED
    BY <1>i, <2>1, <2>2, <2>3, <2>4 DEF TypeOK, agSock, stopVars, ricVars, ricState
<1>2. CASE AgTest \/ AgTimeout \/ StopRequest \/ UNCHANGED vars
    BY <1>2, <1>i DEF AgTest, AgTimeout, StopRequest, vars, TypeOK, agVars, agSock, stopVars, ricVars,
                      ricState, link
<1>3. ASSUME NEW f \in Fds, TimerFires(f) PROVE TypeOK'
  <2>1. rdl' = Append(rdl, f) /\ UNCHANGED <<agVars, agIn, stopVars, ricVars, link>>
    BY <1>3 DEF TimerFires
  <2>2. rdl' \in Seq(Fds \cup {SOCK})
    BY <1>i, <2>1 DEF TypeOK
  <2>. QED
    BY <1>i, <2>1, <2>2 DEF TypeOK, agVars, stopVars, ricVars, ricState, link
<1>4. CASE AgSetupResponse
  <2>1. CASE bi_map_extract_right(pending, SETUP) = {}
    BY <1>4, <1>a, <2>1 DEF AgSetupResponse
  <2>2. CASE bi_map_extract_right(pending, SETUP) # {}
    <3>1. PICK r \in bi_map_extract_right(pending, SETUP) :
            /\ pending' = r.map /\ RmFd(r.key1, Tail(rdl)) /\ agIn' = Tail(agIn)
            /\ setupRun' = Head(agIn).run /\ apc' = "test"
            /\ UNCHANGED <<agAbort, indEvent, born, stopVars, ricVars, link>>
      BY <1>4, <2>2 DEF AgSetupResponse
    <3>2. agIn' \in Seq(ToAgent) /\ setupRun' \in Runs /\ Tail(rdl) \in Seq(Fds \cup {SOCK})
          /\ rdl # <<>>
      BY <1>4, <1>i, <3>1, ReadTypes DEF AgSetupResponse
    <3>3. pending'.left \subseteq Fds \X {SETUP} /\ pending'.right \subseteq {SETUP} \X Fds
      BY <1>i, <1>m, <3>1, ExtractOne DEF TypeOK
    <3>4. rdl' = Without(Tail(rdl), r.key1) /\ timers' \subseteq timers
      BY <3>1 DEF RmFd
    <3>5. rdl' \in Seq(Fds \cup {SOCK})
      <4>1. IsInjective(Tail(rdl))
        <5>1. rdl \in Seq(Fds \cup {SOCK})
          BY <1>i DEF TypeOK
        <5>. QED
          BY <1>i, <3>2, <5>1, TailElements DEF ReadyOnce, IsInjective
      <4>. QED
        BY <3>2, <3>4, <4>1, WithoutElements
    <3>. QED
      BY <1>i, <3>1, <3>2, <3>3, <3>4, <3>5 DEF TypeOK, stopVars, ricVars, ricState, link
  <2>. QED
    BY <2>1, <2>2
<1>5. CASE AgSubscription
  <2>1. /\ AgReceives("SUB_REQ") /\ timers' = timers \cup {NewFd}
        /\ indEvent' = bi_map_insert(indEvent, NewFd, Head(agIn).rid)
        /\ born' = [born EXCEPT ![NewFd] = Head(agIn).run] /\ rdl' = Tail(rdl)
        /\ AgSend([Head(agIn) EXCEPT !.type = "SUB_RESP"]) /\ agIn' = Tail(agIn) /\ apc' = "test"
        /\ UNCHANGED <<agAbort, pending, setupRun, stopVars, ricVars>>
    BY <1>5 DEF AgSubscription, AgAnswer
  <2>2. /\ Head(agIn) \in ToAgent /\ Head(agIn).type = "SUB_REQ" /\ agIn # <<>>
        /\ agIn' \in Seq(ToAgent) /\ rdl' \in Seq(Fds \cup {SOCK}) /\ Head(agIn).run \in Runs
    BY <1>i, <2>1, ReadTypes
  <2>3. NewFd \in Fds /\ NewFd \notin timers
    BY <1>i, <2>2, NewFdLeft DEF Creating
  <2>4. Head(agIn).rid \in Rids
    BY <1>i, <2>2, TailElements DEF RunsInv, TypeOK, Requests
  <2>5. indEvent'.left \subseteq Fds \X Rids /\ indEvent'.right \subseteq Rids \X Fds
    BY <1>n, <2>1, <2>3, <2>4
  <2>6. ricIn' \in Seq(ToRic) /\ linked' \in BOOLEAN
    BY <1>i, <2>1, <2>2, AgSendTypes, AgMessages
  <2>7. born' \in [Fds -> Runs]
    BY <1>i, <2>1, <2>2, <2>3 DEF TypeOK
  <2>. QED
    BY <1>i, <2>1, <2>2, <2>3, <2>5, <2>6, <2>7 DEF TypeOK, stopVars, ricVars, ricState
<1>6. CASE AgDelete
  <2>0. AgReceives("DEL_REQ")
    BY <1>6 DEF AgDelete
  <2>1. CASE bi_map_extract_right(indEvent, Head(agIn).rid) = {}
    BY <1>6, <1>a, <2>1 DEF AgDelete
  <2>2. CASE bi_map_extract_right(indEvent, Head(agIn).rid) # {}
    <3>1. PICK r \in bi_map_extract_right(indEvent, Head(agIn).rid) :
            /\ indEvent' = r.map /\ RmFd(r.key1, Tail(rdl)) /\ agIn' = Tail(agIn) /\ apc' = "test"
            /\ AgSend([Head(agIn) EXCEPT !.type = "DEL_RESP"])
            /\ UNCHANGED <<agAbort, pending, born, setupRun, stopVars, ricVars>>
      BY <1>6, <2>2 DEF AgDelete, AgAnswer
    <3>2. agIn' \in Seq(ToAgent) /\ Tail(rdl) \in Seq(Fds \cup {SOCK}) /\ rdl # <<>>
          /\ Head(agIn) \in ToAgent
      BY <1>i, <2>0, <3>1, ReadTypes
    <3>3. indEvent'.left \subseteq Fds \X Rids /\ indEvent'.right \subseteq Rids \X Fds
      BY <1>i, <1>m, <3>1, ExtractOne DEF TypeOK
    <3>4. rdl' = Without(Tail(rdl), r.key1) /\ timers' \subseteq timers
      BY <3>1 DEF RmFd
    <3>5. rdl' \in Seq(Fds \cup {SOCK})
      <4>1. IsInjective(Tail(rdl))
        <5>1. rdl \in Seq(Fds \cup {SOCK})
          BY <1>i DEF TypeOK
        <5>. QED
          BY <1>i, <3>2, <5>1, TailElements DEF ReadyOnce, IsInjective
      <4>. QED
        BY <3>2, <3>4, <4>1, WithoutElements
    <3>6. ricIn' \in Seq(ToRic) /\ linked' \in BOOLEAN
      BY <1>i, <3>1, <3>2, AgSendTypes, AgMessages
    <3>. QED
      BY <1>i, <3>1, <3>2, <3>3, <3>4, <3>5, <3>6 DEF TypeOK, stopVars, ricVars, ricState
  <2>. QED
    BY <2>1, <2>2
<1>7. CASE AgControl
  <2>1. /\ AgReceives("CTRL_REQ") /\ rdl' = Tail(rdl) /\ agIn' = Tail(agIn) /\ apc' = "test"
        /\ AgSend([Head(agIn) EXCEPT !.type = "CTRL_ACK"])
        /\ UNCHANGED <<agAbort, pending, indEvent, timers, born, setupRun, stopVars, ricVars>>
    BY <1>7 DEF AgControl, AgAnswer
  <2>2. Head(agIn) \in ToAgent /\ agIn' \in Seq(ToAgent) /\ rdl' \in Seq(Fds \cup {SOCK})
    BY <1>i, <2>1, ReadTypes
  <2>3. ricIn' \in Seq(ToRic) /\ linked' \in BOOLEAN
    BY <1>i, <2>1, <2>2, AgSendTypes, AgMessages
  <2>. QED
    BY <1>i, <2>1, <2>2, <2>3 DEF TypeOK, stopVars, ricVars, ricState
<1>8. CASE AgNotification
  <2>1. /\ AgReceives("SHUTDOWN") /\ timers' = timers \cup {NewFd}
        /\ pending' = bi_map_insert(pending, NewFd, SETUP)
        /\ agIn' = Tail(agIn) /\ rdl' = Tail(rdl) /\ setupRun' = 0 /\ apc' = "test"
        /\ UNCHANGED <<agAbort, indEvent, born, stopVars, ricVars, link>>
    BY <1>8 DEF AgNotification
  <2>2. /\ Head(agIn) \in ToAgent /\ Head(agIn).type = "SHUTDOWN" /\ agIn # <<>>
        /\ agIn' \in Seq(ToAgent) /\ rdl' \in Seq(Fds \cup {SOCK})
    BY <1>i, <2>1, ReadTypes
  <2>3. NewFd \in Fds
    BY <1>i, <2>2, NewFdLeft DEF Creating
  <2>4. pending'.left \subseteq Fds \X {SETUP} /\ pending'.right \subseteq {SETUP} \X Fds
    BY <1>n, <2>1, <2>3
  <2>5. setupRun' \in Runs
    BY <2>1, AgentAssumption DEF Runs
  <2>. QED
    BY <1>i, <2>1, <2>2, <2>3, <2>4, <2>5 DEF TypeOK, stopVars, ricVars, ricState, link
<1>9. CASE AgIndication
  <2>1. PICK p \in indEvent.left :
          /\ AgSend([type |-> "IND", rid |-> p[2], run |-> born[p[1]]])
          /\ rdl # <<>> /\ rdl' = Tail(rdl) /\ apc' = "test"
          /\ UNCHANGED <<agAbort, pending, indEvent, timers, born, setupRun, agIn, stopVars, ricVars>>
    BY <1>9 DEF AgIndication, TimerEvent
  <2>2. ricIn' \in Seq(ToRic) /\ linked' \in BOOLEAN
    BY <1>i, <2>1, AgSendTypes, AgMessages
  <2>3. rdl' \in Seq(Fds \cup {SOCK})
    BY <1>i, <2>1 DEF TypeOK
  <2>. QED
    BY <1>i, <2>1, <2>2, <2>3 DEF TypeOK, stopVars, ricVars, ricState
<1>10. CASE AgPendingEvent
  <2>1. CASE \E why : AgAbort(why)
    BY <1>a, <2>1
  <2>2. CASE ~\E why : AgAbort(why)
    <3>1. /\ AgSend(SetupRequest) /\ rdl # <<>> /\ rdl' = Tail(rdl) /\ apc' = "test"
          /\ UNCHANGED <<agAbort, pending, indEvent, timers, born, setupRun, agIn, stopVars, ricVars>>
      BY <1>10, <2>2 DEF AgPendingEvent, TimerEvent
    <3>2. ricIn' \in Seq(ToRic) /\ linked' \in BOOLEAN
      BY <1>i, <3>1, AgSendTypes, AgMessages
    <3>3. rdl' \in Seq(Fds \cup {SOCK})
      BY <1>i, <3>1 DEF TypeOK
    <3>. QED
      BY <1>i, <3>1, <3>2, <3>3 DEF TypeOK, stopVars, ricVars, ricState
  <2>. QED
    BY <2>1, <2>2
<1>11. CASE StopFree
  <2>1. pending'.left = {} /\ pending'.right = {} /\ indEvent'.left = {} /\ indEvent'.right = {}
    BY <1>11 DEF StopFree, bi_map_init
  <2>2. spc' = "freed" /\ UNCHANGED <<apc, timers, born, setupRun, agSock, stopToken, ricVars, link>>
    BY <1>11 DEF StopFree
  <2>. QED
    BY <1>i, <2>1, <2>2 DEF TypeOK, agSock, ricVars, ricState, link
<1>12. CASE RicStart
  <2>1. /\ ricRun < MaxRuns /\ ricUp' = TRUE /\ ricRun' = ricRun + 1
        /\ ricReg' = FALSE /\ ricNext' = 1 /\ ricPending' = {} /\ ricMap' = {} /\ ricSubs' = {}
        /\ UNCHANGED <<agVars, agSock, stopVars, link>>
    BY <1>12 DEF RicStart
  <2>2. ricRun' \in Runs /\ ricNext' \in 1 .. MaxReq + 1
    BY <1>i, <2>1, AgentAssumption DEF TypeOK, Runs
  <2>. QED
    BY <1>i, <2>1, <2>2 DEF TypeOK, agVars, agSock, stopVars, link
<1>e. ASSUME NEW u, RicEnds(u) PROVE TypeOK'
  <2>1. /\ agIn' \in Seq(ToAgent) /\ rdl' \in Seq(Fds \cup {SOCK})
        /\ ricIn' = <<>> /\ linked' = FALSE /\ ricUp' = FALSE
        /\ UNCHANGED <<agVars, stopVars, ricRun, ricState>>
    BY <1>e, <1>i, EndTypes
  <2>2. ricIn' \in Seq(ToRic)
    BY <2>1
  <2>3. linked' \in BOOLEAN /\ ricUp' \in BOOLEAN
    BY <2>1
  <2>. QED
    BY <1>i, <2>1, <2>2, <2>3 DEF TypeOK, agVars, stopVars, ricState
<1>t. RicReceives({"SETUP_REQ"}) \/ RicReceives({"IND"}) \/ (\E t : RicReceives({t}))
        => Tail(ricIn) \in Seq(ToRic) /\ Head(ricIn) \in ToRic
    BY <1>i DEF RicReceives, TypeOK
<1>13. CASE RicSetupRequest
  <2>1. CASE ricReg
    BY <1>13, <1>e, <2>1 DEF RicSetupRequest, RicAborts
  <2>2. CASE ~ricReg
    <3>1. /\ ricReg' = TRUE /\ ricIn' = Tail(ricIn)
          /\ SendToAgent([type |-> "SETUP_RESP", rid |-> 0, run |-> ricRun])
          /\ UNCHANGED <<agVars, stopVars, ricUp, ricRun, ricNext, ricPending, ricMap,
                           ricSubs, linked>>
      BY <1>13, <2>2 DEF RicSetupRequest
    <3>2. [type |-> "SETUP_RESP", rid |-> 0, run |-> ricRun] \in ToAgent
      BY <1>i DEF TypeOK, ToAgent
    <3>3. agIn' \in Seq(ToAgent) /\ rdl' \in Seq(Fds \cup {SOCK}) /\ ricIn' \in Seq(ToRic)
      BY <1>13, <1>i, <1>t, <3>1, <3>2, TellTypes DEF RicSetupRequest
    <3>. QED
      BY <1>i, <3>1, <3>3 DEF TypeOK, agVars, stopVars
  <2>. QED
    BY <2>1, <2>2
<1>14. CASE RicIndication
  <2>1. CASE Head(ricIn).rid \notin ricMap
    BY <1>14, <1>e, <2>1 DEF RicIndication, RicAborts
  <2>2. CASE Head(ricIn).rid \in ricMap
    BY <1>14, <1>i, <1>t, <2>2 DEF RicIndication, TypeOK, agVars, agSock, stopVars, ricVars, ricState
  <2>. QED
    BY <2>1, <2>2
<1>15. ASSUME NEW q, NEW t, <<q, t>> \in Answering, RicAnswer(q, t) PROVE TypeOK'
  <2>1. CASE <<q, Head(ricIn).rid>> \notin ricPending
    BY <1>15, <1>e, <2>1 DEF RicAnswer, RicAborts
  <2>2. CASE <<q, Head(ricIn).rid>> \in ricPending
    <3>1. /\ ricPending' \subseteq ricPending /\ ricSubs' \subseteq ricSubs \cup {Head(ricIn).rid}
          /\ ricIn' = Tail(ricIn) /\ RicReceives({t})
          /\ UNCHANGED <<agVars, agSock, stopVars, ricUp, ricRun, ricReg, ricNext, ricMap, linked>>
      BY <1>15, <2>2 DEF RicAnswer
    <3>2. Head(ricIn).rid \in Rids
      BY <1>i, <2>2 DEF TypeOK
    <3>. QED
      BY <1>i, <1>t, <3>1, <3>2 DEF TypeOK, agVars, agSock, stopVars
  <2>. QED
    BY <2>1, <2>2
<1>16. CASE RicStop
    BY <1>16, <1>e DEF RicStop
<1>17. ASSUME NEW t \in {"SUB_REQ", "CTRL_REQ"}, RicRequest(t) PROVE TypeOK'
  <2>1. /\ ricNext <= MaxReq /\ ricNext' = ricNext + 1
        /\ ricPending' = ricPending \cup {<<t, ricNext>>} /\ ricMap' = ricMap \cup {ricNext}
        /\ SendToAgent([type |-> t, rid |-> ricNext, run |-> ricRun])
        /\ UNCHANGED <<agVars, stopVars, ricUp, ricRun, ricReg, ricSubs, link>>
    BY <1>17 DEF RicRequest
  <2>2. ricNext \in Rids /\ ricNext' \in 1 .. MaxReq + 1
    BY <1>i, <2>1, AgentAssumption DEF TypeOK, Rids
  <2>3. [type |-> t, rid |-> ricNext, run |-> ricRun] \in ToAgent
    BY <1>i, <2>2 DEF TypeOK, ToAgent
  <2>4. agIn' \in Seq(ToAgent) /\ rdl' \in Seq(Fds \cup {SOCK})
    BY <1>i, <2>1, <2>3, TellTypes
  <2>. QED
    BY <1>i, <2>1, <2>2, <2>4 DEF TypeOK, agVars, stopVars, link
<1>18. ASSUME NEW rid \in Rids, RicDelete(rid) PROVE TypeOK'
  <2>1. /\ ricSubs' = ricSubs \ {rid} /\ ricPending' = ricPending \cup {<<"DEL_REQ", rid>>}
        /\ SendToAgent([type |-> "DEL_REQ", rid |-> rid, run |-> ricRun])
        /\ UNCHANGED <<agVars, stopVars, ricUp, ricRun, ricReg, ricNext, ricMap, link>>
    BY <1>18 DEF RicDelete
  <2>2. [type |-> "DEL_REQ", rid |-> rid, run |-> ricRun] \in ToAgent
    BY <1>i DEF TypeOK, ToAgent
  <2>3. agIn' \in Seq(ToAgent) /\ rdl' \in Seq(Fds \cup {SOCK})
    BY <1>i, <2>1, <2>2, TellTypes
  <2>. QED
    BY <1>i, <2>1, <2>3 DEF TypeOK, agVars, stopVars, link
<1>. QED
    BY <1>1, <1>2, <1>3, <1>4, <1>5, <1>6, <1>7, <1>8, <1>9, <1>10, <1>11, <1>12, <1>13, <1>14,
       <1>15, <1>16, <1>17, <1>18, NextCases

-----------------------------------------------------------------------------
(* What a step does, outcome by outcome *)

RicKept == UNCHANGED <<ricUp, ricRun, ricReg, ricNext, ricPending, ricMap, ricSubs, ricAbort, stale>>
AgKept == UNCHANGED <<apc, agAbort, pending, indEvent, timers, born, setupRun, spc>>
LinkKept == UNCHANGED <<ricIn, linked>>

Sent(m) == m \in ToRic /\ IF ricUp THEN ricIn' = Append(ricIn, m) /\ linked' = TRUE ELSE LinkKept
Told(m) ==
    /\ m \in ToAgent
    /\ IF AgentRuns THEN agIn' = Append(agIn, m) /\ rdl' = Arm(rdl, SOCK)
                    ELSE agIn' = agIn /\ rdl' = rdl

\* A turn of the agent's loop that ends well, and one for a message.
Turn == /\ apc = "wait" /\ apc' = "test" /\ spc # "freed" /\ UNCHANGED <<spc, agAbort>> /\ RicKept
        /\ rdl # <<>>
Read(t) == /\ Turn /\ Head(rdl) = SOCK
           /\ agIn # <<>> /\ agIn' = Tail(agIn) /\ Head(agIn) \in ToAgent /\ Head(agIn).type = t

OQuiet ==
    /\ RicKept /\ LinkKept /\ UNCHANGED <<pending, indEvent, timers, born, setupRun, agIn, agAbort>>
    /\ \/ rdl' = rdl
       \/ AgentRuns /\ apc' = apc /\ \E f \in timers : f \notin Range(rdl) /\ rdl' = Append(rdl, f)
    /\ \/ apc' = apc
       \/ apc \in {"test", "wait"} /\ apc' \in {"test", "wait", "stopped"} /\ spc' = spc
    /\ \/ spc' = spc
       \/ spc = "run" /\ spc' = "waiting"
OAbort ==
    /\ RicKept /\ LinkKept /\ UNCHANGED <<pending, indEvent, timers, born, setupRun, agIn, rdl, spc>>
    /\ apc = "wait" /\ apc' = "aborted" /\ spc # "freed"
OStart ==
    /\ apc = "init" /\ apc' = "test" /\ spc # "freed" /\ UNCHANGED <<spc, agAbort>> /\ RicKept
    /\ Sent(SetupRequest) /\ NewFd \in Fds /\ NewFd \notin timers /\ NewFd # SOCK
    /\ timers' = timers \cup {NewFd} /\ pending' = bi_map_insert(pending, NewFd, SETUP)
    /\ UNCHANGED <<indEvent, born, setupRun, agIn, rdl>>
OResponse(r) ==
    /\ Read("SETUP_RESP") /\ r \in bi_map_extract_right(pending, SETUP)
    /\ pending' = r.map /\ RmFd(r.key1, Tail(rdl))
    /\ setupRun' = Head(agIn).run /\ UNCHANGED <<indEvent, born>> /\ LinkKept
OSubscribe ==
    /\ Read("SUB_REQ") /\ NewFd \in Fds /\ NewFd \notin timers /\ NewFd # SOCK
    /\ timers' = timers \cup {NewFd} /\ Head(agIn).rid \in Rids
    /\ indEvent' = bi_map_insert(indEvent, NewFd, Head(agIn).rid)
    /\ born' = [born EXCEPT ![NewFd] = Head(agIn).run]
    /\ Sent([Head(agIn) EXCEPT !.type = "SUB_RESP"]) /\ rdl' = Tail(rdl)
    /\ UNCHANGED <<pending, setupRun>>
ODelete(r) ==
    /\ Read("DEL_REQ") /\ r \in bi_map_extract_right(indEvent, Head(agIn).rid)
    /\ indEvent' = r.map /\ RmFd(r.key1, Tail(rdl))
    /\ Sent([Head(agIn) EXCEPT !.type = "DEL_RESP"])
    /\ UNCHANGED <<pending, born, setupRun>>
OControl ==
    /\ Read("CTRL_REQ") /\ Sent([Head(agIn) EXCEPT !.type = "CTRL_ACK"]) /\ rdl' = Tail(rdl)
    /\ UNCHANGED <<pending, indEvent, timers, born, setupRun>>
ONotified ==
    /\ Read("SHUTDOWN") /\ NewFd \in Fds /\ NewFd \notin timers /\ NewFd # SOCK
    /\ timers' = timers \cup {NewFd} /\ pending' = bi_map_insert(pending, NewFd, SETUP)
    /\ rdl' = Tail(rdl) /\ setupRun' = 0 /\ UNCHANGED <<indEvent, born>> /\ LinkKept
OTimer ==
    /\ Turn /\ Head(rdl) # SOCK /\ rdl' = Tail(rdl)
    /\ \/ Sent(SetupRequest)
       \/ \E p \in indEvent.left : Sent([type |-> "IND", rid |-> p[2], run |-> born[p[1]]])
    /\ UNCHANGED <<pending, indEvent, timers, born, setupRun, agIn>>
OFree ==
    /\ spc = "waiting" /\ spc' = "freed" /\ apc = "stopped" /\ UNCHANGED <<apc, agAbort>>
    /\ pending'.left = {} /\ pending'.right = {} /\ indEvent'.left = {} /\ indEvent'.right = {}
    /\ UNCHANGED <<timers, born, setupRun, agIn, rdl>> /\ RicKept /\ LinkKept
ORicStart ==
    /\ ~ricUp /\ ricRun < MaxRuns /\ ricUp' = TRUE /\ ricRun' = ricRun + 1
    /\ ricReg' = FALSE /\ ricNext' = 1 /\ ricPending' = {} /\ ricMap' = {} /\ ricSubs' = {}
    /\ AgKept /\ LinkKept /\ UNCHANGED <<agIn, rdl, ricAbort, stale>>
ORegister ==
    /\ ricUp /\ ~ricReg /\ ricReg' = TRUE /\ ricIn # <<>> /\ ricIn' = Tail(ricIn)
    /\ Told([type |-> "SETUP_RESP", rid |-> 0, run |-> ricRun])
    /\ AgKept
    /\ UNCHANGED <<ricUp, ricRun, ricNext, ricPending, ricMap, ricSubs, ricAbort, stale, linked>>
OReport ==
    /\ ricUp /\ ricIn # <<>> /\ ricIn' = Tail(ricIn) /\ Head(ricIn).rid \in ricMap
    /\ Head(ricIn).type = "IND"
    /\ AgKept /\ RicKept /\ UNCHANGED <<agIn, rdl, linked>>
OAnswer(q, t) ==
    /\ <<q, t>> \in Answering
    /\ ricUp /\ ricIn # <<>> /\ ricIn' = Tail(ricIn) /\ Head(ricIn).type = t
    /\ <<q, Head(ricIn).rid>> \in ricPending /\ ricPending' = ricPending \ {<<q, Head(ricIn).rid>>}
    /\ ricSubs' = IF q = "SUB_REQ" THEN ricSubs \cup {Head(ricIn).rid} ELSE ricSubs
    /\ stale' = (stale \/ Head(ricIn).run \in 1 .. ricRun - 1)
    /\ AgKept /\ UNCHANGED <<agIn, rdl, ricUp, ricRun, ricReg, ricNext, ricMap, ricAbort, linked>>
OEnd ==
    /\ ricUp /\ ricUp' = FALSE /\ ricIn' = <<>> /\ linked' = FALSE
    /\ \/ agIn' = agIn /\ rdl' = rdl
       \/ (ricReg \/ stale') /\ Told([type |-> "SHUTDOWN", rid |-> 0, run |-> ricRun])
    /\ stale => stale'
    /\ ricAbort' = ricAbort \/ ricAbort' = "E2 Node already exists" \/ stale'
    /\ AgKept /\ UNCHANGED <<ricRun, ricReg, ricNext, ricPending, ricMap, ricSubs>>
ORequest(t) ==
    /\ ricUp /\ ricReg /\ AgentRuns /\ ricNext \in Rids /\ ricNext' = ricNext + 1
    /\ t \in {"SUB_REQ", "CTRL_REQ"}
    /\ ricPending' = ricPending \cup {<<t, ricNext>>} /\ ricMap' = ricMap \cup {ricNext}
    /\ Told([type |-> t, rid |-> ricNext, run |-> ricRun])
    /\ AgKept /\ LinkKept /\ UNCHANGED <<ricUp, ricRun, ricReg, ricSubs, ricAbort, stale>>
ODeleteRequest(rid) ==
    /\ ricUp /\ ricReg /\ AgentRuns /\ rid \in ricSubs /\ ricSubs' = ricSubs \ {rid}
    /\ ricPending' = ricPending \cup {<<"DEL_REQ", rid>>}
    /\ Told([type |-> "DEL_REQ", rid |-> rid, run |-> ricRun])
    /\ AgKept /\ LinkKept /\ UNCHANGED <<ricUp, ricRun, ricReg, ricNext, ricMap, ricAbort, stale>>

Outcome ==
    \/ OQuiet \/ OAbort \/ OStart \/ (\E r : OResponse(r)) \/ OSubscribe \/ (\E r : ODelete(r))
    \/ OControl \/ ONotified \/ OTimer \/ OFree \/ ORicStart \/ ORegister \/ OReport
    \/ (\E q, t : OAnswer(q, t)) \/ OEnd \/ (\E t : ORequest(t)) \/ (\E rid \in Rids : ODeleteRequest(rid))

\* The failed asserts of the RIC, by what they show of the runs.
LEMMA EndOutcome ==
    ASSUME AgentInv, NEW u, RicEnds(u), ricUp, u = ricIn => ricReg \/ ricIn # <<>> \/ ~linked,
           u = ricIn \/ ricReg \/ stale', stale => stale',
           ricAbort' = ricAbort \/ ricAbort' = "E2 Node already exists" \/ stale'
    PROVE  OEnd
<1>i. TypeOK
    BY DEF AgentInv
<1>1. /\ ricUp' = FALSE /\ ricIn' = <<>> /\ linked' = FALSE
      /\ AgKept /\ UNCHANGED <<ricRun, ricReg, ricNext, ricPending, ricMap, ricSubs>>
    BY DEF RicEnds, AgKept, agVars, stopVars, ricState
<1>2. CASE linked /\ u = <<>>
  <2>1. SendToAgent([type |-> "SHUTDOWN", rid |-> 0, run |-> ricRun])
    BY <1>2 DEF RicEnds
  <2>2. [type |-> "SHUTDOWN", rid |-> 0, run |-> ricRun] \in ToAgent
    BY <1>i DEF TypeOK, ToAgent
  <2>3. Told([type |-> "SHUTDOWN", rid |-> 0, run |-> ricRun])
    BY <2>1, <2>2 DEF SendToAgent, Told, agSock
  <2>4. ricReg \/ stale'
    BY <1>2
  <2>. QED
    BY <1>1, <2>3, <2>4 DEF OEnd
<1>3. CASE ~(linked /\ u = <<>>)
  <2>1. agIn' = agIn /\ rdl' = rdl
    BY <1>3 DEF RicEnds, agSock
  <2>. QED
    BY <1>1, <2>1 DEF OEnd
<1>. QED
    BY <1>2, <1>3

\* Every step of the system has one of these outcomes.
LEMMA OutcomeStep ==
    ASSUME AgentInv, [Next]_vars PROVE Outcome
<1>i. TypeOK /\ ToCome /\ RunsInv /\ PcInv
    BY DEF AgentInv
<1>f. apc # "stopped" => spc # "freed"
    BY <1>i DEF PcInv
<1>k. ricVars' = ricVars => RicKept
    BY DEF ricVars, ricState, RicKept
<1>s. ASSUME NEW m \in ToRic, AgSend(m) PROVE Sent(m)
    BY <1>s DEF AgSend, Sent, LinkKept, link
<1>t. ASSUME NEW m \in ToAgent, SendToAgent(m) PROVE Told(m)
    BY <1>t DEF SendToAgent, Told, agSock
<1>a. ASSUME NEW why, AgAbort(why), apc = "wait" PROVE Outcome
    BY <1>a, <1>f, <1>k DEF AgAbort, Outcome, OAbort, LinkKept, stopVars, link, agSock
<1>r. ASSUME NEW t, AgReceives(t)
      PROVE  /\ apc = "wait" /\ rdl # <<>> /\ Head(rdl) = SOCK /\ agIn # <<>> /\ Head(agIn).type = t
             /\ Head(agIn) \in ToAgent
    BY <1>i, <1>r, ReadTypes DEF AgReceives
<1>1. CASE AgStart
  <2>1. apc = "init"
    BY <1>1 DEF AgStart
  <2>2. NewFd \in Fds /\ NewFd \notin timers /\ NewFd # SOCK
    BY <1>i, <2>1, NewFdLeft
  <2>3. Sent(SetupRequest)
    BY <1>1, <1>i, <1>s, AgMessages DEF AgStart
  <2>4. OStart
    BY <1>1, <1>f, <1>k, <2>2, <2>3 DEF AgStart, OStart, agSock, stopVars
  <2>. QED
    BY <2>4 DEF Outcome
<1>2. CASE AgTest \/ AgTimeout
  <2>1. OQuiet
    BY <1>2, <1>k DEF AgTest, AgTimeout, OQuiet, LinkKept, agSock, stopVars, link
  <2>. QED
    BY <2>1 DEF Outcome
<1>3. CASE StopRequest \/ UNCHANGED vars
  <2>1. OQuiet
    BY <1>3, <1>k DEF StopRequest, vars, OQuiet, LinkKept, agVars, agSock, stopVars, link
  <2>. QED
    BY <2>1 DEF Outcome
<1>4. ASSUME NEW f \in Fds, TimerFires(f) PROVE Outcome
  <2>1. OQuiet
    BY <1>4, <1>k DEF TimerFires, OQuiet, LinkKept, agVars, stopVars, link
  <2>. QED
    BY <2>1 DEF Outcome
<1>5. CASE AgSetupResponse
  <2>r. AgReceives("SETUP_RESP")
    BY <1>5 DEF AgSetupResponse
  <2>1. CASE bi_map_extract_right(pending, SETUP) = {}
    BY <1>5, <1>a, <1>r, <2>r, <2>1 DEF AgSetupResponse
  <2>2. CASE bi_map_extract_right(pending, SETUP) # {}
    <3>1. PICK r \in bi_map_extract_right(pending, SETUP) :
            /\ pending' = r.map /\ RmFd(r.key1, Tail(rdl)) /\ agIn' = Tail(agIn)
            /\ setupRun' = Head(agIn).run /\ apc' = "test"
            /\ UNCHANGED <<agAbort, indEvent, born, stopVars, ricVars, link>>
      BY <1>5, <2>2 DEF AgSetupResponse
    <3>2. OResponse(r)
      BY <1>f, <1>k, <1>r, <2>r, <3>1 DEF OResponse, Read, Turn, LinkKept, stopVars, link
    <3>. QED
      BY <3>2 DEF Outcome
  <2>. QED
    BY <2>1, <2>2
<1>6. CASE AgSubscription
  <2>1. /\ AgReceives("SUB_REQ") /\ timers' = timers \cup {NewFd}
        /\ indEvent' = bi_map_insert(indEvent, NewFd, Head(agIn).rid)
        /\ born' = [born EXCEPT ![NewFd] = Head(agIn).run] /\ rdl' = Tail(rdl)
        /\ AgSend([Head(agIn) EXCEPT !.type = "SUB_RESP"]) /\ agIn' = Tail(agIn) /\ apc' = "test"
        /\ UNCHANGED <<agAbort, pending, setupRun, stopVars, ricVars>>
    BY <1>6 DEF AgSubscription, AgAnswer
  <2>2. NewFd \in Fds /\ NewFd \notin timers /\ NewFd # SOCK
    BY <1>i, <1>r, <2>1, NewFdLeft DEF Creating
  <2>3. Head(agIn).rid \in Rids
    BY <1>i, <1>r, <2>1, TailElements DEF RunsInv, TypeOK, Requests
  <2>4. Sent([Head(agIn) EXCEPT !.type = "SUB_RESP"])
    BY <1>i, <1>r, <1>s, <2>1, AgMessages
  <2>5. OSubscribe
    BY <1>f, <1>k, <1>r, <2>1, <2>2, <2>3, <2>4 DEF OSubscribe, Read, Turn, stopVars
  <2>. QED
    BY <2>5 DEF Outcome
<1>7. CASE AgDelete
  <2>r. AgReceives("DEL_REQ")
    BY <1>7 DEF AgDelete
  <2>1. CASE bi_map_extract_right(indEvent, Head(agIn).rid) = {}
    BY <1>7, <1>a, <1>r, <2>r, <2>1 DEF AgDelete
  <2>2. CASE bi_map_extract_right(indEvent, Head(agIn).rid) # {}
    <3>1. PICK r \in bi_map_extract_right(indEvent, Head(agIn).rid) :
            /\ indEvent' = r.map /\ RmFd(r.key1, Tail(rdl)) /\ agIn' = Tail(agIn) /\ apc' = "test"
            /\ AgSend([Head(agIn) EXCEPT !.type = "DEL_RESP"])
            /\ UNCHANGED <<agAbort, pending, born, setupRun, stopVars, ricVars>>
      BY <1>7, <2>2 DEF AgDelete, AgAnswer
    <3>2. Sent([Head(agIn) EXCEPT !.type = "DEL_RESP"])
      BY <1>i, <1>r, <1>s, <2>r, <3>1, AgMessages
    <3>3. ODelete(r)
      BY <1>f, <1>k, <1>r, <2>r, <3>1, <3>2 DEF ODelete, Read, Turn, stopVars
    <3>. QED
      BY <3>3 DEF Outcome
  <2>. QED
    BY <2>1, <2>2
<1>8. CASE AgControl
  <2>1. /\ AgReceives("CTRL_REQ") /\ rdl' = Tail(rdl) /\ agIn' = Tail(agIn) /\ apc' = "test"
        /\ AgSend([Head(agIn) EXCEPT !.type = "CTRL_ACK"])
        /\ UNCHANGED <<agAbort, pending, indEvent, timers, born, setupRun, stopVars, ricVars>>
    BY <1>8 DEF AgControl, AgAnswer
  <2>2. Sent([Head(agIn) EXCEPT !.type = "CTRL_ACK"])
    BY <1>i, <1>r, <1>s, <2>1, AgMessages
  <2>3. OControl
    BY <1>f, <1>k, <1>r, <2>1, <2>2 DEF OControl, Read, Turn, stopVars
  <2>. QED
    BY <2>3 DEF Outcome
<1>9. CASE AgNotification
  <2>1. /\ AgReceives("SHUTDOWN") /\ timers' = timers \cup {NewFd}
        /\ pending' = bi_map_insert(pending, NewFd, SETUP)
        /\ agIn' = Tail(agIn) /\ rdl' = Tail(rdl) /\ setupRun' = 0 /\ apc' = "test"
        /\ UNCHANGED <<agAbort, indEvent, born, stopVars, ricVars, link>>
    BY <1>9 DEF AgNotification
  <2>2. NewFd \in Fds /\ NewFd \notin timers /\ NewFd # SOCK
    BY <1>i, <1>r, <2>1, NewFdLeft DEF Creating
  <2>3. ONotified
    BY <1>f, <1>k, <1>r, <2>1, <2>2 DEF ONotified, Read, Turn, LinkKept, stopVars, link
  <2>. QED
    BY <2>3 DEF Outcome
<1>10. CASE AgIndication
  <2>1. PICK p \in indEvent.left :
          /\ AgSend([type |-> "IND", rid |-> p[2], run |-> born[p[1]]])
          /\ TimerEvent /\ rdl' = Tail(rdl) /\ apc' = "test"
          /\ UNCHANGED <<agAbort, pending, indEvent, timers, born, setupRun, agIn, stopVars, ricVars>>
    BY <1>10 DEF AgIndication
  <2>2. Sent([type |-> "IND", rid |-> p[2], run |-> born[p[1]]])
    BY <1>i, <1>s, <2>1, AgMessages
  <2>3. Turn /\ Head(rdl) # SOCK
    BY <1>f, <1>k, <2>1 DEF TimerEvent, Turn, stopVars
  <2>4. OTimer
    BY <2>1, <2>2, <2>3 DEF OTimer
  <2>. QED
    BY <2>4 DEF Outcome
<1>11. CASE AgPendingEvent
  <2>0. TimerEvent
    BY <1>11 DEF AgPendingEvent
  <2>1. CASE \E why : AgAbort(why)
    BY <1>a, <2>0, <2>1 DEF TimerEvent
  <2>2. CASE ~\E why : AgAbort(why)
    <3>1. /\ AgSend(SetupRequest) /\ rdl' = Tail(rdl) /\ apc' = "test"
          /\ UNCHANGED <<agAbort, pending, indEvent, timers, born, setupRun, agIn, stopVars, ricVars>>
      BY <1>11, <2>2 DEF AgPendingEvent
    <3>2. Sent(SetupRequest)
      BY <1>i, <1>s, <3>1, AgMessages
    <3>3. Turn /\ Head(rdl) # SOCK
      BY <1>f, <1>k, <2>0, <3>1 DEF TimerEvent, Turn, stopVars
    <3>4. OTimer
      BY <3>1, <3>2, <3>3 DEF OTimer
    <3>. QED
      BY <3>4 DEF Outcome
  <2>. QED
    BY <2>1, <2>2
<1>12. CASE StopFree
  <2>1. pending'.left = {} /\ pending'.right = {} /\ indEvent'.left = {} /\ indEvent'.right = {}
    BY <1>12 DEF StopFree, bi_map_init
  <2>2. OFree
    BY <1>12, <1>k, <2>1 DEF StopFree, OFree, LinkKept, agSock, link
  <2>. QED
    BY <2>2 DEF Outcome
<1>13. CASE RicStart
  <2>1. ORicStart
    BY <1>13 DEF RicStart, ORicStart, AgKept, LinkKept, agVars, agSock, stopVars, link
  <2>. QED
    BY <2>1 DEF Outcome
<1>e. OEnd => Outcome
    BY DEF Outcome
<1>v. ASSUME NEW why, RicAborts(why)
      PROVE  /\ RicEnds(Tail(ricIn)) /\ ricAbort' = why /\ (stale => stale')
             /\ stale' = (stale \/ Head(ricIn).run \in 1 .. ricRun - 1)
    BY <1>v DEF RicAborts, MeetsRun
<1>l. ricIn # <<>> => Tail(ricIn) # ricIn
  <2>1. ricIn \in Seq(ToRic)
    BY <1>i DEF TypeOK
  <2>. QED
    BY <2>1, TailElements
<1>h. ricIn # <<>> => ricIn[1] = Head(ricIn) /\ 1 \in DOMAIN ricIn /\ Head(ricIn) \in ToRic
  <2>1. ricIn \in Seq(ToRic)
    BY <1>i DEF TypeOK
  <2>. QED
    BY <2>1, TailElements
<1>x. ASSUME ricIn # <<>>, Head(ricIn).type # "SETUP_REQ", Head(ricIn).run \notin 1 .. ricRun - 1
      PROVE  Head(ricIn).run = ricRun
  <2>1. Head(ricIn).run \in 1 .. ricRun /\ ricRun \in Nat
    BY <1>h, <1>i, <1>x DEF AgentInv, BornInv, TypeOK, Runs
  <2>. QED
    BY <1>x, <2>1
<1>14. CASE RicSetupRequest
  <2>0. ricUp /\ ricIn # <<>>
    BY <1>14 DEF RicSetupRequest, RicReceives
  <2>1. CASE ricReg
    <3>1. RicAborts("E2 Node already exists")
      BY <1>14, <2>1 DEF RicSetupRequest
    <3>2. OEnd
      BY <1>v, <2>0, <2>1, <3>1, EndOutcome
    <3>. QED
      BY <1>e, <3>2
  <2>2. CASE ~ricReg
    <3>2. [type |-> "SETUP_RESP", rid |-> 0, run |-> ricRun] \in ToAgent
      BY <1>i DEF TypeOK, ToAgent
    <3>3. Told([type |-> "SETUP_RESP", rid |-> 0, run |-> ricRun])
      BY <1>14, <1>t, <2>2, <3>2 DEF RicSetupRequest
    <3>4. ORegister
      BY <1>14, <2>0, <2>2, <3>3 DEF RicSetupRequest, ORegister, AgKept, agVars, stopVars
    <3>. QED
      BY <3>4 DEF Outcome
  <2>. QED
    BY <2>1, <2>2
<1>15. CASE RicIndication
  <2>0. ricUp /\ ricIn # <<>> /\ Head(ricIn).type = "IND"
    BY <1>15 DEF RicIndication, RicReceives
  <2>1. CASE Head(ricIn).rid \notin ricMap
    <3>1. RicAborts("Not found RIC Request ID")
      BY <1>15, <2>1 DEF RicIndication
    <3>2. stale'
      BY <1>h, <1>v, <1>x, <2>0, <2>1, <3>1 DEF AgentInv, ExpectedInv
    <3>3. OEnd
      BY <1>l, <1>v, <2>0, <3>1, <3>2, EndOutcome
    <3>. QED
      BY <1>e, <3>3
  <2>2. CASE Head(ricIn).rid \in ricMap
    <3>1. OReport
      BY <1>15, <1>k, <2>0, <2>2 DEF RicIndication, OReport, AgKept, agVars, stopVars, agSock
    <3>. QED
      BY <3>1 DEF Outcome
  <2>. QED
    BY <2>1, <2>2
<1>16. ASSUME NEW q, NEW t, <<q, t>> \in Answering, RicAnswer(q, t) PROVE Outcome
  <2>0. ricUp /\ ricIn # <<>> /\ Head(ricIn).type = t
    BY <1>16 DEF RicAnswer, RicReceives
  <2>t. t \in DOMAIN RequestOf /\ RequestOf[t] = q /\ t # "SETUP_REQ"
    BY <1>16 DEF Answering, RequestOf
  <2>1. CASE <<q, Head(ricIn).rid>> \notin ricPending
    <3>1. RicAborts("key not in the tree")
      BY <1>16, <2>1 DEF RicAnswer
    <3>2. stale'
      BY <1>h, <1>v, <1>x, <2>0, <2>1, <2>t, <3>1 DEF AgentInv, ExpectedInv
    <3>3. OEnd
      BY <1>l, <1>v, <2>0, <3>1, <3>2, EndOutcome
    <3>. QED
      BY <1>e, <3>3
  <2>2. CASE <<q, Head(ricIn).rid>> \in ricPending
    <3>1. OAnswer(q, t)
      BY <1>16, <2>0, <2>2 DEF RicAnswer, MeetsRun, OAnswer, AgKept, agVars, stopVars, agSock
    <3>. QED
      BY <3>1 DEF Outcome
  <2>. QED
    BY <2>1, <2>2
<1>17. CASE RicStop
  <2>1. ricUp /\ RicEnds(ricIn) /\ UNCHANGED <<ricAbort, stale>>
    BY <1>17 DEF RicStop
  <2>2. ricReg \/ ricIn # <<>> \/ ~linked
    BY DEF AgentInv, LinkInv
  <2>3. OEnd
    BY <2>1, <2>2, EndOutcome
  <2>. QED
    BY <1>e, <2>3
<1>18. ASSUME NEW t \in {"SUB_REQ", "CTRL_REQ"}, RicRequest(t) PROVE Outcome
  <2>1. ricNext \in Rids
    BY <1>18, <1>i, AgentAssumption DEF RicRequest, TypeOK, Rids
  <2>2. [type |-> t, rid |-> ricNext, run |-> ricRun] \in ToAgent
    BY <1>i, <2>1 DEF TypeOK, ToAgent
  <2>3. Told([type |-> t, rid |-> ricNext, run |-> ricRun])
    BY <1>18, <1>t, <2>2 DEF RicRequest
  <2>4. ORequest(t)
    BY <1>18, <2>1, <2>3 DEF RicRequest, ORequest, AgKept, LinkKept, agVars, stopVars, link
  <2>. QED
    BY <2>4 DEF Outcome
<1>19. ASSUME NEW rid \in Rids, RicDelete(rid) PROVE Outcome
  <2>1. [type |-> "DEL_REQ", rid |-> rid, run |-> ricRun] \in ToAgent
    BY <1>i DEF TypeOK, ToAgent
  <2>2. Told([type |-> "DEL_REQ", rid |-> rid, run |-> ricRun])
    BY <1>19, <1>t, <2>1 DEF RicDelete
  <2>3. ODeleteRequest(rid)
    BY <1>19, <2>2 DEF RicDelete, ODeleteRequest, AgKept, LinkKept, agVars, stopVars, link
  <2>. QED
    BY <2>3 DEF Outcome
<1>. QED
    BY <1>1, <1>2, <1>3, <1>4, <1>5, <1>6, <1>7, <1>8, <1>9, <1>10, <1>11, <1>12, <1>13, <1>14,
       <1>15, <1>16, <1>17, <1>18, <1>19, NextCases

-----------------------------------------------------------------------------
(* The conjuncts of the invariant, one by one *)

\* The threads of the agent end in order.
LEMMA PcStep == ASSUME AgentInv, [Next]_vars PROVE PcInv'
<1>1. PcInv
    BY DEF AgentInv
<1>2. Outcome
    BY OutcomeStep
<1>3. CASE OAbort
    BY <1>1, <1>3 DEF OAbort, PcInv
<1>4. CASE OQuiet
    BY <1>1, <1>4 DEF OQuiet, PcInv
<1>5. CASE OStart \/ (\E r : OResponse(r)) \/ OSubscribe \/ (\E r : ODelete(r))
           \/ OControl \/ ONotified \/ OTimer \/ OFree
    BY <1>1, <1>5 DEF OStart, OResponse, OSubscribe, ODelete, OControl, ONotified, OTimer, OFree,
                      Read, Turn, PcInv
<1>6. CASE ORicStart \/ ORegister \/ OReport \/ (\E q, t : OAnswer(q, t)) \/ OEnd
           \/ (\E t : ORequest(t)) \/ (\E rid \in Rids : ODeleteRequest(rid))
    BY <1>1, <1>6 DEF ORicStart, ORegister, OReport, OAnswer, OEnd, ORequest, ODeleteRequest,
                      AgKept, PcInv
<1>. QED
    BY <1>2, <1>3, <1>4, <1>5, <1>6 DEF Outcome

\* Every timer keeps its place in one of the maps.
LEMMA MapsStep == ASSUME AgentInv, [Next]_vars PROVE MapsMatchTimers'
<1>1. MapsMatchTimers /\ TypeOK /\ Outcome
    BY OutcomeStep DEF AgentInv, TimersInStep
<1>2. /\ Mirrored(pending) /\ Mirrored(indEvent)
      /\ pending.left \subseteq Fds \X {SETUP} /\ pending.right \subseteq {SETUP} \X Fds
      /\ indEvent.left \subseteq Fds \X Rids /\ indEvent.right \subseteq Rids \X Fds
    BY <1>1 DEF MapsMatchTimers, TypeOK
<1>3. spc # "freed" => /\ FdsOf(pending) \cap FdsOf(indEvent) = {}
                       /\ timers = FdsOf(pending) \cup FdsOf(indEvent)
    BY <1>1 DEF MapsMatchTimers
<1>k. ASSUME UNCHANGED <<pending, indEvent, timers>>, spc' # "freed" => spc # "freed"
      PROVE  MapsMatchTimers'
    BY <1>1, <1>k DEF MapsMatchTimers, Mirrored, FdsOf
<1>4. ASSUME spc # "freed", NewFd \in Fds, NewFd \notin timers, timers' = timers \cup {NewFd},
             pending' = bi_map_insert(pending, NewFd, SETUP), indEvent' = indEvent
      PROVE  MapsMatchTimers'
  <2>1. NewFd \notin FdsOf(pending) /\ NewFd \notin FdsOf(indEvent)
    BY <1>3, <1>4
  <2>2. Mirrored(pending') /\ FdsOf(pending') = FdsOf(pending) \cup {NewFd}
    BY <1>2, <1>4, <2>1, InsertNew
  <2>3. Mirrored(indEvent') /\ FdsOf(indEvent') = FdsOf(indEvent)
    BY <1>2, <1>4
  <2>. QED
    BY <1>3, <1>4, <2>1, <2>2, <2>3 DEF MapsMatchTimers
<1>5. CASE OQuiet \/ OAbort \/ OControl \/ OTimer
    BY <1>k, <1>5 DEF OQuiet, OAbort, OControl, OTimer, Read, Turn
<1>6. CASE OStart \/ ONotified
    BY <1>4, <1>6 DEF OStart, ONotified, Read, Turn
<1>7. ASSUME NEW r, OResponse(r) PROVE MapsMatchTimers'
  <2>1. /\ r \in bi_map_extract_right(pending, SETUP) /\ pending' = r.map /\ indEvent' = indEvent
        /\ timers' = timers \ {r.key1} /\ spc # "freed"
    BY <1>7 DEF OResponse, RmFd, Read, Turn
  <2>2. /\ Mirrored(pending') /\ FdsOf(pending') = FdsOf(pending) \ {r.key1}
        /\ r.key1 \in FdsOf(pending)
    <3>1. /\ Mirrored(r.map) /\ FdsOf(r.map) = FdsOf(pending) \ {r.key1} /\ r.key1 \in FdsOf(pending)
      BY <1>2, <2>1, ExtractOne
    <3>. QED
      BY <2>1, <3>1
  <2>3. Mirrored(indEvent') /\ FdsOf(indEvent') = FdsOf(indEvent)
    BY <1>2, <2>1
  <2>. QED
    BY <1>3, <2>1, <2>2, <2>3 DEF MapsMatchTimers
<1>8. CASE OSubscribe
  <2>1. /\ spc # "freed" /\ NewFd \in Fds /\ NewFd \notin timers /\ timers' = timers \cup {NewFd}
        /\ indEvent' = bi_map_insert(indEvent, NewFd, Head(agIn).rid) /\ pending' = pending
        /\ Head(agIn).rid \in Rids
    BY <1>8 DEF OSubscribe, Read, Turn
  <2>2. NewFd \notin FdsOf(pending) /\ NewFd \notin FdsOf(indEvent)
    BY <1>3, <2>1
  <2>3. Mirrored(indEvent') /\ FdsOf(indEvent') = FdsOf(indEvent) \cup {NewFd}
    BY <1>2, <2>1, <2>2, InsertNew
  <2>4. Mirrored(pending') /\ FdsOf(pending') = FdsOf(pending)
    BY <1>2, <2>1
  <2>. QED
    BY <1>3, <2>1, <2>2, <2>3, <2>4 DEF MapsMatchTimers
<1>9. ASSUME NEW r, ODelete(r) PROVE MapsMatchTimers'
  <2>1. /\ r \in bi_map_extract_right(indEvent, Head(agIn).rid) /\ indEvent' = r.map
        /\ pending' = pending /\ timers' = timers \ {r.key1} /\ spc # "freed"
    BY <1>9 DEF ODelete, RmFd, Read, Turn
  <2>2. /\ Mirrored(indEvent') /\ FdsOf(indEvent') = FdsOf(indEvent) \ {r.key1}
        /\ r.key1 \in FdsOf(indEvent)
    <3>1. /\ Mirrored(r.map) /\ FdsOf(r.map) = FdsOf(indEvent) \ {r.key1} /\ r.key1 \in FdsOf(indEvent)
      BY <1>2, <2>1, ExtractOne
    <3>. QED
      BY <2>1, <3>1
  <2>3. Mirrored(pending') /\ FdsOf(pending') = FdsOf(pending)
    BY <1>2, <2>1
  <2>. QED
    BY <1>3, <2>1, <2>2, <2>3 DEF MapsMatchTimers
<1>10. CASE OFree
    BY <1>10 DEF OFree, MapsMatchTimers, Mirrored
<1>11. CASE ORicStart \/ ORegister \/ OReport \/ (\E q, t : OAnswer(q, t)) \/ OEnd
           \/ (\E t : ORequest(t)) \/ (\E rid \in Rids : ODeleteRequest(rid))
    BY <1>k, <1>11 DEF ORicStart, ORegister, OReport, OAnswer, OEnd, ORequest, ODeleteRequest, AgKept
<1>. QED
    BY <1>1, <1>5, <1>6, <1>7, <1>8, <1>9, <1>10, <1>11 DEF Outcome

\* A descriptor that is armed is not armed twice.
LEMMA ArmElements ==
    ASSUME TypeOK, ReadyOnce, NEW m, Told(m)
    PROVE  /\ ReadyOnce'
           /\ \A i \in DOMAIN rdl' : rdl'[i] = SOCK \/ \E j \in DOMAIN rdl : rdl'[i] = rdl[j]
           /\ rdl' = rdl \/ agIn' = Append(agIn, m)
<1>1. rdl \in Seq(Fds \cup {SOCK})
    BY DEF TypeOK
<1>2. CASE rdl' = rdl
    BY <1>2 DEF ReadyOnce, Told, Arm
<1>3. CASE rdl' = Append(rdl, SOCK) /\ SOCK \notin Range(rdl)
  <2>1. \A i \in DOMAIN rdl : rdl[i] # SOCK
    BY <1>3 DEF Range
  <2>2. /\ DOMAIN rdl = 1 .. Len(rdl) /\ DOMAIN rdl' = 1 .. Len(rdl) + 1 /\ Len(rdl) \in Nat
        /\ \A i \in 1 .. Len(rdl) : rdl'[i] = rdl[i]
        /\ rdl'[Len(rdl) + 1] = SOCK
    BY <1>1, <1>3, AppendElements
  <2>3. \A i \in DOMAIN rdl' : i \in DOMAIN rdl \/ i = Len(rdl) + 1
    BY <2>2
  <2>4. ReadyOnce'
    BY <2>1, <2>2, <2>3 DEF ReadyOnce, IsInjective
  <2>. QED
    BY <1>3, <2>2, <2>3, <2>4 DEF Told
<1>. QED
    BY <1>2, <1>3 DEF Told, Arm

\* The ready list after the turn of its head: no other entry is the head.
LEMMA ReadyTail ==
    ASSUME TypeOK, ReadyOnce, rdl # <<>>
    PROVE  /\ Tail(rdl) \in Seq(Fds \cup {SOCK})
           /\ IsInjective(Tail(rdl))
           /\ \A i \in DOMAIN Tail(rdl) :
                Tail(rdl)[i] # Head(rdl) /\ \E j \in DOMAIN rdl : Tail(rdl)[i] = rdl[j]
<1>1. rdl \in Seq(Fds \cup {SOCK})
    BY DEF TypeOK
<1>2. /\ Tail(rdl) \in Seq(Fds \cup {SOCK}) /\ Head(rdl) = rdl[1] /\ Len(rdl) \in Nat
      /\ Len(rdl) >= 1 /\ DOMAIN rdl = 1 .. Len(rdl) /\ DOMAIN Tail(rdl) = 1 .. Len(rdl) - 1
      /\ \A i \in 1 .. Len(rdl) - 1 : Tail(rdl)[i] = rdl[i + 1]
    BY <1>1, TailElements
<1>3. \A i \in DOMAIN Tail(rdl) : i + 1 \in DOMAIN rdl /\ i + 1 # 1 /\ Tail(rdl)[i] = rdl[i + 1]
    BY <1>2
<1>4. IsInjective(Tail(rdl))
    BY <1>2, <1>3 DEF ReadyOnce, IsInjective
<1>. QED
    BY <1>2, <1>3, <1>4 DEF ReadyOnce, IsInjective

\* The ready list names open timers, and the socket only with a message there.
LEMMA ReadyStep == ASSUME AgentInv, [Next]_vars PROVE ReadyIsReal' /\ ReadyOnce'
<1>1. TypeOK /\ ReadyIsReal /\ ReadyOnce /\ MapsMatchTimers /\ Outcome
    BY OutcomeStep DEF AgentInv, TimersInStep
<1>2. TypeOK'
    BY TypeStep
<1>3. rdl \in Seq(Fds \cup {SOCK}) /\ timers \subseteq Fds /\ SOCK \notin Fds
    BY <1>1, FdsFinite DEF TypeOK
<1>t. ASSUME NEW m, Told(m), timers' = timers PROVE ReadyIsReal' /\ ReadyOnce'
  <2>1. agIn' = agIn \/ agIn' # <<>>
    BY <1>1, <1>t, AppendElements DEF Told, TypeOK
  <2>2. rdl' = rdl \/ agIn' # <<>>
    BY <1>1, <1>t, ArmElements, AppendElements DEF Told, TypeOK
  <2>3. ReadyOnce' /\ \A i \in DOMAIN rdl' : rdl'[i] = SOCK \/ \E j \in DOMAIN rdl : rdl'[i] = rdl[j]
    BY <1>1, <1>t, ArmElements
  <2>. QED
    BY <1>1, <1>t, <2>1, <2>2, <2>3 DEF ReadyIsReal
<1>r. ASSUME rdl # <<>>, Head(rdl) = SOCK, NEW fd,
             \/ rdl' = Tail(rdl) /\ timers \subseteq timers'
             \/ RmFd(fd, Tail(rdl))
      PROVE  ReadyIsReal' /\ ReadyOnce'
  <2>1. /\ Tail(rdl) \in Seq(Fds \cup {SOCK})
        /\ IsInjective(Tail(rdl))
        /\ \A i \in DOMAIN Tail(rdl) : Tail(rdl)[i] # SOCK /\ Tail(rdl)[i] \in timers
    BY <1>1, <1>r, ReadyTail DEF ReadyIsReal
  <2>2. CASE rdl' = Tail(rdl) /\ timers \subseteq timers'
    BY <2>1, <2>2 DEF ReadyIsReal, ReadyOnce
  <2>3. CASE RmFd(fd, Tail(rdl))
    <3>1. timers' = timers \ {fd} /\ rdl' = Without(Tail(rdl), fd)
      BY <2>3 DEF RmFd
    <3>. DEFINE t == Tail(rdl)
                w == Without(t, fd)
    <3>0. /\ IsInjective(w)
          /\ \A i \in DOMAIN w : w[i] # fd /\ \E j \in DOMAIN t : w[i] = t[j]
      <4>1. t \in Seq(Fds \cup {SOCK}) /\ IsInjective(t)
        BY <2>1
      <4>. HIDE DEF t
      <4>. QED
        BY <4>1, WithoutElements
    <3>2. /\ IsInjective(rdl')
          /\ \A i \in DOMAIN rdl' : rdl'[i] # fd /\ \E j \in DOMAIN Tail(rdl) : rdl'[i] = Tail(rdl)[j]
      BY <3>0, <3>1
    <3>. QED
      BY <2>1, <3>1, <3>2 DEF ReadyIsReal, ReadyOnce
  <2>. QED
    BY <1>r, <2>2, <2>3
<1>k. ASSUME UNCHANGED <<rdl, agIn>>, timers \subseteq timers' PROVE ReadyIsReal' /\ ReadyOnce'
    BY <1>1, <1>k DEF ReadyIsReal, ReadyOnce
<1>4. CASE OQuiet
  <2>1. CASE rdl' = rdl
    BY <1>4, <1>k, <2>1 DEF OQuiet
  <2>2. CASE rdl' # rdl
    <3>1. PICK f \in timers : f \notin Range(rdl) /\ rdl' = Append(rdl, f)
      BY <1>4, <2>2 DEF OQuiet
    <3>2. \A i \in DOMAIN rdl : rdl[i] # f
      BY <3>1 DEF Range
    <3>3. /\ DOMAIN rdl = 1 .. Len(rdl) /\ DOMAIN rdl' = 1 .. Len(rdl) + 1 /\ Len(rdl) \in Nat
          /\ \A i \in 1 .. Len(rdl) : rdl'[i] = rdl[i]
          /\ rdl'[Len(rdl) + 1] = f
      BY <1>3, <3>1, AppendElements
    <3>4. \A i \in DOMAIN rdl' : i \in DOMAIN rdl \/ i = Len(rdl) + 1
      BY <3>3
    <3>5. ReadyOnce'
      BY <1>1, <3>2, <3>3, <3>4 DEF ReadyOnce, IsInjective
    <3>6. f # SOCK /\ timers' = timers /\ agIn' = agIn
      BY <1>3, <1>4, <3>1 DEF OQuiet
    <3>7. ReadyIsReal'
      BY <1>1, <3>1, <3>3, <3>4, <3>6 DEF ReadyIsReal
    <3>. QED
      BY <3>5, <3>7
  <2>. QED
    BY <2>1, <2>2
<1>5. CASE OAbort \/ OStart \/ OFree \/ ORicStart \/ OReport \/ (\E q, t : OAnswer(q, t))
    BY <1>5, <1>k DEF OAbort, OStart, OFree, ORicStart, OReport, OAnswer, AgKept
<1>6. CASE OSubscribe \/ OControl \/ ONotified
    BY <1>6, <1>r DEF OSubscribe, OControl, ONotified, Read, Turn
<1>7. CASE (\E r : OResponse(r)) \/ (\E r : ODelete(r))
    BY <1>7, <1>r DEF OResponse, ODelete, Read, Turn
<1>8. CASE OTimer
  <2>1. rdl # <<>> /\ rdl' = Tail(rdl) /\ UNCHANGED <<timers, agIn>>
    BY <1>8 DEF OTimer, Turn
  <2>2. /\ IsInjective(rdl')
        /\ \A i \in DOMAIN rdl' : \E j \in DOMAIN rdl : rdl'[i] = rdl[j]
    BY <1>1, <2>1, ReadyTail
  <2>. QED
    BY <1>1, <2>1, <2>2 DEF ReadyIsReal, ReadyOnce
<1>9. CASE ORegister \/ (\E t : ORequest(t)) \/ (\E rid \in Rids : ODeleteRequest(rid)) \/ OEnd
    BY <1>9, <1>t, <1>k DEF ORegister, ORequest, ODeleteRequest, OEnd, AgKept
<1>. QED
    BY <1>1, <1>4, <1>5, <1>6, <1>7, <1>8, <1>9 DEF Outcome

\* No step uses up a descriptor that is still needed.
LEMMA ToComeStep == ASSUME AgentInv, [Next]_vars PROVE ToCome'
<1>1. TypeOK /\ ToCome /\ Outcome /\ TypeOK'
    BY OutcomeStep, TypeStep DEF AgentInv
<1>. DEFINE T == Cardinality(timers)
            c == Count(agIn, Len(agIn), Creating)
            i == IF apc = "init" THEN 1 ELSE 0
            u == IF ricUp THEN MaxReq + 2 - ricNext ELSE 0
            v == (MaxRuns - ricRun) * (MaxReq + 1)
            T2 == Cardinality(timers')
            c2 == Count(agIn', Len(agIn'), Creating)
            i2 == IF apc' = "init" THEN 1 ELSE 0
            u2 == IF ricUp' THEN MaxReq + 2 - ricNext' ELSE 0
            v2 == (MaxRuns - ricRun') * (MaxReq + 1)
<1>2. agIn \in Seq(ToAgent) /\ agIn' \in Seq(ToAgent) /\ Len(agIn) \in Nat /\ Len(agIn') \in Nat
    BY <1>1 DEF TypeOK
<1>3. IsFiniteSet(timers) /\ IsFiniteSet(timers') /\ T \in Nat /\ T2 \in Nat
    BY <1>1, FdsFinite, FS_Subset, FS_CardinalityType DEF TypeOK
<1>4. c \in Nat /\ c2 \in Nat
    BY <1>2, CountFinite
<1>5. /\ MaxReq \in Nat /\ MaxRuns \in Nat
      /\ ricNext \in Nat /\ ricNext <= MaxReq + 1 /\ ricRun \in Nat /\ ricRun <= MaxRuns
      /\ ricNext' \in Nat /\ ricNext' <= MaxReq + 1 /\ ricRun' \in Nat /\ ricRun' <= MaxRuns
    BY <1>1, AgentAssumption DEF TypeOK, Runs
<1>6. i \in Nat /\ i2 \in Nat /\ u \in Nat /\ u2 \in Nat
  <2>1. i \in Nat /\ i2 \in Nat
    OBVIOUS
  <2>2. u \in Nat
    BY <1>5
  <2>3. u2 \in Nat
    <3>1. \A a, b \in Nat : a <= b + 1 => b + 2 - a \in Nat
      OBVIOUS
    <3>. QED
      BY <1>5, <3>1
  <2>. QED
    BY <2>1, <2>2, <2>3
<1>7. v \in Nat /\ v2 \in Nat
  <2>1. MaxRuns - ricRun \in Nat /\ MaxReq + 1 \in Nat
    BY <1>5
  <2>2. MaxRuns - ricRun' \in Nat
    <3>1. \A a, b \in Nat : a <= b => b - a \in Nat
      OBVIOUS
    <3>. QED
      BY <1>5, <3>1
  <2>. QED
    BY <2>1, <2>2
<1>8. T + c + i + u + v <= MaxRuns * MaxReq + MaxRuns + 1
    BY <1>1 DEF ToCome
<1>n. MaxRuns * MaxReq + MaxRuns + 1 \in Nat
    BY <1>5
<1>9. SUFFICES T2 + c2 + i2 + u2 + v2 <= T + c + i + u + v
  <2>. HIDE DEF T, c, i, u, v, T2, c2, i2, u2, v2
  <2>1. T2 + c2 + i2 + u2 + v2 <= MaxRuns * MaxReq + MaxRuns + 1
    BY <1>3, <1>4, <1>6, <1>7, <1>8, <1>9, <1>n
  <2>. QED
    BY <1>1, <2>1 DEF ToCome, TypeOK, T2, c2, i2, u2, v2
<1>t. ASSUME Head(agIn) \in ToAgent, agIn # <<>>, agIn' = Tail(agIn)
      PROVE  c = c2 + (IF Head(agIn).type \in {"SUB_REQ", "SHUTDOWN"} THEN 1 ELSE 0)
  <2>1. Len(agIn') = Len(agIn) - 1 /\ Len(agIn) \in 1 .. Len(agIn)
    BY <1>2, <1>t, TailElements
  <2>2. c = c2 + (IF Head(agIn) \in Creating THEN 1 ELSE 0)
    BY <1>2, <1>t, <2>1, CountTail
  <2>. QED
    BY <1>t, <2>2 DEF Creating
<1>a. ASSUME NEW m, Told(m)
      PROVE  c2 = c \/ c2 = c + (IF m.type \in {"SUB_REQ", "SHUTDOWN"} THEN 1 ELSE 0)
  <2>1. CASE agIn' = agIn
    BY <2>1
  <2>2. CASE m \in ToAgent /\ agIn' = Append(agIn, m)
    <3>1. Len(agIn') = Len(agIn) + 1
      BY <1>2, <2>2
    <3>2. c2 = c + (IF m \in Creating THEN 1 ELSE 0)
      BY <1>2, <2>2, <3>1, CountAppend
    <3>. QED
      BY <2>2, <3>2 DEF Creating
  <2>. QED
    BY <1>a, <2>1, <2>2 DEF Told
<1>c. agIn' = agIn => c2 = c
    OBVIOUS
<1>w. /\ timers' = timers => T2 = T
      /\ \A f : timers' = timers \cup {f} => T2 = T \/ T2 = T + 1
      /\ \A f : timers' = timers \ {f} => T2 = T \/ T2 = T - 1
    BY <1>3, FS_AddElement, FS_RemoveElement
<1>k. RicKept => u2 = u /\ v2 = v
    BY DEF RicKept
<1>. HIDE DEF T, c, T2, c2
<1>10. CASE OQuiet \/ OAbort \/ OTimer \/ OFree
  <2>1. T2 = T /\ c2 = c /\ u2 = u /\ v2 = v /\ (i2 = i \/ i2 = 0)
    BY <1>10, <1>c, <1>k, <1>w DEF OQuiet, OAbort, OTimer, OFree, Turn
  <2>. HIDE DEF i, u, v, i2, u2, v2
  <2>. QED
    BY <1>3, <1>4, <1>6, <1>7, <2>1
<1>11. CASE OStart
  <2>1. T2 = T \/ T2 = T + 1
    BY <1>11, <1>w DEF OStart
  <2>2. c2 = c /\ u2 = u /\ v2 = v /\ i = 1 /\ i2 = 0
    BY <1>11, <1>c, <1>k DEF OStart
  <2>. HIDE DEF i, u, v, i2, u2, v2
  <2>. QED
    BY <1>3, <1>4, <1>6, <1>7, <2>1, <2>2
<1>12. CASE (\E r : OResponse(r)) \/ (\E r : ODelete(r)) \/ OControl
  <2>1. T2 = T \/ T2 = T - 1
    BY <1>12, <1>w DEF OResponse, ODelete, OControl, RmFd
  <2>2. c2 = c
    BY <1>4, <1>12, <1>t DEF OResponse, ODelete, OControl, Read
  <2>3. u2 = u /\ v2 = v /\ i2 = i
    BY <1>12, <1>k DEF OResponse, ODelete, OControl, Read, Turn
  <2>. HIDE DEF i, u, v, i2, u2, v2
  <2>. QED
    BY <1>3, <1>4, <1>6, <1>7, <2>1, <2>2, <2>3
<1>13. CASE OSubscribe \/ ONotified
  <2>1. T2 = T \/ T2 = T + 1
    BY <1>13, <1>w DEF OSubscribe, ONotified
  <2>2. c = c2 + 1
    BY <1>4, <1>13, <1>t DEF OSubscribe, ONotified, Read
  <2>3. u2 = u /\ v2 = v /\ i2 = i
    BY <1>13, <1>k DEF OSubscribe, ONotified, Read, Turn
  <2>. HIDE DEF i, u, v, i2, u2, v2
  <2>. QED
    BY <1>3, <1>4, <1>6, <1>7, <2>1, <2>2, <2>3
<1>14. CASE ORicStart
  <2>1. T2 = T /\ c2 = c /\ i2 = i /\ u = 0 /\ u2 = MaxReq + 1
    BY <1>5, <1>14, <1>c, <1>w DEF ORicStart, AgKept
  <2>2. v = v2 + (MaxReq + 1)
    <3>1. ricRun' = ricRun + 1
      BY <1>14 DEF ORicStart
    <3>2. \A a, b \in Int : a * b = (a - 1) * b + b
      OBVIOUS
    <3>3. MaxRuns - ricRun \in Int /\ MaxReq + 1 \in Int /\ MaxRuns - ricRun' = (MaxRuns - ricRun) - 1
      BY <1>5, <3>1
    <3>. QED
      BY <3>2, <3>3
  <2>. HIDE DEF i, u, v, i2, u2, v2
  <2>. QED
    BY <1>3, <1>4, <1>5, <1>6, <1>7, <2>1, <2>2
<1>15. CASE ORegister \/ OReport \/ (\E q, t : OAnswer(q, t)) \/ (\E rid \in Rids : ODeleteRequest(rid))
  <2>0. UNCHANGED <<timers, apc, ricUp, ricNext, ricRun>>
    BY <1>15 DEF ORegister, OReport, OAnswer, ODeleteRequest, AgKept, RicKept
  <2>1. T2 = T /\ i2 = i /\ u2 = u /\ v2 = v
    BY <1>w, <2>0
  <2>2. c2 = c
    <3>1. CASE OReport \/ (\E q, t : OAnswer(q, t))
      BY <1>c, <3>1 DEF OReport, OAnswer
    <3>2. CASE ORegister
      BY <1>4, <1>a, <3>2 DEF ORegister
    <3>3. ASSUME NEW rid \in Rids, ODeleteRequest(rid) PROVE c2 = c
      BY <1>4, <1>a, <3>3 DEF ODeleteRequest
    <3>. QED
      BY <1>15, <3>1, <3>2, <3>3
  <2>. HIDE DEF i, u, v, i2, u2, v2
  <2>. QED
    BY <1>3, <1>4, <1>6, <1>7, <2>1, <2>2
<1>16. CASE OEnd
  <2>0. UNCHANGED <<timers, apc, ricRun, ricNext>> /\ ricUp /\ ~ricUp'
    BY <1>16 DEF OEnd, AgKept
  <2>1. T2 = T /\ i2 = i /\ u >= 1 /\ u2 = 0 /\ v2 = v
    BY <1>5, <1>w, <2>0
  <2>2. c2 = c \/ c2 = c + 1
    <3>1. CASE agIn' = agIn
      BY <1>c, <3>1
    <3>2. CASE Told([type |-> "SHUTDOWN", rid |-> 0, run |-> ricRun])
      BY <1>a, <3>2
    <3>. QED
      BY <1>16, <3>1, <3>2 DEF OEnd
  <2>. HIDE DEF i, u, v, i2, u2, v2
  <2>. QED
    BY <1>3, <1>4, <1>6, <1>7, <2>1, <2>2
<1>17. ASSUME NEW t, ORequest(t) PROVE T2 + c2 + i2 + u2 + v2 <= T + c + i + u + v
  <2>1. T2 = T /\ i2 = i /\ u2 = u - 1 /\ v2 = v
    BY <1>5, <1>17, <1>w DEF ORequest, AgKept
  <2>2. c2 <= c + 1
    BY <1>4, <1>17, <1>a DEF ORequest
  <2>. HIDE DEF i, u, v, i2, u2, v2
  <2>. QED
    BY <1>3, <1>4, <1>6, <1>7, <2>1, <2>2
<1>. QED
    BY <1>1, <1>10, <1>11, <1>12, <1>13, <1>14, <1>15, <1>16, <1>17 DEF Outcome

\* The receive queue of the agent after a turn, and after a message of the RIC.
LEMMA QueueSteps ==
    ASSUME TypeOK
    PROVE  /\ \A t : Read(t) =>
                /\ 1 \in DOMAIN agIn /\ agIn[1] = Head(agIn)
                /\ \A i \in DOMAIN agIn' :
                     /\ i \in Nat /\ i >= 1 /\ i + 1 \in DOMAIN agIn /\ agIn'[i] = agIn[i + 1]
                /\ \A j \in DOMAIN agIn : j \in Nat /\ j >= 1
                     /\ (j # 1 => j - 1 \in DOMAIN agIn' /\ agIn'[j - 1] = agIn[j])
           /\ \A m : Told(m) => agIn' = agIn \/
                /\ AgentRuns /\ agIn' = Append(agIn, m)
                /\ Len(agIn) + 1 \in DOMAIN agIn' /\ agIn'[Len(agIn) + 1] = m
                /\ \A i \in DOMAIN agIn :
                     i \in Nat /\ i < Len(agIn) + 1 /\ i \in DOMAIN agIn' /\ agIn'[i] = agIn[i]
                /\ \A i \in DOMAIN agIn' : i = Len(agIn) + 1 \/ i \in DOMAIN agIn
<1>1. agIn \in Seq(ToAgent) /\ Len(agIn) \in Nat
    BY DEF TypeOK
<1>2. ASSUME NEW t, Read(t)
      PROVE  /\ 1 \in DOMAIN agIn /\ agIn[1] = Head(agIn)
             /\ \A i \in DOMAIN agIn' :
                  /\ i \in Nat /\ i >= 1 /\ i + 1 \in DOMAIN agIn /\ agIn'[i] = agIn[i + 1]
             /\ \A j \in DOMAIN agIn : j \in Nat /\ j >= 1
                  /\ (j # 1 => j - 1 \in DOMAIN agIn' /\ agIn'[j - 1] = agIn[j])
  <2>1. agIn # <<>> /\ agIn' = Tail(agIn)
    BY <1>2 DEF Read
  <2>2. /\ Head(agIn) = agIn[1] /\ Len(agIn) >= 1
        /\ DOMAIN agIn = 1 .. Len(agIn) /\ DOMAIN agIn' = 1 .. Len(agIn) - 1
        /\ \A i \in 1 .. Len(agIn) - 1 : agIn'[i] = agIn[i + 1]
    BY <1>1, <2>1, TailElements
  <2>3. \A j \in 1 .. Len(agIn) : j # 1 => j - 1 \in 1 .. Len(agIn) - 1 /\ (j - 1) + 1 = j
    BY <1>1
  <2>. QED
    BY <1>1, <2>2, <2>3
<1>3. ASSUME NEW m, Told(m)
      PROVE  agIn' = agIn \/
                /\ AgentRuns /\ agIn' = Append(agIn, m)
                /\ Len(agIn) + 1 \in DOMAIN agIn' /\ agIn'[Len(agIn) + 1] = m
                /\ \A i \in DOMAIN agIn :
                     i \in Nat /\ i < Len(agIn) + 1 /\ i \in DOMAIN agIn' /\ agIn'[i] = agIn[i]
                /\ \A i \in DOMAIN agIn' : i = Len(agIn) + 1 \/ i \in DOMAIN agIn
  <2>1. CASE agIn' = agIn
    BY <2>1
  <2>2. CASE AgentRuns /\ m \in ToAgent /\ agIn' = Append(agIn, m)
    <3>1. /\ DOMAIN agIn = 1 .. Len(agIn) /\ DOMAIN agIn' = 1 .. Len(agIn) + 1
          /\ \A i \in 1 .. Len(agIn) : agIn'[i] = agIn[i]
          /\ agIn'[Len(agIn) + 1] = m
      BY <1>1, <2>2, AppendElements
    <3>2. \A n \in Nat : /\ n + 1 \in 1 .. n + 1
                         /\ \A i \in 1 .. n : i \in Nat /\ i < n + 1 /\ i \in 1 .. n + 1
                         /\ \A i \in 1 .. n + 1 : i = n + 1 \/ i \in 1 .. n
      OBVIOUS
    <3>3. /\ Len(agIn) + 1 \in DOMAIN agIn'
          /\ \A i \in DOMAIN agIn : i \in Nat /\ i < Len(agIn) + 1 /\ i \in DOMAIN agIn'
          /\ \A i \in DOMAIN agIn' : i = Len(agIn) + 1 \/ i \in DOMAIN agIn
      BY <1>1, <3>1, <3>2
    <3>4. \A i \in DOMAIN agIn : agIn'[i] = agIn[i]
      BY <3>1
    <3>. QED
      BY <2>2, <3>1, <3>3, <3>4
  <2>. QED
    BY <1>3, <2>1, <2>2 DEF Told
<1>. QED
    BY <1>2, <1>3

\* The messages of the runs keep their order.
LEMMA RunsStep == ASSUME AgentInv, [Next]_vars PROVE RunsInv'
<1>1. TypeOK /\ RunsInv /\ LinkInv /\ Outcome /\ TypeOK'
    BY OutcomeStep, TypeStep DEF AgentInv
<1>2. /\ ricRun \in Nat /\ setupRun \in Nat
      /\ \A i \in DOMAIN agIn : i \in Nat /\ agIn[i].run \in Nat /\ agIn[i].run >= 1 /\ agIn[i].run <= ricRun
  <2>1. ricRun \in Nat /\ setupRun \in Nat /\ agIn \in Seq(ToAgent)
    BY <1>1, AgentAssumption DEF TypeOK, Runs
  <2>2. \A i \in DOMAIN agIn : agIn[i].run \in 1 .. ricRun
    BY <1>1 DEF RunsInv
  <2>. QED
    BY <2>1, <2>2
<1>k. ASSUME UNCHANGED <<agIn, setupRun, ricRun, ricReg, ricUp>> PROVE RunsInv'
    BY <1>1, <1>k DEF RunsInv
<1>3. CASE OQuiet \/ OAbort \/ OStart \/ OTimer \/ OFree \/ OReport \/ (\E q, t : OAnswer(q, t))
    BY <1>3, <1>k DEF OQuiet, OAbort, OStart, OTimer, OFree, OReport, OAnswer, Turn, AgKept, RicKept
<1>4. CASE OSubscribe \/ (\E r : ODelete(r)) \/ OControl
  <2>1. PICK t : Read(t)
    BY <1>4 DEF OSubscribe, ODelete, OControl
  <2>2. UNCHANGED <<setupRun, ricRun, ricReg, ricUp>>
    BY <1>4 DEF OSubscribe, ODelete, OControl, Read, Turn, RicKept
  <2>3. \A i \in DOMAIN agIn' : i \in Nat /\ i + 1 \in DOMAIN agIn /\ agIn'[i] = agIn[i + 1]
    BY <1>1, <2>1, QueueSteps
  <2>4. \A i, j \in Nat : i < j => i + 1 < j + 1
    OBVIOUS
  <2>. QED
    BY <1>1, <2>2, <2>3, <2>4 DEF RunsInv
<1>5. CASE ONotified
  <2>1. Read("SHUTDOWN") /\ setupRun' = 0 /\ UNCHANGED <<ricRun, ricReg, ricUp>>
    BY <1>5 DEF ONotified, Read, Turn, RicKept
  <2>3. \A i \in DOMAIN agIn' : i \in Nat /\ i + 1 \in DOMAIN agIn /\ agIn'[i] = agIn[i + 1]
    BY <1>1, <2>1, QueueSteps
  <2>4. \A i, j \in Nat : i < j => i + 1 < j + 1
    OBVIOUS
  <2>5. \A i \in DOMAIN agIn : 0 <= agIn[i].run /\ 0 < agIn[i].run
    BY <1>2
  <2>. QED
    BY <1>1, <1>2, <2>1, <2>3, <2>4, <2>5 DEF RunsInv
<1>6. ASSUME NEW r, OResponse(r) PROVE RunsInv'
  <2>1. /\ Read("SETUP_RESP") /\ setupRun' = Head(agIn).run /\ UNCHANGED <<ricRun, ricReg, ricUp>>
        /\ Head(agIn).type = "SETUP_RESP"
    BY <1>6 DEF OResponse, Read, Turn, RicKept
  <2>3. /\ 1 \in DOMAIN agIn /\ agIn[1] = Head(agIn)
        /\ \A i \in DOMAIN agIn' : i \in Nat /\ i >= 1 /\ i + 1 \in DOMAIN agIn /\ agIn'[i] = agIn[i + 1]
    BY <1>1, <2>1, QueueSteps
  <2>4. \A i, j \in Nat : i < j => i + 1 < j + 1
    OBVIOUS
  <2>5. \A i \in DOMAIN agIn' : 1 < i + 1
    BY <2>3
  <2>6. /\ \A i \in DOMAIN agIn' : agIn[1].run <= agIn[i + 1].run
        /\ \A i \in DOMAIN agIn' : agIn[i + 1].type = "SETUP_RESP" => agIn[1].run < agIn[i + 1].run
    BY <1>1, <2>1, <2>3, <2>5 DEF RunsInv
  <2>7. agIn[1].run <= ricRun /\ (agIn[1].run = ricRun => ricReg)
    BY <1>1, <1>2, <2>1, <2>3 DEF RunsInv
  <2>. QED
    BY <1>1, <2>1, <2>3, <2>4, <2>6, <2>7 DEF RunsInv
<1>7. CASE ORicStart
  <2>1. ricRun' = ricRun + 1 /\ ~ricReg' /\ UNCHANGED <<agIn, setupRun>>
    BY <1>7 DEF ORicStart, AgKept
  <2>2. \A i \in DOMAIN agIn : agIn[i].run # ricRun' /\ agIn[i].run \in 1 .. ricRun'
    BY <1>2, <2>1
  <2>3. setupRun' <= ricRun' /\ setupRun' # ricRun'
    BY <1>1, <1>2, <2>1 DEF RunsInv
  <2>. QED
    BY <1>1, <2>1, <2>2, <2>3 DEF RunsInv
<1>a. ASSUME NEW m, Told(m), m.run = ricRun, m.type \in Requests => m.rid \in Rids, ricUp,
             UNCHANGED <<setupRun, ricRun>>, ricReg => ricReg', ricUp' => ricUp,
             m.type = "SETUP_RESP" => ~ricReg /\ ricReg', m.type = "SHUTDOWN" => ~ricUp'
      PROVE  RunsInv'
  <2>0. setupRun <= ricRun /\ ricRun # 0 /\ ricRun \in 1 .. ricRun
    BY <1>1, <1>2, <1>a DEF RunsInv, LinkInv
  <2>1. CASE agIn' = agIn
    BY <1>1, <1>a, <2>1 DEF RunsInv
  <2>2. CASE agIn' # agIn
    <3>. DEFINE n == Len(agIn) + 1
    <3>1. /\ n \in DOMAIN agIn' /\ agIn'[n] = m
          /\ \A i \in DOMAIN agIn : i < n /\ agIn'[i] = agIn[i]
          /\ \A i \in DOMAIN agIn' : i = n \/ i \in DOMAIN agIn
      BY <1>1, <1>a, <2>2, QueueSteps
    <3>2. n \in Nat
      BY <1>1 DEF TypeOK
    <3>. HIDE DEF n
    <3>3. \A i \in DOMAIN agIn : agIn[i].run <= ricRun /\
            (agIn[i].type = "SHUTDOWN" \/ (agIn[i].type = "SETUP_RESP" /\ m.type = "SETUP_RESP")
               => agIn[i].run < ricRun)
      BY <1>1, <1>2, <1>a DEF RunsInv
    <3>4. m.type = "SETUP_RESP" => setupRun < ricRun
      BY <1>1, <1>2, <1>a, <2>0 DEF RunsInv
    <3>5. \A i \in DOMAIN agIn' :
             /\ agIn'[i].run \in 1 .. ricRun /\ setupRun <= agIn'[i].run
             /\ agIn'[i].type = "SETUP_RESP" =>
                  setupRun < agIn'[i].run /\ (agIn'[i].run = ricRun => ricReg')
             /\ agIn'[i].type = "SHUTDOWN" => agIn'[i].run # ricRun \/ ~ricUp'
             /\ agIn'[i].type \in Requests => agIn'[i].rid \in Rids
      BY <1>1, <1>a, <2>0, <3>1, <3>4 DEF RunsInv
    <3>6. \A i, j \in DOMAIN agIn' : i < j =>
             /\ agIn'[i].run <= agIn'[j].run
             /\ agIn'[i].type = "SHUTDOWN" \/ (agIn'[i].type = "SETUP_RESP" /\ agIn'[j].type = "SETUP_RESP")
                  => agIn'[i].run < agIn'[j].run
      <4>1. SUFFICES ASSUME NEW i \in DOMAIN agIn', NEW j \in DOMAIN agIn', i < j
                     PROVE  /\ agIn'[i].run <= agIn'[j].run
                            /\ agIn'[i].type = "SHUTDOWN"
                                 \/ (agIn'[i].type = "SETUP_RESP" /\ agIn'[j].type = "SETUP_RESP")
                                 => agIn'[i].run < agIn'[j].run
        OBVIOUS
      <4>2. CASE j = n
        <5>1. i \in DOMAIN agIn
          BY <3>1, <3>2, <4>1, <4>2
        <5>. QED
          BY <1>a, <3>1, <3>3, <4>2, <5>1
      <4>3. CASE j # n
        <5>1. j \in DOMAIN agIn
          BY <3>1, <4>3
        <5>2. i \in DOMAIN agIn
          BY <1>2, <3>1, <3>2, <4>1, <5>1
        <5>. QED
          BY <1>1, <3>1, <4>1, <5>1, <5>2 DEF RunsInv
      <4>. QED
        BY <4>2, <4>3
    <3>. QED
      BY <1>1, <1>a, <2>0, <3>5, <3>6 DEF RunsInv
  <2>. QED
    BY <2>1, <2>2
<1>8. CASE ORegister
  <2>. DEFINE m == [type |-> "SETUP_RESP", rid |-> 0, run |-> ricRun]
  <2>1. /\ Told(m) /\ ricUp /\ ~ricReg /\ ricReg' /\ UNCHANGED <<setupRun, ricRun, ricUp>>
    BY <1>8 DEF ORegister, AgKept
  <2>2. m.type = "SETUP_RESP" /\ m.run = ricRun /\ m.type \notin Requests
    BY DEF Requests
  <2>. HIDE DEF m
  <2>. QED
    BY <1>a, <2>1, <2>2
<1>9. CASE OEnd
  <2>. DEFINE m == [type |-> "SHUTDOWN", rid |-> 0, run |-> ricRun]
  <2>1. ricUp /\ ~ricUp' /\ UNCHANGED <<setupRun, ricRun, ricReg>> /\ (agIn' = agIn \/ Told(m))
    BY <1>9 DEF OEnd, AgKept
  <2>2. m.type = "SHUTDOWN" /\ m.run = ricRun /\ m.type \notin Requests
    BY DEF Requests
  <2>. HIDE DEF m
  <2>3. CASE Told(m)
    BY <1>a, <2>1, <2>2, <2>3
  <2>4. CASE agIn' = agIn
    BY <1>1, <2>1, <2>4 DEF RunsInv
  <2>. QED
    BY <2>1, <2>3, <2>4
<1>10. ASSUME NEW t, ORequest(t) PROVE RunsInv'
  <2>. DEFINE m == [type |-> t, rid |-> ricNext, run |-> ricRun]
  <2>1. /\ ricUp /\ UNCHANGED <<setupRun, ricRun, ricReg, ricUp>> /\ Told(m)
        /\ t # "SHUTDOWN" /\ t # "SETUP_RESP" /\ ricNext \in Rids
    BY <1>10 DEF ORequest, AgKept
  <2>2. m.type = t /\ m.run = ricRun /\ m.rid = ricNext
    OBVIOUS
  <2>. HIDE DEF m
  <2>. QED
    BY <1>a, <2>1, <2>2
<1>11. ASSUME NEW rid \in Rids, ODeleteRequest(rid) PROVE RunsInv'
  <2>. DEFINE m == [type |-> "DEL_REQ", rid |-> rid, run |-> ricRun]
  <2>1. ricUp /\ UNCHANGED <<setupRun, ricRun, ricReg, ricUp>> /\ Told(m)
    BY <1>11 DEF ODeleteRequest, AgKept
  <2>2. m.type = "DEL_REQ" /\ m.run = ricRun /\ m.rid = rid
    OBVIOUS
  <2>. HIDE DEF m
  <2>. QED
    BY <1>a, <2>1, <2>2
<1>. QED
    BY <1>1, <1>3, <1>4, <1>5, <1>6, <1>7, <1>8, <1>9, <1>10, <1>11 DEF Outcome

\* The history of meeting earlier runs is not forgotten.
LEMMA StaleStays == ASSUME Outcome, ~stale' PROVE ~stale
    BY DEF Outcome, OQuiet, OAbort, OStart, OResponse, OSubscribe, ODelete, OControl, ONotified,
           OTimer, OFree, ORicStart, ORegister, OReport, OAnswer, OEnd, ORequest, ODeleteRequest,
           Read, Turn, RicKept

\* The setup timer follows the responses and the notifications.
LEMMA SetupStep == ASSUME AgentInv, [Next]_vars PROVE SetupInv'
<1>1. TypeOK /\ RunsInv /\ LinkInv /\ SetupInv /\ PcInv /\ MapsMatchTimers /\ Outcome
    BY OutcomeStep DEF AgentInv, TimersInStep
<1>2. ~stale' => ~stale
    BY <1>1, StaleStays
<1>3. /\ ricRun \in Nat /\ setupRun \in Nat
      /\ \A i \in DOMAIN agIn : i \in Nat /\ agIn[i].run \in Nat /\ agIn[i].run >= 1 /\ agIn[i].run <= ricRun
  <2>1. ricRun \in Nat /\ setupRun \in Nat /\ agIn \in Seq(ToAgent)
    BY <1>1, AgentAssumption DEF TypeOK, Runs
  <2>2. \A i \in DOMAIN agIn : agIn[i].run \in 1 .. ricRun
    BY <1>1 DEF RunsInv
  <2>. QED
    BY <2>1, <2>2
<1>k. ASSUME UNCHANGED <<pending, setupRun, agIn, ricRun, ricReg>>, ricUp' => ricUp,
             AgentRuns' => AgentRuns, apc' # "init" => apc # "init", spc' # "freed" => spc # "freed"
      PROVE  SetupInv'
    BY <1>1, <1>2, <1>k DEF SetupInv
<1>4. CASE OQuiet \/ OTimer \/ OReport \/ (\E q, t : OAnswer(q, t))
  <2>1. /\ UNCHANGED <<pending, setupRun, agIn, ricRun, ricReg, ricUp>>
        /\ apc' # "init" => apc # "init"
        /\ spc' # "freed" => spc # "freed"
        /\ apc' # "aborted" => apc # "aborted"
    BY <1>4 DEF OQuiet, OTimer, OReport, OAnswer, Turn, AgKept, RicKept
  <2>. QED
    BY <1>k, <2>1 DEF AgentRuns
<1>5. CASE OAbort
  <2>1. /\ UNCHANGED <<pending, setupRun, agIn, ricRun, ricReg, ricUp>>
        /\ apc # "init" /\ spc # "freed" /\ ~AgentRuns'
    BY <1>5 DEF OAbort, RicKept, AgentRuns
  <2>. QED
    BY <1>k, <2>1
<1>6. CASE OFree
  <2>1. /\ UNCHANGED <<setupRun, agIn>> /\ spc' = "freed" /\ pending'.left = {} /\ ~AgentRuns'
    BY <1>6 DEF OFree, AgentRuns
  <2>. QED
    BY <1>1, <1>2, <2>1 DEF SetupInv
<1>7. CASE ORicStart
  <2>1. UNCHANGED <<pending, setupRun, agIn, apc, spc>> /\ ~ricReg'
    BY <1>7 DEF ORicStart, AgKept
  <2>. QED
    BY <1>1, <1>2, <2>1 DEF SetupInv
<1>8. CASE OStart
  <2>1. /\ pending' = bi_map_insert(pending, NewFd, SETUP) /\ UNCHANGED <<setupRun, agIn>>
        /\ UNCHANGED <<ricRun, ricReg, ricUp, spc>> /\ apc = "init" /\ NewFd \in Fds /\ NewFd \notin timers
        /\ spc # "freed"
    BY <1>8 DEF OStart, RicKept
  <2>2. pending.left = {} /\ setupRun = 0
    BY <1>1, <2>1 DEF PcInv
  <2>4. pending'.left = {<<NewFd, SETUP>>}
    BY <2>1, <2>2 DEF bi_map_insert
  <2>5. AgentRuns
    BY <2>1 DEF AgentRuns
  <2>. QED
    BY <1>1, <1>2, <2>1, <2>2, <2>4, <2>5 DEF SetupInv
<1>9. CASE OSubscribe \/ (\E r : ODelete(r)) \/ OControl
  <2>1. PICK t : Read(t) /\ t # "SETUP_RESP" /\ t # "SHUTDOWN"
    BY <1>9 DEF OSubscribe, ODelete, OControl
  <2>2. UNCHANGED <<pending, setupRun, ricRun, ricReg, ricUp>> /\ apc # "init" /\ spc # "freed" /\ AgentRuns
    BY <1>9 DEF OSubscribe, ODelete, OControl, Read, Turn, RicKept, AgentRuns
  <2>3. /\ 1 \in DOMAIN agIn /\ agIn[1].type = t
        /\ \A i \in DOMAIN agIn' : i \in Nat /\ i + 1 \in DOMAIN agIn /\ agIn'[i] = agIn[i + 1]
        /\ \A j \in DOMAIN agIn : j \in Nat /\ j >= 1
                     /\ (j # 1 => j - 1 \in DOMAIN agIn' /\ agIn'[j - 1] = agIn[j])
    BY <1>1, <2>1, QueueSteps DEF Read
  <2>4. (AgentRuns /\ ricUp /\ ricReg)' =>
         \/ setupRun = ricRun
         \/ \E i \in DOMAIN agIn' : agIn'[i].type = "SETUP_RESP" /\ agIn'[i].run = ricRun
    BY <1>1, <2>1, <2>2, <2>3 DEF SetupInv
  <2>5. ASSUME ~stale, NEW i \in DOMAIN agIn', agIn'[i].type = "SHUTDOWN", setupRun # agIn'[i].run
        PROVE  \E j \in 1 .. i - 1 : agIn'[j].type = "SETUP_RESP" /\ agIn'[j].run = agIn'[i].run
    <3>1. PICK j \in 1 .. (i + 1) - 1 : agIn[j].type = "SETUP_RESP" /\ agIn[j].run = agIn[i + 1].run
      BY <1>1, <2>3, <2>5 DEF SetupInv
    <3>2. j # 1
      BY <2>1, <2>3, <3>1
    <3>3. DOMAIN agIn = 1 .. Len(agIn) /\ Len(agIn) \in Nat
      BY <1>1 DEF TypeOK
    <3>4. j \in DOMAIN agIn /\ j - 1 \in 1 .. i - 1
      BY <2>3, <3>2, <3>3
    <3>. QED
      BY <2>3, <3>1, <3>2, <3>4
  <2>. QED
    BY <1>1, <1>2, <2>2, <2>4, <2>5 DEF SetupInv
<1>10. CASE ONotified
  <2>1. /\ Read("SHUTDOWN") /\ setupRun' = 0 /\ UNCHANGED <<ricRun, ricReg, ricUp>>
        /\ pending' = bi_map_insert(pending, NewFd, SETUP) /\ NewFd \in Fds /\ NewFd \notin timers
        /\ spc # "freed" /\ AgentRuns
    BY <1>10 DEF ONotified, Read, Turn, RicKept, AgentRuns
  <2>3. /\ 1 \in DOMAIN agIn /\ agIn[1].type = "SHUTDOWN"
        /\ \A i \in DOMAIN agIn' : i \in Nat /\ i >= 1 /\ i + 1 \in DOMAIN agIn /\ agIn'[i] = agIn[i + 1]
        /\ \A j \in DOMAIN agIn : j \in Nat /\ j >= 1
                     /\ (j # 1 => j - 1 \in DOMAIN agIn' /\ agIn'[j - 1] = agIn[j])
    BY <1>1, <2>1, QueueSteps DEF Read
  <2>4. pending'.left = pending.left \cup {<<NewFd, SETUP>>}
    BY <2>1 DEF bi_map_insert
  <2>5. ~stale => setupRun = agIn[1].run /\ pending.left = {}
    <3>1. ~stale => setupRun = agIn[1].run
      BY <1>1, <2>3 DEF SetupInv
    <3>. QED
      BY <1>1, <1>3, <2>3, <3>1 DEF SetupInv
  <2>6. AgentRuns /\ ricUp /\ ricReg =>
         \E i \in DOMAIN agIn' : agIn'[i].type = "SETUP_RESP" /\ agIn'[i].run = ricRun
    <3>1. ASSUME ricUp PROVE setupRun # ricRun
      BY <1>1, <1>3, <2>3, <3>1 DEF RunsInv
    <3>. QED
      BY <1>1, <2>3, <3>1 DEF SetupInv
  <2>7. ASSUME ~stale, NEW i \in DOMAIN agIn', agIn'[i].type = "SHUTDOWN"
        PROVE  \E j \in 1 .. i - 1 : agIn'[j].type = "SETUP_RESP" /\ agIn'[j].run = agIn'[i].run
    <3>0. 1 < i + 1
      BY <2>3
    <3>1. setupRun # agIn[i + 1].run
      BY <1>1, <1>3, <2>3, <2>5, <2>7, <3>0 DEF RunsInv
    <3>2. PICK j \in 1 .. (i + 1) - 1 : agIn[j].type = "SETUP_RESP" /\ agIn[j].run = agIn[i + 1].run
      BY <1>1, <2>3, <2>7, <3>1 DEF SetupInv
    <3>3. j # 1
      BY <2>3, <3>2
    <3>4. DOMAIN agIn = 1 .. Len(agIn) /\ Len(agIn) \in Nat
      BY <1>1 DEF TypeOK
    <3>5. j \in DOMAIN agIn /\ j - 1 \in 1 .. i - 1
      BY <2>3, <3>3, <3>4
    <3>. QED
      BY <2>3, <3>2, <3>3, <3>5
  <2>. QED
    BY <1>1, <1>2, <2>1, <2>4, <2>5, <2>6, <2>7 DEF SetupInv
<1>11. ASSUME NEW r, OResponse(r) PROVE SetupInv'
  <2>1. /\ Read("SETUP_RESP") /\ setupRun' = Head(agIn).run /\ UNCHANGED <<ricRun, ricReg, ricUp>>
        /\ r \in bi_map_extract_right(pending, SETUP) /\ pending' = r.map /\ AgentRuns
    BY <1>11 DEF OResponse, Read, Turn, RicKept, AgentRuns
  <2>3. /\ 1 \in DOMAIN agIn /\ agIn[1].type = "SETUP_RESP" /\ setupRun' = agIn[1].run
        /\ \A i \in DOMAIN agIn' : i \in Nat /\ i >= 1 /\ i + 1 \in DOMAIN agIn /\ agIn'[i] = agIn[i + 1]
        /\ \A j \in DOMAIN agIn : j \in Nat /\ j >= 1
                     /\ (j # 1 => j - 1 \in DOMAIN agIn' /\ agIn'[j - 1] = agIn[j])
    BY <1>1, <2>1, QueueSteps DEF Read
  <2>4. <<r.key1, SETUP>> \in pending.left /\ pending'.left = pending.left \ {<<r.key1, SETUP>>}
    BY <1>1, <2>1, ExtractOne DEF MapsMatchTimers
  <2>5. setupRun # ricRun /\ setupRun < agIn[1].run /\ agIn[1].run # 0
    BY <1>1, <1>3, <2>3 DEF RunsInv
  <2>6. AgentRuns /\ ricUp /\ ricReg =>
         \/ agIn[1].run = ricRun
         \/ \E i \in DOMAIN agIn' : agIn'[i].type = "SETUP_RESP" /\ agIn'[i].run = ricRun
    BY <1>1, <2>3, <2>5 DEF SetupInv
  <2>7. ASSUME ~stale, NEW i \in DOMAIN agIn', agIn'[i].type = "SHUTDOWN", agIn[1].run # agIn'[i].run
        PROVE  \E j \in 1 .. i - 1 : agIn'[j].type = "SETUP_RESP" /\ agIn'[j].run = agIn'[i].run
    <3>0. 1 < i + 1
      BY <2>3
    <3>1. setupRun # agIn[i + 1].run
      BY <1>1, <1>3, <2>3, <2>5, <3>0 DEF RunsInv
    <3>2. PICK j \in 1 .. (i + 1) - 1 : agIn[j].type = "SETUP_RESP" /\ agIn[j].run = agIn[i + 1].run
      BY <1>1, <2>3, <2>7, <3>1 DEF SetupInv
    <3>3. j # 1
      BY <2>3, <2>7, <3>2
    <3>4. DOMAIN agIn = 1 .. Len(agIn) /\ Len(agIn) \in Nat
      BY <1>1 DEF TypeOK
    <3>5. j \in DOMAIN agIn /\ j - 1 \in 1 .. i - 1
      BY <2>3, <3>3, <3>4
    <3>. QED
      BY <2>3, <3>2, <3>3, <3>5
  <2>8. ~stale => pending'.left = {}
    BY <1>1, <2>4 DEF SetupInv
  <2>. QED
    BY <1>1, <1>2, <2>1, <2>3, <2>5, <2>6, <2>7, <2>8 DEF SetupInv
<1>a. ASSUME NEW m, Told(m), m.type # "SHUTDOWN" \/ (ricUp /\ (ricReg \/ stale')), m.run = ricRun,
             AgKept, UNCHANGED <<ricRun>>, ricUp' => ricUp, ricReg' => ricReg \/ m.type = "SETUP_RESP"
      PROVE  SetupInv'
  <2>0. UNCHANGED <<pending, setupRun, apc, spc>> /\ AgentRuns' = AgentRuns
    BY <1>a DEF AgKept, AgentRuns
  <2>1. CASE ~AgentRuns
    <3>1. agIn' = agIn
      BY <1>a, <2>1 DEF Told
    <3>. QED
      BY <1>1, <1>2, <2>0, <2>1, <3>1 DEF SetupInv
  <2>2. CASE AgentRuns
    <3>. DEFINE n == Len(agIn) + 1
    <3>1. /\ n \in DOMAIN agIn' /\ agIn'[n] = m
          /\ \A i \in DOMAIN agIn : i \in Nat /\ i < n /\ i \in DOMAIN agIn' /\ agIn'[i] = agIn[i]
          /\ \A i \in DOMAIN agIn' : i = n \/ i \in DOMAIN agIn
      <4>1. agIn' = Append(agIn, m) /\ m \in ToAgent
        BY <1>a, <2>2 DEF Told
      <4>2. agIn' # agIn
        BY <1>1, <4>1, AppendElements DEF TypeOK
      <4>. QED
        BY <1>1, <1>a, <4>2, QueueSteps
    <3>2. n \in Nat /\ DOMAIN agIn = 1 .. n - 1
      BY <1>1 DEF TypeOK
    <3>. HIDE DEF n
    <3>3. ricUp' /\ ricReg' =>
           \/ setupRun = ricRun
           \/ \E i \in DOMAIN agIn' : agIn'[i].type = "SETUP_RESP" /\ agIn'[i].run = ricRun
      BY <1>1, <1>a, <2>2, <3>1 DEF SetupInv
    <3>4. ASSUME ~stale', NEW i \in DOMAIN agIn', agIn'[i].type = "SHUTDOWN", setupRun # agIn'[i].run
          PROVE  \E j \in 1 .. i - 1 : agIn'[j].type = "SETUP_RESP" /\ agIn'[j].run = agIn'[i].run
      <4>1. CASE i = n
        BY <1>1, <1>a, <2>2, <3>1, <3>2, <3>4, <4>1 DEF SetupInv
      <4>2. CASE i \in DOMAIN agIn
        <5>1. PICK j \in 1 .. i - 1 : agIn[j].type = "SETUP_RESP" /\ agIn[j].run = agIn[i].run
          BY <1>1, <1>2, <3>1, <3>4, <4>2 DEF SetupInv
        <5>2. j \in DOMAIN agIn
          BY <3>2, <4>2
        <5>. QED
          BY <3>1, <4>2, <5>1, <5>2
      <4>. QED
        BY <3>1, <4>1, <4>2
    <3>. QED
      BY <1>1, <1>2, <1>a, <2>0, <3>3, <3>4 DEF SetupInv
  <2>. QED
    BY <2>1, <2>2
<1>12. CASE ORegister
  <2>. DEFINE m == [type |-> "SETUP_RESP", rid |-> 0, run |-> ricRun]
  <2>1. Told(m) /\ AgKept /\ UNCHANGED <<ricRun, ricUp>> /\ m.type = "SETUP_RESP" /\ m.run = ricRun
    BY <1>12 DEF ORegister
  <2>. HIDE DEF m
  <2>. QED
    BY <1>a, <2>1
<1>13. CASE OEnd
  <2>. DEFINE m == [type |-> "SHUTDOWN", rid |-> 0, run |-> ricRun]
  <2>1. /\ ricUp /\ ~ricUp' /\ AgKept /\ UNCHANGED <<ricRun, ricReg>> /\ m.run = ricRun
        /\ agIn' = agIn \/ ((ricReg \/ stale') /\ Told(m))
    BY <1>13 DEF OEnd
  <2>. HIDE DEF m
  <2>2. CASE agIn' = agIn
    BY <1>k, <2>1, <2>2 DEF AgKept, AgentRuns
  <2>3. CASE (ricReg \/ stale') /\ Told(m)
    BY <1>a, <2>1, <2>3
  <2>. QED
    BY <2>1, <2>2, <2>3
<1>14. ASSUME NEW t, ORequest(t) PROVE SetupInv'
  <2>. DEFINE m == [type |-> t, rid |-> ricNext, run |-> ricRun]
  <2>1. Told(m) /\ AgKept /\ UNCHANGED <<ricRun, ricUp, ricReg>> /\ m.type # "SHUTDOWN" /\ m.run = ricRun
    BY <1>14 DEF ORequest
  <2>. HIDE DEF m
  <2>. QED
    BY <1>a, <2>1
<1>15. ASSUME NEW rid \in Rids, ODeleteRequest(rid) PROVE SetupInv'
  <2>. DEFINE m == [type |-> "DEL_REQ", rid |-> rid, run |-> ricRun]
  <2>1. Told(m) /\ AgKept /\ UNCHANGED <<ricRun, ricUp, ricReg>> /\ m.type # "SHUTDOWN" /\ m.run = ricRun
    BY <1>15 DEF ODeleteRequest
  <2>. HIDE DEF m
  <2>. QED
    BY <1>a, <2>1
<1>. QED
    BY <1>1, <1>4, <1>5, <1>6, <1>7, <1>8, <1>9, <1>10, <1>11, <1>12, <1>13, <1>14, <1>15 DEF Outcome

\* The receive queue of the RIC after a message of the agent, and after one is read.
LEMMA RicQueueSteps ==
    ASSUME TypeOK
    PROVE  /\ \A m : Sent(m) => ricIn' = ricIn \/
                /\ ricUp /\ ricIn' # <<>> /\ ricIn' = Append(ricIn, m)
                /\ \A i \in DOMAIN ricIn' : ricIn'[i] = m \/ (i \in DOMAIN ricIn /\ ricIn'[i] = ricIn[i])
           /\ ricIn # <<>> /\ ricIn' = Tail(ricIn) =>
                /\ 1 \in DOMAIN ricIn /\ ricIn[1] = Head(ricIn)
                /\ \A i \in DOMAIN ricIn' : i + 1 \in DOMAIN ricIn /\ ricIn'[i] = ricIn[i + 1]
<1>1. ricIn \in Seq(ToRic) /\ Len(ricIn) \in Nat
    BY DEF TypeOK
<1>2. ASSUME NEW m, Sent(m)
      PROVE  ricIn' = ricIn \/
                /\ ricUp /\ ricIn' # <<>> /\ ricIn' = Append(ricIn, m)
                /\ \A i \in DOMAIN ricIn' : ricIn'[i] = m \/ (i \in DOMAIN ricIn /\ ricIn'[i] = ricIn[i])
  <2>1. CASE ricIn' = ricIn
    BY <2>1
  <2>2. CASE ricUp /\ m \in ToRic /\ ricIn' = Append(ricIn, m)
    <3>1. /\ DOMAIN ricIn = 1 .. Len(ricIn) /\ DOMAIN ricIn' = 1 .. Len(ricIn) + 1 /\ ricIn' # <<>>
          /\ \A i \in 1 .. Len(ricIn) : ricIn'[i] = ricIn[i]
          /\ ricIn'[Len(ricIn) + 1] = m
      BY <1>1, <2>2, AppendElements
    <3>2. \A n \in Nat : \A i \in 1 .. n + 1 : i = n + 1 \/ i \in 1 .. n
      OBVIOUS
    <3>3. \A i \in DOMAIN ricIn' : i = Len(ricIn) + 1 \/ i \in DOMAIN ricIn
      BY <1>1, <3>1, <3>2
    <3>. QED
      BY <2>2, <3>1, <3>3
  <2>. QED
    BY <1>2, <2>1, <2>2 DEF Sent, LinkKept
<1>3. ASSUME ricIn # <<>>, ricIn' = Tail(ricIn)
      PROVE  /\ 1 \in DOMAIN ricIn /\ ricIn[1] = Head(ricIn)
             /\ \A i \in DOMAIN ricIn' : i + 1 \in DOMAIN ricIn /\ ricIn'[i] = ricIn[i + 1]
  <2>1. /\ Head(ricIn) = ricIn[1] /\ Len(ricIn) >= 1
        /\ DOMAIN ricIn = 1 .. Len(ricIn) /\ DOMAIN ricIn' = 1 .. Len(ricIn) - 1
        /\ \A i \in 1 .. Len(ricIn) - 1 : ricIn'[i] = ricIn[i + 1]
    BY <1>1, <1>3, TailElements
  <2>. QED
    BY <1>1, <2>1
<1>. QED
    BY <1>2, <1>3

\* The registration comes before what the RIC knows of the node.
LEMMA LinkStep == ASSUME AgentInv, [Next]_vars PROVE LinkInv'
<1>1. TypeOK /\ LinkInv /\ Outcome
    BY OutcomeStep DEF AgentInv
<1>2. ricNext \in Nat /\ ricNext >= 1 /\ ricMap = 1 .. ricNext - 1
    BY <1>1, AgentAssumption DEF TypeOK, LinkInv
<1>k. ASSUME RicKept, LinkKept PROVE LinkInv'
    BY <1>1, <1>k DEF LinkInv, RicKept, LinkKept
<1>s. ASSUME RicKept, NEW m, Sent(m) PROVE LinkInv'
  <2>1. CASE ricUp
    <3>1. ricIn' # <<>>
      BY <1>1, <1>s, <2>1, AppendElements DEF Sent, TypeOK
    <3>. QED
      BY <1>1, <1>s, <2>1, <3>1 DEF LinkInv, RicKept
  <2>2. CASE ~ricUp
    BY <1>k, <1>s, <2>2 DEF Sent
  <2>. QED
    BY <2>1, <2>2
<1>3. CASE OQuiet \/ OAbort \/ (\E r : OResponse(r)) \/ ONotified \/ OFree
    BY <1>3, <1>k DEF OQuiet, OAbort, OResponse, ONotified, OFree, Read, Turn
<1>4. CASE OStart \/ OSubscribe \/ (\E r : ODelete(r)) \/ OControl \/ OTimer
    BY <1>4, <1>s DEF OStart, OSubscribe, ODelete, OControl, OTimer, Read, Turn
<1>5. CASE ORicStart
  <2>1. /\ ricUp' /\ ricRun' # 0 /\ ~ricReg' /\ ricNext' = 1 /\ ricPending' = {} /\ ricMap' = {}
        /\ ricSubs' = {} /\ ~linked' /\ 1 .. ricNext' - 1 = {}
    BY <1>1, <1>5, AgentAssumption DEF ORicStart, LinkInv, LinkKept, TypeOK, Runs
  <2>. QED
    BY <2>1 DEF LinkInv
<1>6. CASE ORegister
    BY <1>1, <1>6 DEF ORegister, LinkInv
<1>7. CASE OReport
  <2>1. /\ RicKept /\ UNCHANGED linked /\ ricUp /\ ricReg
    BY <1>1, <1>7 DEF OReport, LinkInv
  <2>. QED
    BY <1>1, <2>1 DEF LinkInv, RicKept
<1>8. ASSUME NEW q, NEW t, OAnswer(q, t) PROVE LinkInv'
  <2>. DEFINE rid == Head(ricIn).rid
  <2>1. /\ <<q, rid>> \in ricPending /\ ricPending' = ricPending \ {<<q, rid>>}
        /\ ricSubs' = IF q = "SUB_REQ" THEN ricSubs \cup {rid} ELSE ricSubs
        /\ UNCHANGED <<ricUp, ricRun, ricReg, ricNext, ricMap, linked>> /\ ricUp
    BY <1>8 DEF OAnswer
  <2>2. ricReg /\ rid \in ricMap
    BY <1>1, <2>1 DEF LinkInv
  <2>. HIDE DEF rid
  <2>3. /\ \A r \in ricSubs' : <<"SUB_REQ", r>> \notin ricPending' /\ <<"DEL_REQ", r>> \notin ricPending'
        /\ \A r \in ricMap' : <<"SUB_REQ", r>> \notin ricPending' \/ <<"DEL_REQ", r>> \notin ricPending'
    BY <1>1, <2>1, <2>2 DEF LinkInv
  <2>4. ricSubs' \subseteq ricMap'
    BY <1>1, <2>1, <2>2 DEF LinkInv
  <2>. QED
    BY <1>1, <2>1, <2>2, <2>3, <2>4 DEF LinkInv
<1>9. CASE OEnd
    BY <1>1, <1>9 DEF OEnd, LinkInv
<1>10. ASSUME NEW t, ORequest(t) PROVE LinkInv'
  <2>1. /\ ricUp /\ ricReg /\ ricNext' = ricNext + 1
        /\ t \in {"SUB_REQ", "CTRL_REQ"}
        /\ ricPending' = ricPending \cup {<<t, ricNext>>} /\ ricMap' = ricMap \cup {ricNext}
        /\ UNCHANGED <<ricUp, ricRun, ricReg, ricSubs, ricIn, linked>>
    BY <1>10 DEF ORequest, LinkKept
  <2>2. ricNext \notin ricMap
    BY <1>2
  <2>3. ricMap' = 1 .. ricNext' - 1
    BY <1>2, <2>1
  <2>4. \A p \in ricPending' : p[2] \in ricMap'
    BY <1>1, <2>1 DEF LinkInv
  <2>5. \A r \in ricSubs' : <<"SUB_REQ", r>> \notin ricPending' /\ <<"DEL_REQ", r>> \notin ricPending'
    BY <1>1, <2>1, <2>2 DEF LinkInv
  <2>6. <<"DEL_REQ", ricNext>> \notin ricPending
    BY <1>1, <2>2 DEF LinkInv
  <2>7. \A r \in ricMap' : <<"SUB_REQ", r>> \notin ricPending' \/ <<"DEL_REQ", r>> \notin ricPending'
    BY <1>1, <2>1, <2>2, <2>6 DEF LinkInv
  <2>. QED
    BY <1>1, <2>1, <2>3, <2>4, <2>5, <2>7 DEF LinkInv
<1>11. ASSUME NEW rid \in Rids, ODeleteRequest(rid) PROVE LinkInv'
  <2>1. /\ ricUp /\ ricReg /\ rid \in ricSubs /\ ricSubs' = ricSubs \ {rid}
        /\ ricPending' = ricPending \cup {<<"DEL_REQ", rid>>}
        /\ UNCHANGED <<ricUp, ricRun, ricReg, ricNext, ricMap, ricIn, linked>>
    BY <1>11 DEF ODeleteRequest, LinkKept
  <2>. QED
    BY <1>1, <2>1 DEF LinkInv
<1>. QED
    BY <1>1, <1>3, <1>4, <1>5, <1>6, <1>7, <1>8, <1>9, <1>10, <1>11 DEF Outcome

\* What is sent to a run is about that run or an earlier one.
LEMMA BornStep == ASSUME AgentInv, [Next]_vars PROVE BornInv'
<1>1. TypeOK /\ BornInv /\ RunsInv /\ LinkInv /\ MapsMatchTimers /\ Outcome
    BY OutcomeStep DEF AgentInv, TimersInStep
<1>2. ricRun \in Nat
    BY <1>1, AgentAssumption DEF TypeOK, Runs
<1>q. /\ \A m : Sent(m) => ricIn' = ricIn \/
           \A i \in DOMAIN ricIn' : ricIn'[i] = m \/ (i \in DOMAIN ricIn /\ ricIn'[i] = ricIn[i])
      /\ ricIn # <<>> /\ ricIn' = Tail(ricIn) =>
           \A i \in DOMAIN ricIn' : i + 1 \in DOMAIN ricIn /\ ricIn'[i] = ricIn[i + 1]
    BY <1>1, RicQueueSteps
<1>s. ASSUME NEW m, Sent(m), m.type # "SETUP_REQ" => m.run \in 1 .. ricRun, ricRun' = ricRun
      PROVE  \A i \in DOMAIN ricIn' : ricIn'[i].type # "SETUP_REQ" => ricIn'[i].run \in 1 .. ricRun'
    BY <1>1, <1>q, <1>s DEF BornInv
<1>3. CASE OQuiet \/ OAbort \/ (\E r : OResponse(r)) \/ ONotified
    BY <1>1, <1>3 DEF OQuiet, OAbort, OResponse, ONotified, Read, Turn, BornInv, LinkKept, RicKept
<1>4. CASE OFree
    BY <1>1, <1>4 DEF OFree, BornInv, LinkKept, RicKept
<1>5. CASE OStart
  <2>1. Sent(SetupRequest) /\ SetupRequest.type = "SETUP_REQ" /\ UNCHANGED <<ricRun, indEvent, born>>
    BY <1>5 DEF OStart, RicKept, SetupRequest
  <2>2. \A i \in DOMAIN ricIn' : ricIn'[i].type # "SETUP_REQ" => ricIn'[i].run \in 1 .. ricRun'
    BY <1>s, <2>1
  <2>. QED
    BY <1>1, <2>1, <2>2 DEF BornInv
<1>6. CASE OTimer
  <2>1. UNCHANGED <<ricRun, indEvent, born>>
    BY <1>6 DEF OTimer, Turn, RicKept
  <2>2. PICK m : Sent(m) /\ (m.type # "SETUP_REQ" => m.run \in 1 .. ricRun)
    <3>1. CASE Sent(SetupRequest)
      BY <3>1 DEF SetupRequest
    <3>2. ASSUME NEW p \in indEvent.left, Sent([type |-> "IND", rid |-> p[2], run |-> born[p[1]]])
          PROVE  \E m : Sent(m) /\ (m.type # "SETUP_REQ" => m.run \in 1 .. ricRun)
      <4>1. [type |-> "IND", rid |-> p[2], run |-> born[p[1]]].run \in 1 .. ricRun
        BY <1>1 DEF BornInv
      <4>. QED
        BY <3>2, <4>1
    <3>. QED
      BY <1>6, <3>1, <3>2 DEF OTimer
  <2>3. \A i \in DOMAIN ricIn' : ricIn'[i].type # "SETUP_REQ" => ricIn'[i].run \in 1 .. ricRun'
    BY <1>s, <2>1, <2>2
  <2>. QED
    BY <1>1, <2>1, <2>3 DEF BornInv
<1>7. CASE OSubscribe \/ (\E r : ODelete(r)) \/ OControl
  <2>1. Head(agIn).run \in 1 .. ricRun
    <3>1. PICK t : Read(t)
      BY <1>7 DEF OSubscribe, ODelete, OControl
    <3>2. 1 \in DOMAIN agIn /\ agIn[1] = Head(agIn)
      BY <1>1, <3>1, QueueSteps
    <3>. QED
      BY <1>1, <3>2 DEF RunsInv
  <2>2. PICK t : Sent([Head(agIn) EXCEPT !.type = t]) /\ Head(agIn) \in ToAgent /\ ricRun' = ricRun
    BY <1>7 DEF OSubscribe, ODelete, OControl, Read, Turn, RicKept
  <2>3. [Head(agIn) EXCEPT !.type = t].run \in 1 .. ricRun
    BY <2>1, <2>2 DEF ToAgent
  <2>4. \A i \in DOMAIN ricIn' : ricIn'[i].type # "SETUP_REQ" => ricIn'[i].run \in 1 .. ricRun'
    BY <1>s, <2>2, <2>3
  <2>5. \A p \in indEvent'.left : born'[p[1]] \in 1 .. ricRun
    <3>1. CASE OControl
      BY <1>1, <3>1 DEF OControl, BornInv
    <3>2. ASSUME NEW r, ODelete(r) PROVE \A p \in indEvent'.left : born'[p[1]] \in 1 .. ricRun
      <4>1. r \in bi_map_extract_right(indEvent, Head(agIn).rid) /\ indEvent' = r.map /\ born' = born
        BY <3>2 DEF ODelete
      <4>2. r.map.left \subseteq indEvent.left
        BY <1>1, <4>1, ExtractOne DEF MapsMatchTimers
      <4>. QED
        BY <1>1, <4>1, <4>2 DEF BornInv
    <3>3. CASE OSubscribe
      <4>1. /\ indEvent' = bi_map_insert(indEvent, NewFd, Head(agIn).rid) /\ spc # "freed"
            /\ born' = [born EXCEPT ![NewFd] = Head(agIn).run] /\ NewFd \in Fds /\ NewFd \notin timers
        BY <3>3 DEF OSubscribe, Read, Turn
      <4>2. born \in [Fds -> Runs] /\ indEvent.left \subseteq Fds \X Rids
        BY <1>1 DEF TypeOK
      <4>3. indEvent'.left = indEvent.left \cup {<<NewFd, Head(agIn).rid>>}
        BY <4>1 DEF bi_map_insert
      <4>4. ASSUME NEW p \in indEvent.left PROVE p[1] \in Fds /\ p[1] # NewFd
        BY <1>1, <4>1, <4>2 DEF MapsMatchTimers, FdsOf
      <4>. QED
        BY <1>1, <2>1, <4>1, <4>2, <4>3, <4>4 DEF BornInv
    <3>. QED
      BY <1>7, <3>1, <3>2, <3>3
  <2>. QED
    BY <2>2, <2>4, <2>5 DEF BornInv
<1>8. CASE ORicStart
  <2>1. ricRun' = ricRun + 1 /\ UNCHANGED <<ricIn, indEvent, born>>
    BY <1>8 DEF ORicStart, LinkKept, AgKept
  <2>2. \A x \in 1 .. ricRun : x \in 1 .. ricRun'
    BY <1>2, <2>1
  <2>. QED
    BY <1>1, <2>1, <2>2 DEF BornInv
<1>9. CASE ORegister \/ OReport \/ (\E q, t : OAnswer(q, t))
  <2>1. ricIn # <<>> /\ ricIn' = Tail(ricIn) /\ UNCHANGED <<ricRun, indEvent, born>>
    BY <1>9 DEF ORegister, OReport, OAnswer, AgKept, RicKept
  <2>. QED
    BY <1>1, <1>q, <2>1 DEF BornInv
<1>10. CASE OEnd
  <2>1. ricIn' = <<>> /\ UNCHANGED <<ricRun, indEvent, born>>
    BY <1>10 DEF OEnd, AgKept
  <2>. QED
    BY <1>1, <2>1 DEF BornInv
<1>11. CASE (\E t : ORequest(t)) \/ (\E rid \in Rids : ODeleteRequest(rid))
    BY <1>1, <1>11 DEF ORequest, ODeleteRequest, AgKept, LinkKept, BornInv
<1>. QED
    BY <1>1, <1>3, <1>4, <1>5, <1>6, <1>7, <1>8, <1>9, <1>10, <1>11 DEF Outcome

-----------------------------------------------------------------------------
(* Requests of the current run and their answers *)

\* ExpectedInv and OnceInv, of the queues a and r for pending requests P, known ids M and run u.
Awaited(a, r, P, M, u) ==
    /\ \A i \in DOMAIN a : a[i].type \in Requests /\ a[i].run = u => <<a[i].type, a[i].rid>> \in P
    /\ \A i \in DOMAIN r : r[i].type \in DOMAIN RequestOf /\ r[i].run = u =>
         <<RequestOf[r[i].type], r[i].rid>> \in P
    /\ \A i \in DOMAIN r : r[i].type = "IND" /\ r[i].run = u => r[i].rid \in M
AnsweredOnce(a, r, u) ==
    /\ \A i, j \in DOMAIN a : a[i] = a[j] /\ a[i].type \in Requests /\ a[i].run = u => i = j
    /\ \A i, j \in DOMAIN r : r[i] = r[j] /\ r[i].type \in DOMAIN RequestOf /\ r[i].run = u => i = j
    /\ \A i \in DOMAIN a, j \in DOMAIN r :
         a[i].run = u /\ r[j].run = u /\ r[j].type \in DOMAIN RequestOf =>
           <<a[i].type, a[i].rid>> # <<RequestOf[r[j].type], r[j].rid>>

LEMMA AnswerTypes ==
    /\ DOMAIN RequestOf = {"SUB_RESP", "DEL_RESP", "CTRL_ACK"}
    /\ RequestOf["SUB_RESP"] = "SUB_REQ" /\ RequestOf["DEL_RESP"] = "DEL_REQ"
    /\ RequestOf["CTRL_ACK"] = "CTRL_REQ"
    /\ \A t \in DOMAIN RequestOf : RequestOf[t] \in Requests
    /\ \A t, w \in DOMAIN RequestOf : RequestOf[t] = RequestOf[w] => t = w
    BY DEF RequestOf, Requests

\* Messages are their fields.
LEMMA SameMessage ==
    /\ \A x, y \in ToAgent : x.type = y.type /\ x.rid = y.rid /\ x.run = y.run => x = y
    /\ \A x, y \in ToRic : x.type = y.type /\ x.rid = y.rid /\ x.run = y.run => x = y
    BY DEF ToAgent, ToRic

\* Reading messages takes nothing away from the rest, nor do more requests pending.
LEMMA AwaitedShift ==
    ASSUME NEW a, NEW r, NEW P, NEW M, NEW u, Awaited(a, r, P, M, u), AnsweredOnce(a, r, u),
           NEW a2, NEW r2, NEW P2, NEW M2, NEW d \in Nat, NEW e \in Nat,
           \A i \in DOMAIN a2 : i \in Nat /\ i + d \in DOMAIN a /\ a2[i] = a[i + d],
           \A i \in DOMAIN r2 : i \in Nat /\ i + e \in DOMAIN r /\ r2[i] = r[i + e],
           P \subseteq P2, M \subseteq M2
    PROVE  Awaited(a2, r2, P2, M2, u) /\ AnsweredOnce(a2, r2, u)
<1>1. Awaited(a2, r2, P2, M2, u)
    BY DEF Awaited
<1>2. \A i, j \in Nat : (i + d = j + d => i = j) /\ (i + e = j + e => i = j)
    OBVIOUS
<1>3. AnsweredOnce(a2, r2, u)
    BY <1>2 DEF AnsweredOnce
<1>. QED
    BY <1>1, <1>3

\* A new request, or another message, to the agent.
LEMMA AwaitedTold ==
    ASSUME NEW a \in Seq(ToAgent), NEW r, NEW P, NEW M, NEW u, Awaited(a, r, P, M, u),
           AnsweredOnce(a, r, u), NEW m \in ToAgent,
           m.type \in Requests => <<m.type, m.rid>> \in P,
           m.type \in Requests => \A i \in DOMAIN a :
              a[i].type \in Requests /\ a[i].run = u => <<a[i].type, a[i].rid>> # <<m.type, m.rid>>,
           m.type \in Requests => \A i \in DOMAIN r :
              r[i].type \in DOMAIN RequestOf /\ r[i].run = u =>
                <<RequestOf[r[i].type], r[i].rid>> # <<m.type, m.rid>>
    PROVE  Awaited(Append(a, m), r, P, M, u) /\ AnsweredOnce(Append(a, m), r, u)
<1>. DEFINE b == Append(a, m)
            n == Len(a) + 1
<1>1. /\ \A i \in DOMAIN b : i = n \/ (i \in DOMAIN a /\ b[i] = a[i])
      /\ b[n] = m
  <2>1. \A k \in Nat : \A i \in 1 .. k + 1 : i = k + 1 \/ i \in 1 .. k
    OBVIOUS
  <2>2. /\ Len(a) \in Nat /\ DOMAIN a = 1 .. Len(a) /\ DOMAIN b = 1 .. Len(a) + 1
        /\ (\A i \in 1 .. Len(a) : b[i] = a[i]) /\ b[n] = m
    BY AppendElements
  <2>. QED
    BY <2>1, <2>2
<1>. HIDE DEF b, n
<1>2. Awaited(b, r, P, M, u)
    BY <1>1 DEF Awaited
<1>3. \A i, j \in DOMAIN b : b[i] = b[j] /\ b[i].type \in Requests /\ b[i].run = u => i = j
    BY <1>1 DEF AnsweredOnce
<1>4. \A i \in DOMAIN b, j \in DOMAIN r :
         b[i].run = u /\ r[j].run = u /\ r[j].type \in DOMAIN RequestOf =>
           <<b[i].type, b[i].rid>> # <<RequestOf[r[j].type], r[j].rid>>
    BY <1>1, AnswerTypes DEF AnsweredOnce
<1>. QED
    BY <1>2, <1>3, <1>4 DEF AnsweredOnce, b

\* A message to the RIC that is no answer.
LEMMA AwaitedSaid ==
    ASSUME NEW a, NEW r \in Seq(ToRic), NEW P, NEW M, NEW u, Awaited(a, r, P, M, u),
           AnsweredOnce(a, r, u), NEW m \in ToRic, m.type \notin DOMAIN RequestOf,
           m.type = "IND" /\ m.run = u => m.rid \in M
    PROVE  Awaited(a, Append(r, m), P, M, u) /\ AnsweredOnce(a, Append(r, m), u)
<1>. DEFINE b == Append(r, m)
            n == Len(r) + 1
<1>1. /\ \A i \in DOMAIN b : i = n \/ (i \in DOMAIN r /\ b[i] = r[i])
      /\ b[n] = m
  <2>1. \A k \in Nat : \A i \in 1 .. k + 1 : i = k + 1 \/ i \in 1 .. k
    OBVIOUS
  <2>2. /\ Len(r) \in Nat /\ DOMAIN r = 1 .. Len(r) /\ DOMAIN b = 1 .. Len(r) + 1
        /\ (\A i \in 1 .. Len(r) : b[i] = r[i]) /\ b[n] = m
    BY AppendElements
  <2>. QED
    BY <2>1, <2>2
<1>. HIDE DEF b, n
<1>2. Awaited(a, b, P, M, u)
    BY <1>1 DEF Awaited
<1>3. AnsweredOnce(a, b, u)
    BY <1>1 DEF AnsweredOnce
<1>. QED
    BY <1>2, <1>3 DEF b

\* The answer to the request read.
LEMMA AwaitedAnswered ==
    ASSUME NEW a \in Seq(ToAgent), a # <<>>, NEW r \in Seq(ToRic), NEW P, NEW M, NEW u,
           Awaited(a, r, P, M, u), AnsweredOnce(a, r, u), NEW m \in ToRic,
           m.type \in DOMAIN RequestOf, Head(a).type = RequestOf[m.type], Head(a).rid = m.rid,
           Head(a).run = m.run
    PROVE  Awaited(Tail(a), Append(r, m), P, M, u) /\ AnsweredOnce(Tail(a), Append(r, m), u)
<1>. DEFINE t == Tail(a)
            b == Append(r, m)
            n == Len(r) + 1
<1>1. /\ 1 \in DOMAIN a /\ Head(a) = a[1] /\ Head(a) \in ToAgent
      /\ \A i \in DOMAIN t : i \in Nat /\ i >= 1 /\ i + 1 \in DOMAIN a /\ t[i] = a[i + 1]
      /\ \A i \in DOMAIN a : a[i] \in ToAgent
  <2>1. /\ Head(a) = a[1] /\ Head(a) \in ToAgent /\ Len(a) \in Nat /\ Len(a) >= 1
        /\ DOMAIN a = 1 .. Len(a) /\ DOMAIN t = 1 .. Len(a) - 1
        /\ \A i \in 1 .. Len(a) - 1 : t[i] = a[i + 1]
    BY TailElements
  <2>2. \A k \in Nat : \A i \in 1 .. k - 1 : i \in Nat /\ i >= 1 /\ i + 1 \in 1 .. k
    OBVIOUS
  <2>. QED
    BY <2>1, <2>2
<1>2. /\ \A i \in DOMAIN b : i = n \/ (i \in DOMAIN r /\ b[i] = r[i])
      /\ b[n] = m
  <2>1. \A k \in Nat : \A i \in 1 .. k + 1 : i = k + 1 \/ i \in 1 .. k
    OBVIOUS
  <2>2. /\ Len(r) \in Nat /\ DOMAIN r = 1 .. Len(r) /\ DOMAIN b = 1 .. Len(r) + 1
        /\ (\A i \in 1 .. Len(r) : b[i] = r[i]) /\ b[n] = m
    BY AppendElements
  <2>. QED
    BY <2>1, <2>2
<1>3. Head(a).type \in Requests
    BY AnswerTypes
<1>4. \A i, j \in Nat : (i + 1 = j + 1 => i = j) /\ (i >= 1 => i + 1 # 1)
    OBVIOUS
<1>. HIDE DEF t, b, n
<1>5. Awaited(t, b, P, M, u)
  <2>1. \A i \in DOMAIN t : t[i].type \in Requests /\ t[i].run = u => <<t[i].type, t[i].rid>> \in P
    BY <1>1 DEF Awaited
  <2>2. m.run = u => <<RequestOf[m.type], m.rid>> \in P
    BY <1>1, <1>3 DEF Awaited
  <2>3. m.type # "IND"
    BY AnswerTypes
  <2>. QED
    BY <1>2, <2>1, <2>2, <2>3 DEF Awaited
<1>6. \A i, j \in DOMAIN t : t[i] = t[j] /\ t[i].type \in Requests /\ t[i].run = u => i = j
    BY <1>1, <1>4 DEF AnsweredOnce
<1>7. \A j \in DOMAIN r : r[j].type \in DOMAIN RequestOf /\ r[j].run = u => r[j] # m
    BY <1>1 DEF AnsweredOnce
<1>8. \A i, j \in DOMAIN b : b[i] = b[j] /\ b[i].type \in DOMAIN RequestOf /\ b[i].run = u => i = j
    BY <1>2, <1>7 DEF AnsweredOnce
<1>9. \A i \in DOMAIN t : t[i].run = u /\ m.run = u => <<t[i].type, t[i].rid>> # <<RequestOf[m.type], m.rid>>
  <2>1. SUFFICES ASSUME NEW i \in DOMAIN t, t[i].run = u, m.run = u, t[i].type = RequestOf[m.type],
                        t[i].rid = m.rid
                 PROVE  FALSE
    OBVIOUS
  <2>2. a[i + 1] = a[1]
    BY <1>1, <2>1, SameMessage
  <2>3. i + 1 = 1
    BY <1>1, <1>3, <2>1, <2>2 DEF AnsweredOnce
  <2>. QED
    BY <1>1, <1>4, <2>3
<1>10. \A i \in DOMAIN t, j \in DOMAIN b :
         t[i].run = u /\ b[j].run = u /\ b[j].type \in DOMAIN RequestOf =>
           <<t[i].type, t[i].rid>> # <<RequestOf[b[j].type], b[j].rid>>
    BY <1>1, <1>2, <1>9 DEF AnsweredOnce
<1>. QED
    BY <1>5, <1>6, <1>8, <1>10 DEF AnsweredOnce, t, b

\* An answer taken by the run that asked.
LEMMA AwaitedTaken ==
    ASSUME NEW a, NEW r \in Seq(ToRic), r # <<>>, NEW P, NEW M, NEW u,
           Awaited(a, r, P, M, u), AnsweredOnce(a, r, u), Head(r).run = u,
           Head(r).type \in DOMAIN RequestOf
    PROVE  LET Q == P \ {<<RequestOf[Head(r).type], Head(r).rid>>}
           IN  Awaited(a, Tail(r), Q, M, u) /\ AnsweredOnce(a, Tail(r), u)
<1>. DEFINE t == Tail(r)
            p == <<RequestOf[Head(r).type], Head(r).rid>>
<1>1. /\ 1 \in DOMAIN r /\ Head(r) = r[1] /\ Head(r) \in ToRic
      /\ \A i \in DOMAIN t : i \in Nat /\ i >= 1 /\ i + 1 \in DOMAIN r /\ t[i] = r[i + 1]
      /\ \A i \in DOMAIN r : r[i] \in ToRic
  <2>1. /\ Head(r) = r[1] /\ Head(r) \in ToRic /\ Len(r) \in Nat /\ Len(r) >= 1
        /\ DOMAIN r = 1 .. Len(r) /\ DOMAIN t = 1 .. Len(r) - 1
        /\ \A i \in 1 .. Len(r) - 1 : t[i] = r[i + 1]
    BY TailElements
  <2>2. \A k \in Nat : \A i \in 1 .. k - 1 : i \in Nat /\ i >= 1 /\ i + 1 \in 1 .. k
    OBVIOUS
  <2>. QED
    BY <2>1, <2>2
<1>2. \A i, j \in Nat : (i + 1 = j + 1 => i = j) /\ (i >= 1 => i + 1 # 1)
    OBVIOUS
<1>. HIDE DEF t
<1>3. AnsweredOnce(a, t, u)
    BY <1>1, <1>2 DEF AnsweredOnce
<1>4. \A i \in DOMAIN a : a[i].type \in Requests /\ a[i].run = u => <<a[i].type, a[i].rid>> # p
    BY <1>1 DEF AnsweredOnce
<1>5. \A i \in DOMAIN t : t[i].type \in DOMAIN RequestOf /\ t[i].run = u =>
         <<RequestOf[t[i].type], t[i].rid>> # p
  <2>1. SUFFICES ASSUME NEW i \in DOMAIN t, t[i].type \in DOMAIN RequestOf, t[i].run = u,
                        RequestOf[t[i].type] = RequestOf[Head(r).type], t[i].rid = Head(r).rid
                 PROVE  FALSE
    OBVIOUS
  <2>2. t[i].type = Head(r).type
    BY <2>1, AnswerTypes
  <2>3. r[i + 1] = r[1]
    BY <1>1, <2>1, <2>2, SameMessage
  <2>4. i + 1 = 1
    BY <1>1, <2>1, <2>3 DEF AnsweredOnce
  <2>. QED
    BY <1>1, <1>2, <2>4
<1>. HIDE DEF p
<1>6. Awaited(a, t, P \ {p}, M, u)
    BY <1>1, <1>4, <1>5 DEF Awaited
<1>. QED
    BY <1>3, <1>6 DEF t, p

\* Every request of the current run is pending until its answer, the only one, is taken.
LEMMA AwaitedStep == ASSUME AgentInv, [Next]_vars PROVE ExpectedInv' /\ OnceInv'
<1>1. TypeOK /\ RunsInv /\ LinkInv /\ BornInv /\ ExpectedInv /\ OnceInv /\ MapsMatchTimers /\ Outcome
    BY OutcomeStep DEF AgentInv, TimersInStep
<1>2. /\ agIn \in Seq(ToAgent) /\ ricIn \in Seq(ToRic) /\ ricRun \in Nat
      /\ \A i \in DOMAIN agIn : i \in Nat /\ i + 0 = i
      /\ \A i \in DOMAIN ricIn : i \in Nat /\ i + 0 = i
    BY <1>1, AgentAssumption DEF TypeOK, Runs
<1>. DEFINE Known(e, b, M, u) == \A p \in e.left : b[p[1]] = u => p[2] \in M
            Good == /\ Awaited(agIn', ricIn', ricPending', ricMap', ricRun')
                    /\ AnsweredOnce(agIn', ricIn', ricRun')
                    /\ Known(indEvent', born', ricMap', ricRun')
<1>3. SUFFICES ASSUME ~stale' PROVE Good
    BY DEF ExpectedInv, OnceInv, Awaited, AnsweredOnce
<1>4. ~stale
    BY <1>1, <1>3, StaleStays
<1>5. /\ Awaited(agIn, ricIn, ricPending, ricMap, ricRun) /\ AnsweredOnce(agIn, ricIn, ricRun)
      /\ Known(indEvent, born, ricMap, ricRun)
    BY <1>1, <1>4 DEF ExpectedInv, OnceInv, Awaited, AnsweredOnce
<1>. HIDE DEF Known
<1>6. /\ \A t : Read(t) => \A i \in DOMAIN agIn' : i \in Nat /\ i + 1 \in DOMAIN agIn /\ agIn'[i] = agIn[i + 1]
      /\ ricIn # <<>> /\ ricIn' = Tail(ricIn) =>
           \A i \in DOMAIN ricIn' : i \in Nat /\ i + 1 \in DOMAIN ricIn /\ ricIn'[i] = ricIn[i + 1]
  <2>1. ricIn # <<>> /\ ricIn' = Tail(ricIn) => ricIn' \in Seq(ToRic)
    BY <1>2, TailElements
  <2>2. ricIn' \in Seq(ToRic) => \A i \in DOMAIN ricIn' : i \in Nat
    OBVIOUS
  <2>. QED
    BY <1>1, <2>1, <2>2, QueueSteps, RicQueueSteps
<1>k. ASSUME RicKept, UNCHANGED <<agIn, ricIn, indEvent, born>> PROVE Good
  <2>1. UNCHANGED <<ricPending, ricMap, ricRun>>
    BY <1>k DEF RicKept
  <2>. QED
    BY <1>5, <1>k, <2>1
<1>7. CASE OQuiet \/ OAbort
    BY <1>7, <1>k DEF OQuiet, OAbort, LinkKept
<1>r. ASSUME NEW t, Read(t), UNCHANGED <<ricIn, indEvent, born>> PROVE Good
  <2>1. UNCHANGED <<ricPending, ricMap, ricRun>>
    BY <1>r DEF Read, Turn, RicKept
  <2>2. /\ \A i \in DOMAIN agIn' : i \in Nat /\ i + 1 \in DOMAIN agIn /\ agIn'[i] = agIn[i + 1]
        /\ \A i \in DOMAIN ricIn : i \in Nat /\ i + 0 \in DOMAIN ricIn /\ ricIn[i] = ricIn[i + 0]
    BY <1>2, <1>6, <1>r
  <2>3. Awaited(agIn', ricIn, ricPending, ricMap, ricRun) /\ AnsweredOnce(agIn', ricIn, ricRun)
    BY <1>5, <2>2, AwaitedShift
  <2>. QED
    BY <1>5, <1>r, <2>1, <2>3
<1>8. CASE (\E r : OResponse(r)) \/ ONotified
    BY <1>8, <1>r DEF OResponse, ONotified, LinkKept
<1>9. CASE OStart \/ OTimer
  <2>1. UNCHANGED <<ricPending, ricMap, ricRun, agIn, indEvent, born>>
    BY <1>9 DEF OStart, OTimer, Turn, RicKept
  <2>2. PICK m : Sent(m) /\ m.type \notin DOMAIN RequestOf /\ (m.type = "IND" /\ m.run = ricRun => m.rid \in ricMap)
    <3>1. CASE Sent(SetupRequest)
      BY <3>1, AnswerTypes DEF SetupRequest
    <3>2. ASSUME NEW p \in indEvent.left, Sent([type |-> "IND", rid |-> p[2], run |-> born[p[1]]])
          PROVE  \E m : /\ Sent(m) /\ m.type \notin DOMAIN RequestOf
                        /\ m.type = "IND" /\ m.run = ricRun => m.rid \in ricMap
      <4>. DEFINE m == [type |-> "IND", rid |-> p[2], run |-> born[p[1]]]
      <4>1. m.type \notin DOMAIN RequestOf /\ (m.run = ricRun => m.rid \in ricMap)
        BY <1>5, AnswerTypes DEF Known
      <4>. QED
        BY <3>2, <4>1
    <3>. QED
      BY <1>9, <3>1, <3>2 DEF OStart, OTimer
  <2>3. CASE ricUp
    <3>1. ricIn' = Append(ricIn, m) /\ m \in ToRic
      BY <2>2, <2>3 DEF Sent
    <3>2. /\ Awaited(agIn, Append(ricIn, m), ricPending, ricMap, ricRun)
          /\ AnsweredOnce(agIn, Append(ricIn, m), ricRun)
      BY <1>2, <1>5, <2>2, <3>1, AwaitedSaid
    <3>. QED
      BY <1>5, <2>1, <3>1, <3>2
  <2>4. CASE ~ricUp
    <3>1. ricIn' = ricIn
      BY <2>2, <2>4 DEF Sent, LinkKept
    <3>. QED
      BY <1>5, <2>1, <3>1
  <2>. QED
    BY <2>3, <2>4
<1>10. CASE OSubscribe \/ (\E r : ODelete(r)) \/ OControl
  <2>1. PICK t : /\ t \in DOMAIN RequestOf /\ Read(RequestOf[t]) /\ Sent([Head(agIn) EXCEPT !.type = t])
    BY <1>10, AnswerTypes DEF OSubscribe, ODelete, OControl
  <2>2. /\ UNCHANGED <<ricPending, ricMap, ricRun, ricUp>> /\ agIn # <<>> /\ agIn' = Tail(agIn)
        /\ Head(agIn) \in ToAgent /\ Head(agIn).type = RequestOf[t]
    BY <2>1 DEF Read, Turn, RicKept
  <2>3. Awaited(agIn', ricIn', ricPending, ricMap, ricRun) /\ AnsweredOnce(agIn', ricIn', ricRun)
    <3>1. CASE ricUp
      <4>. DEFINE m == [Head(agIn) EXCEPT !.type = t]
      <4>1. ricIn' = Append(ricIn, m) /\ m \in ToRic
        BY <2>1, <3>1 DEF Sent
      <4>2. m.type = t /\ m.rid = Head(agIn).rid /\ m.run = Head(agIn).run
        BY <2>2 DEF ToAgent
      <4>. HIDE DEF m
      <4>3. /\ Awaited(Tail(agIn), Append(ricIn, m), ricPending, ricMap, ricRun)
            /\ AnsweredOnce(Tail(agIn), Append(ricIn, m), ricRun)
        BY <1>2, <1>5, <2>1, <2>2, <4>1, <4>2, AwaitedAnswered
      <4>. QED
        BY <2>2, <4>1, <4>3
    <3>2. CASE ~ricUp
      <4>1. ricIn' = ricIn
        BY <2>1, <3>2 DEF Sent, LinkKept
      <4>2. /\ \A i \in DOMAIN agIn' : i \in Nat /\ i + 1 \in DOMAIN agIn /\ agIn'[i] = agIn[i + 1]
            /\ \A i \in DOMAIN ricIn : i \in Nat /\ i + 0 \in DOMAIN ricIn /\ ricIn[i] = ricIn[i + 0]
        BY <1>2, <1>6, <2>1
      <4>3. Awaited(agIn', ricIn, ricPending, ricMap, ricRun) /\ AnsweredOnce(agIn', ricIn, ricRun)
        BY <1>5, <4>2, AwaitedShift
      <4>. QED
        BY <4>1, <4>3
    <3>. QED
      BY <3>1, <3>2
  <2>4. Known(indEvent', born', ricMap, ricRun)
    <3>1. CASE OControl
      BY <1>5, <3>1 DEF OControl
    <3>2. ASSUME NEW r, ODelete(r) PROVE Known(indEvent', born', ricMap, ricRun)
      <4>1. r \in bi_map_extract_right(indEvent, Head(agIn).rid) /\ indEvent' = r.map /\ born' = born
        BY <3>2 DEF ODelete
      <4>2. r.map.left \subseteq indEvent.left
        BY <1>1, <4>1, ExtractOne DEF MapsMatchTimers
      <4>. QED
        BY <1>5, <4>1, <4>2 DEF Known
    <3>3. CASE OSubscribe
      <4>1. /\ indEvent' = bi_map_insert(indEvent, NewFd, Head(agIn).rid) /\ spc # "freed"
            /\ born' = [born EXCEPT ![NewFd] = Head(agIn).run] /\ NewFd \in Fds /\ NewFd \notin timers
            /\ Head(agIn).type = "SUB_REQ"
        BY <3>3 DEF OSubscribe, Read, Turn
      <4>2. born \in [Fds -> Runs] /\ indEvent.left \subseteq Fds \X Rids
        BY <1>1 DEF TypeOK
      <4>3. indEvent'.left = indEvent.left \cup {<<NewFd, Head(agIn).rid>>}
        BY <4>1 DEF bi_map_insert
      <4>4. \A p \in indEvent.left : p[1] \in Fds /\ p[1] # NewFd
        BY <1>1, <4>1, <4>2 DEF MapsMatchTimers, FdsOf
      <4>5. Head(agIn).run = ricRun => Head(agIn).rid \in ricMap
        <5>1. 1 \in DOMAIN agIn /\ agIn[1] = Head(agIn)
          BY <1>1, <2>1, QueueSteps
        <5>2. Head(agIn).run = ricRun => <<"SUB_REQ", Head(agIn).rid>> \in ricPending
          BY <1>5, <4>1, <5>1 DEF Awaited, Requests
        <5>. QED
          BY <1>1, <5>2 DEF LinkInv
      <4>6. /\ \A p \in indEvent.left : born'[p[1]] = born[p[1]]
            /\ born'[NewFd] = Head(agIn).run
        BY <4>1, <4>2, <4>4
      <4>. QED
        BY <1>5, <4>3, <4>5, <4>6 DEF Known
    <3>. QED
      BY <1>10, <3>1, <3>2, <3>3
  <2>. QED
    BY <2>2, <2>3, <2>4
<1>11. CASE OFree
  <2>1. UNCHANGED <<ricPending, ricMap, ricRun, agIn, ricIn>> /\ indEvent'.left = {}
    BY <1>11 DEF OFree, RicKept, LinkKept
  <2>. QED
    BY <1>5, <2>1 DEF Known
<1>12. CASE ORicStart
  <2>1. ricRun' = ricRun + 1 /\ UNCHANGED <<agIn, indEvent, born>> /\ ricIn' = <<>>
    BY <1>1, <1>12 DEF ORicStart, LinkKept, AgKept, LinkInv
  <2>2. \A x \in 1 .. ricRun : x # ricRun'
    BY <1>2, <2>1
  <2>3. (\A i \in DOMAIN agIn : agIn[i].run # ricRun') /\ (\A p \in indEvent.left : born[p[1]] # ricRun')
    BY <1>1, <2>2 DEF RunsInv, BornInv
  <2>. QED
    BY <2>1, <2>3 DEF Awaited, AnsweredOnce, Known
<1>a. ASSUME NEW m, Told(m), m.type \notin Requests \/ <<m.type, m.rid>> \notin ricPending,
             m.type \in Requests => <<m.type, m.rid>> \in ricPending', m.run = ricRun,
             ricPending \subseteq ricPending', ricMap \subseteq ricMap', UNCHANGED <<indEvent, born, ricRun>>,
             NEW e \in Nat, \A i \in DOMAIN ricIn' : i \in Nat /\ i + e \in DOMAIN ricIn /\ ricIn'[i] = ricIn[i + e]
      PROVE  Good
  <2>1. \A i \in DOMAIN agIn : i \in Nat /\ i + 0 \in DOMAIN agIn /\ agIn[i] = agIn[i + 0]
    BY <1>2
  <2>2. Awaited(agIn, ricIn', ricPending', ricMap', ricRun) /\ AnsweredOnce(agIn, ricIn', ricRun)
    BY <1>5, <1>a, <2>1, AwaitedShift
  <2>3. Known(indEvent', born', ricMap', ricRun)
    BY <1>5, <1>a DEF Known
  <2>4. CASE agIn' = agIn
    BY <1>a, <2>2, <2>3, <2>4
  <2>5. CASE agIn' = Append(agIn, m) /\ m \in ToAgent
    <3>1. m.type \in Requests => \A i \in DOMAIN agIn :
            agIn[i].type \in Requests /\ agIn[i].run = ricRun => <<agIn[i].type, agIn[i].rid>> # <<m.type, m.rid>>
      BY <1>5, <1>a DEF Awaited
    <3>2. m.type \in Requests => \A i \in DOMAIN ricIn' :
            ricIn'[i].type \in DOMAIN RequestOf /\ ricIn'[i].run = ricRun =>
              <<RequestOf[ricIn'[i].type], ricIn'[i].rid>> # <<m.type, m.rid>>
      BY <1>5, <1>a DEF Awaited
    <3>3. /\ Awaited(Append(agIn, m), ricIn', ricPending', ricMap', ricRun)
          /\ AnsweredOnce(Append(agIn, m), ricIn', ricRun)
      BY <1>2, <1>a, <2>2, <2>5, <3>1, <3>2, AwaitedTold
    <3>. QED
      BY <1>a, <2>3, <2>5, <3>3
  <2>. QED
    BY <1>a, <2>4, <2>5 DEF Told
<1>e. (ricIn' = ricIn \/ ricIn' = <<>>) =>
         \A i \in DOMAIN ricIn' : i \in Nat /\ i + 0 \in DOMAIN ricIn /\ ricIn'[i] = ricIn[i + 0]
    BY <1>2
<1>13. CASE ORegister
  <2>. DEFINE m == [type |-> "SETUP_RESP", rid |-> 0, run |-> ricRun]
  <2>1. /\ Told(m) /\ UNCHANGED <<ricPending, ricMap, ricRun, indEvent, born>>
        /\ ricIn # <<>> /\ ricIn' = Tail(ricIn)
    BY <1>13 DEF ORegister, AgKept
  <2>2. m.type \notin Requests /\ m.run = ricRun
    BY DEF Requests
  <2>. HIDE DEF m
  <2>. QED
    BY <1>6, <1>a, <2>1, <2>2
<1>14. CASE OReport
  <2>1. /\ UNCHANGED <<agIn, ricPending, ricMap, ricRun, indEvent, born>>
        /\ ricIn # <<>> /\ ricIn' = Tail(ricIn)
    BY <1>14 DEF OReport, AgKept, RicKept
  <2>2. \A i \in DOMAIN agIn : i \in Nat /\ i + 0 \in DOMAIN agIn /\ agIn[i] = agIn[i + 0]
    BY <1>2
  <2>3. \A i \in DOMAIN ricIn' : i \in Nat /\ i + 1 \in DOMAIN ricIn /\ ricIn'[i] = ricIn[i + 1]
    BY <1>6, <2>1
  <2>4. Awaited(agIn, ricIn', ricPending, ricMap, ricRun) /\ AnsweredOnce(agIn, ricIn', ricRun)
    BY <1>5, <2>2, <2>3, AwaitedShift
  <2>. QED
    BY <1>5, <2>1, <2>4
<1>15. ASSUME NEW q, NEW t, OAnswer(q, t) PROVE Good
  <2>1. /\ <<q, t>> \in Answering /\ ricIn # <<>> /\ ricIn' = Tail(ricIn) /\ Head(ricIn).type = t
        /\ ricPending' = ricPending \ {<<q, Head(ricIn).rid>>}
        /\ stale' = (stale \/ Head(ricIn).run \in 1 .. ricRun - 1)
        /\ UNCHANGED <<agIn, ricMap, ricRun, indEvent, born>>
    BY <1>15 DEF OAnswer, AgKept
  <2>2. t \in DOMAIN RequestOf /\ q = RequestOf[t] /\ t # "SETUP_REQ"
    BY <2>1, AnswerTypes DEF Answering
  <2>3. Head(ricIn).run = ricRun
    <3>1. 1 \in DOMAIN ricIn /\ ricIn[1] = Head(ricIn)
      BY <1>1, <2>1, RicQueueSteps
    <3>2. Head(ricIn).run \in 1 .. ricRun
      BY <1>1, <2>1, <2>2, <3>1 DEF BornInv
    <3>3. Head(ricIn).run \notin 1 .. ricRun - 1
      BY <1>3, <2>1
    <3>4. \A u \in Nat : \A x \in 1 .. u : x \notin 1 .. u - 1 => x = u
      OBVIOUS
    <3>. QED
      BY <1>2, <3>2, <3>3, <3>4
  <2>4. /\ Awaited(agIn, Tail(ricIn), ricPending \ {<<q, Head(ricIn).rid>>}, ricMap, ricRun)
        /\ AnsweredOnce(agIn, Tail(ricIn), ricRun)
    BY <1>2, <1>5, <2>1, <2>2, <2>3, AwaitedTaken
  <2>. QED
    BY <1>5, <2>1, <2>4
<1>16. CASE OEnd
  <2>. DEFINE m == [type |-> "SHUTDOWN", rid |-> 0, run |-> ricRun]
  <2>1. /\ agIn' = agIn \/ Told(m)
        /\ UNCHANGED <<ricPending, ricMap, ricRun, indEvent, born>> /\ ricIn' = <<>>
    BY <1>16 DEF OEnd, AgKept
  <2>2. m.type \notin Requests /\ m.run = ricRun
    BY DEF Requests
  <2>. HIDE DEF m
  <2>3. CASE Told(m)
    BY <1>a, <1>e, <2>1, <2>2, <2>3
  <2>4. CASE agIn' = agIn
    <3>2. \A i \in DOMAIN agIn : i \in Nat /\ i + 0 \in DOMAIN agIn /\ agIn[i] = agIn[i + 0]
      BY <1>2
    <3>3. Awaited(agIn, ricIn', ricPending, ricMap, ricRun) /\ AnsweredOnce(agIn, ricIn', ricRun)
      BY <1>5, <1>e, <2>1, <3>2, AwaitedShift
    <3>. QED
      BY <1>5, <2>1, <2>4, <3>3
  <2>. QED
    BY <2>1, <2>3, <2>4
<1>17. ASSUME NEW t, ORequest(t) PROVE Good
  <2>. DEFINE m == [type |-> t, rid |-> ricNext, run |-> ricRun]
  <2>1. /\ Told(m) /\ ricPending' = ricPending \cup {<<t, ricNext>>} /\ ricMap' = ricMap \cup {ricNext}
        /\ UNCHANGED <<ricRun, indEvent, born, ricIn>>
    BY <1>17 DEF ORequest, AgKept, LinkKept
  <2>2. m.type = t /\ m.rid = ricNext /\ m.run = ricRun
    OBVIOUS
  <2>3. <<t, ricNext>> \notin ricPending
    <3>1. ricNext \in Nat /\ ricNext \notin 1 .. ricNext - 1
      BY <1>1, AgentAssumption DEF TypeOK
    <3>. QED
      BY <1>1, <3>1 DEF LinkInv
  <2>. HIDE DEF m
  <2>. QED
    BY <1>a, <1>e, <2>1, <2>2, <2>3
<1>18. ASSUME NEW rid \in Rids, ODeleteRequest(rid) PROVE Good
  <2>. DEFINE m == [type |-> "DEL_REQ", rid |-> rid, run |-> ricRun]
  <2>1. /\ Told(m) /\ ricPending' = ricPending \cup {<<"DEL_REQ", rid>>} /\ rid \in ricSubs
        /\ UNCHANGED <<ricRun, ricMap, indEvent, born, ricIn>>
    BY <1>18 DEF ODeleteRequest, AgKept, LinkKept
  <2>2. m.type = "DEL_REQ" /\ m.rid = rid /\ m.run = ricRun
    OBVIOUS
  <2>3. <<"DEL_REQ", rid>> \notin ricPending
    BY <1>1, <2>1 DEF LinkInv
  <2>. HIDE DEF m
  <2>. QED
    BY <1>a, <1>e, <2>1, <2>2, <2>3
<1>. HIDE DEF Good
<1>. QED
    BY <1>1, <1>7, <1>8, <1>9, <1>10, <1>11, <1>12, <1>13, <1>14, <1>15, <1>16, <1>17, <1>18 DEF Outcome

-----------------------------------------------------------------------------
(* Delete requests find their timer *)

\* ClaimsInv for one request id: the queue a, T timers, s for a subscription
\* that may be deleted, p for one still pending.
Claims(a, T, s, p, rid) ==
    /\ \A n \in 0 .. Len(a) : Count(a, n, Dels(rid)) <= T + Count(a, n, Subs(rid))
    /\ Count(a, Len(a), Dels(rid)) + s + p <= T + Count(a, Len(a), Subs(rid))

\* Reading a message, with the timer it starts or stops.
LEMMA ClaimsTail ==
    ASSUME NEW a \in Seq(ToAgent), a # <<>>, NEW T \in Nat, NEW T2 \in Nat, NEW s \in Nat, NEW p \in Nat,
           NEW rid, Claims(a, T, s, p, rid),
           T2 + (IF Head(a) \in Dels(rid) THEN 1 ELSE 0) = T + (IF Head(a) \in Subs(rid) THEN 1 ELSE 0)
    PROVE  Claims(Tail(a), T2, s, p, rid)
<1>. DEFINE t == Tail(a)
            hd == IF Head(a) \in Dels(rid) THEN 1 ELSE 0
            hs == IF Head(a) \in Subs(rid) THEN 1 ELSE 0
<1>1. Len(a) \in Nat /\ Len(a) >= 1 /\ Len(t) = Len(a) - 1
    BY TailElements
<1>2. hd \in Nat /\ hs \in Nat /\ T2 + hd = T + hs
    OBVIOUS
<1>3. ASSUME NEW n \in 1 .. Len(a)
      PROVE  /\ Count(a, n, Dels(rid)) = Count(t, n - 1, Dels(rid)) + hd
             /\ Count(a, n, Subs(rid)) = Count(t, n - 1, Subs(rid)) + hs
             /\ Count(t, n - 1, Dels(rid)) \in Nat /\ Count(t, n - 1, Subs(rid)) \in Nat
  <2>1. n - 1 \in Nat
    BY <1>1
  <2>. QED
    BY <2>1, CountTail, CountFinite
<1>. HIDE DEF t, hd, hs
<1>4. \A x, y, k \in Nat : /\ x + hd <= T + (y + hs) => x <= T2 + y
                           /\ (x + hd) + s + p <= T + (y + hs) => x + s + p <= T2 + y
    BY <1>2
<1>5. ASSUME NEW n \in 0 .. Len(t) PROVE Count(t, n, Dels(rid)) <= T2 + Count(t, n, Subs(rid))
  <2>1. n + 1 \in 1 .. Len(a) /\ n + 1 \in 0 .. Len(a) /\ (n + 1) - 1 = n
    BY <1>1
  <2>2. Count(a, n + 1, Dels(rid)) <= T + Count(a, n + 1, Subs(rid))
    BY <2>1 DEF Claims
  <2>3. /\ Count(a, n + 1, Dels(rid)) = Count(t, n, Dels(rid)) + hd
        /\ Count(a, n + 1, Subs(rid)) = Count(t, n, Subs(rid)) + hs
        /\ Count(t, n, Dels(rid)) \in Nat /\ Count(t, n, Subs(rid)) \in Nat
    BY <1>3, <2>1
  <2>. QED
    BY <1>4, <2>2, <2>3
<1>6. Count(t, Len(t), Dels(rid)) + s + p <= T2 + Count(t, Len(t), Subs(rid))
  <2>1. Len(a) \in 1 .. Len(a) /\ Len(a) - 1 = Len(t)
    BY <1>1
  <2>2. Count(a, Len(a), Dels(rid)) + s + p <= T + Count(a, Len(a), Subs(rid))
    BY DEF Claims
  <2>3. /\ Count(a, Len(a), Dels(rid)) = Count(t, Len(t), Dels(rid)) + hd
        /\ Count(a, Len(a), Subs(rid)) = Count(t, Len(t), Subs(rid)) + hs
        /\ Count(t, Len(t), Dels(rid)) \in Nat /\ Count(t, Len(t), Subs(rid)) \in Nat
    BY <1>3, <2>1
  <2>. QED
    BY <1>4, <2>2, <2>3
<1>. QED
    BY <1>5, <1>6 DEF Claims, t

\* Nothing is asked of the timers that was not before.
LEMMA ClaimsLess ==
    ASSUME NEW a \in Seq(ToAgent), NEW T \in Nat, NEW s \in Nat, NEW p \in Nat, NEW s2 \in Nat,
           NEW p2 \in Nat, NEW rid, Claims(a, T, s, p, rid), s2 + p2 <= s + p
    PROVE  Claims(a, T, s2, p2, rid)
<1>1. /\ Len(a) \in Nat
      /\ Count(a, Len(a), Dels(rid)) \in Nat /\ Count(a, Len(a), Subs(rid)) \in Nat
  <2>1. Len(a) \in Nat
    OBVIOUS
  <2>. QED
    BY <2>1, CountFinite
<1>2. \A x, y \in Nat : x + s + p <= T + y => x + s2 + p2 <= T + y
    OBVIOUS
<1>. QED
    BY <1>1, <1>2 DEF Claims

\* A message to the agent.
LEMMA ClaimsTold ==
    ASSUME NEW a \in Seq(ToAgent), NEW m \in ToAgent, NEW T \in Nat, NEW s \in Nat, NEW p \in Nat,
           NEW s2 \in Nat, NEW p2 \in Nat, NEW rid, Claims(a, T, s, p, rid),
           s2 + p2 + (IF m \in Dels(rid) THEN 1 ELSE 0) <= s + p + (IF m \in Subs(rid) THEN 1 ELSE 0)
    PROVE  Claims(Append(a, m), T, s2, p2, rid)
<1>. DEFINE b == Append(a, m)
            md == IF m \in Dels(rid) THEN 1 ELSE 0
            ms == IF m \in Subs(rid) THEN 1 ELSE 0
            x == Count(a, Len(a), Dels(rid))
            y == Count(a, Len(a), Subs(rid))
<1>1. Len(a) \in Nat /\ Len(b) = Len(a) + 1
    OBVIOUS
<1>2. x \in Nat /\ y \in Nat
    BY <1>1, CountFinite
<1>3. /\ \A n \in 0 .. Len(a) : /\ Count(b, n, Dels(rid)) = Count(a, n, Dels(rid))
                                /\ Count(b, n, Subs(rid)) = Count(a, n, Subs(rid))
      /\ Count(b, Len(a) + 1, Dels(rid)) = x + md /\ Count(b, Len(a) + 1, Subs(rid)) = y + ms
    BY CountAppend
<1>4. x + s + p <= T + y
    BY DEF Claims
<1>5. md \in Nat /\ ms \in Nat /\ s2 + p2 + md <= s + p + ms
    OBVIOUS
<1>. HIDE DEF b, md, ms, x, y
<1>6. (x + md) + s2 + p2 <= T + (y + ms) /\ x + md <= T + (y + ms)
    BY <1>2, <1>4, <1>5
<1>7. \A n \in 0 .. Len(b) : n \in 0 .. Len(a) \/ n = Len(a) + 1
    BY <1>1
<1>8. \A n \in 0 .. Len(b) : Count(b, n, Dels(rid)) <= T + Count(b, n, Subs(rid))
    BY <1>3, <1>6, <1>7 DEF Claims
<1>. QED
    BY <1>1, <1>3, <1>6, <1>8 DEF Claims, b

\* A delete request meets a timer of its id, whichever run asked for either.
LEMMA ClaimsStep == ASSUME AgentInv, [Next]_vars PROVE ClaimsInv'
<1>1. TypeOK /\ LinkInv /\ ClaimsInv /\ MapsMatchTimers /\ Outcome
    BY OutcomeStep DEF AgentInv, TimersInStep
<1>2. SUFFICES ASSUME spc' # "freed", NEW rid \in Rids
               PROVE  Claims(agIn', Cardinality(TimersOf(rid)'), IF rid \in ricSubs' THEN 1 ELSE 0,
                             IF <<"SUB_REQ", rid>> \in ricPending' THEN 1 ELSE 0, rid)
    BY DEF ClaimsInv, Claims
<1>. DEFINE S == TimersOf(rid)
            S2 == TimersOf(rid)'
            T == Cardinality(S)
            T2 == Cardinality(S2)
            s == IF rid \in ricSubs THEN 1 ELSE 0
            s2 == IF rid \in ricSubs' THEN 1 ELSE 0
            p == IF <<"SUB_REQ", rid>> \in ricPending THEN 1 ELSE 0
            p2 == IF <<"SUB_REQ", rid>> \in ricPending' THEN 1 ELSE 0
<1>3. s \in Nat /\ p \in Nat /\ s2 \in Nat /\ p2 \in Nat
    OBVIOUS
<1>4. spc # "freed"
    BY <1>1, <1>2 DEF Outcome, OQuiet, OAbort, OStart, OResponse, OSubscribe, ODelete, OControl,
           ONotified, OTimer, OFree, ORicStart, ORegister, OReport, OAnswer, OEnd, ORequest,
           ODeleteRequest, Read, Turn, AgKept
<1>5. Claims(agIn, T, s, p, rid)
    BY <1>1, <1>4 DEF ClaimsInv, Claims
<1>6. /\ IsFiniteSet(S) /\ T \in Nat /\ agIn \in Seq(ToAgent)
  <2>1. IsFiniteSet(Fds \X Rids)
    <3>1. IsFiniteSet(Rids)
      BY AgentAssumption, FS_Interval DEF Rids
    <3>. QED
      BY <3>1, FdsFinite, FS_Product
  <2>2. IsFiniteSet(S)
    BY <1>1, <2>1, FS_Subset DEF TypeOK, TimersOf
  <2>. QED
    BY <1>1, <2>2, FS_CardinalityType DEF TypeOK
<1>7. indEvent' = indEvent => T2 = T
    BY DEF TimersOf
<1>8. RicKept => s2 = s /\ p2 = p
    BY DEF RicKept
<1>9. \A m \in ToAgent : /\ m.type # "DEL_REQ" => m \notin Dels(rid)
                         /\ m.type # "SUB_REQ" => m \notin Subs(rid)
                         /\ m.type = "DEL_REQ" => (m \in Dels(rid) <=> m.rid = rid)
                         /\ m.type = "SUB_REQ" => (m \in Subs(rid) <=> m.rid = rid)
    BY DEF Dels, Subs
<1>. HIDE DEF S, S2, T, T2, s, s2, p, p2
<1>g. SUFFICES Claims(agIn', T2, s2, p2, rid)
    BY DEF T2, S2, s2, p2
<1>k. ASSUME agIn' = agIn, indEvent' = indEvent, s2 + p2 <= s + p PROVE Claims(agIn', T2, s2, p2, rid)
  <2>1. Claims(agIn, T, s2, p2, rid)
    BY <1>3, <1>5, <1>6, <1>k, ClaimsLess
  <2>. QED
    BY <1>7, <1>k, <2>1
<1>10. CASE OQuiet \/ OAbort \/ OStart \/ OTimer
  <2>1. agIn' = agIn /\ indEvent' = indEvent /\ RicKept
    BY <1>10 DEF OQuiet, OAbort, OStart, OTimer, Turn
  <2>2. s2 + p2 <= s + p
    BY <1>3, <1>8, <2>1
  <2>. QED
    BY <1>k, <2>1, <2>2
<1>r. ASSUME NEW t, Read(t), T2 \in Nat,
             T2 + (IF Head(agIn) \in Dels(rid) THEN 1 ELSE 0) = T + (IF Head(agIn) \in Subs(rid) THEN 1 ELSE 0)
      PROVE  Claims(agIn', T2, s2, p2, rid)
  <2>1. agIn # <<>> /\ agIn' = Tail(agIn) /\ RicKept
    BY <1>r DEF Read, Turn
  <2>2. Claims(Tail(agIn), T2, s, p, rid)
    BY <1>3, <1>5, <1>6, <1>r, <2>1, ClaimsTail
  <2>. QED
    BY <1>8, <2>1, <2>2
<1>11. CASE (\E r : OResponse(r)) \/ OControl \/ ONotified
  <2>1. PICK t : Read(t) /\ t # "DEL_REQ" /\ t # "SUB_REQ"
    BY <1>11 DEF OResponse, OControl, ONotified
  <2>2. Head(agIn) \notin Dels(rid) /\ Head(agIn) \notin Subs(rid)
    BY <1>9, <2>1 DEF Read
  <2>3. T2 = T
    BY <1>7, <1>11 DEF OResponse, OControl, ONotified
  <2>. QED
    BY <1>6, <1>r, <2>1, <2>2, <2>3
<1>12. CASE OSubscribe
  <2>1. /\ Read("SUB_REQ") /\ NewFd \notin timers /\ Head(agIn) \in ToAgent /\ Head(agIn).type = "SUB_REQ"
        /\ indEvent' = bi_map_insert(indEvent, NewFd, Head(agIn).rid)
    BY <1>12 DEF OSubscribe, Read
  <2>2. indEvent'.left = indEvent.left \cup {<<NewFd, Head(agIn).rid>>}
    BY <2>1 DEF bi_map_insert
  <2>3. \A q \in indEvent.left : q[1] # NewFd
    BY <1>1, <1>4, <2>1 DEF MapsMatchTimers, FdsOf
  <2>4. Head(agIn) \notin Dels(rid)
    BY <1>9, <2>1
  <2>5. CASE Head(agIn).rid = rid
    <3>1. S2 = S \cup {<<NewFd, rid>>} /\ <<NewFd, rid>> \notin S
      BY <2>2, <2>3, <2>5 DEF S, S2, TimersOf
    <3>2. T2 = T + 1
      BY <1>6, <3>1, FS_AddElement DEF T, T2
    <3>3. Head(agIn) \in Subs(rid)
      BY <1>9, <2>1, <2>5
    <3>. QED
      BY <1>6, <1>r, <2>1, <2>4, <3>2, <3>3
  <2>6. CASE Head(agIn).rid # rid
    <3>1. S2 = S
      BY <2>2, <2>6 DEF S, S2, TimersOf
    <3>2. Head(agIn) \notin Subs(rid)
      BY <1>9, <2>1, <2>6
    <3>3. T2 = T
      BY <3>1 DEF T, T2
    <3>. QED
      BY <1>6, <1>r, <2>1, <2>4, <3>2, <3>3
  <2>. QED
    BY <2>5, <2>6
<1>13. ASSUME NEW r, ODelete(r) PROVE Claims(agIn', T2, s2, p2, rid)
  <2>1. /\ Read("DEL_REQ") /\ Head(agIn) \in ToAgent /\ Head(agIn).type = "DEL_REQ"
        /\ r \in bi_map_extract_right(indEvent, Head(agIn).rid) /\ indEvent' = r.map
    BY <1>13 DEF ODelete, Read
  <2>2. /\ <<r.key1, Head(agIn).rid>> \in indEvent.left
        /\ indEvent'.left = indEvent.left \ {<<r.key1, Head(agIn).rid>>}
    BY <1>1, <2>1, ExtractOne DEF MapsMatchTimers
  <2>4. Head(agIn) \notin Subs(rid)
    BY <1>9, <2>1
  <2>5. CASE Head(agIn).rid = rid
    <3>1. S2 = S \ {<<r.key1, rid>>} /\ <<r.key1, rid>> \in S
      BY <2>2, <2>5 DEF S, S2, TimersOf
    <3>2. T2 = T - 1 /\ T2 \in Nat
      <4>1. IsFiniteSet(S2) /\ T2 = T - 1
        BY <1>6, <3>1, FS_RemoveElement DEF T, T2
      <4>. QED
        BY <4>1, FS_CardinalityType DEF T2
    <3>3. Head(agIn) \in Dels(rid)
      BY <1>9, <2>1, <2>5
    <3>. QED
      BY <1>6, <1>r, <2>1, <2>4, <3>2, <3>3
  <2>6. CASE Head(agIn).rid # rid
    <3>1. S2 = S
      BY <2>2, <2>6 DEF S, S2, TimersOf
    <3>2. Head(agIn) \notin Dels(rid)
      BY <1>9, <2>1, <2>6
    <3>3. T2 = T
      BY <3>1 DEF T, T2
    <3>. QED
      BY <1>6, <1>r, <2>1, <2>4, <3>2, <3>3
  <2>. QED
    BY <2>5, <2>6
<1>14. CASE OFree
    BY <1>2, <1>14 DEF OFree
<1>15. CASE ORicStart
  <2>1. agIn' = agIn /\ indEvent' = indEvent /\ s2 = 0 /\ p2 = 0
    BY <1>15 DEF ORicStart, AgKept, s2, p2
  <2>. QED
    BY <1>3, <1>k, <2>1
<1>16. CASE OReport
  <2>1. agIn' = agIn /\ indEvent' = indEvent /\ s2 = s /\ p2 = p
    BY <1>8, <1>16 DEF OReport, AgKept
  <2>. QED
    BY <1>3, <1>k, <2>1
<1>17. ASSUME NEW q, NEW t, OAnswer(q, t) PROVE Claims(agIn', T2, s2, p2, rid)
  <2>1. /\ agIn' = agIn /\ indEvent' = indEvent /\ <<q, Head(ricIn).rid>> \in ricPending
        /\ ricPending' = ricPending \ {<<q, Head(ricIn).rid>>}
        /\ ricSubs' = IF q = "SUB_REQ" THEN ricSubs \cup {Head(ricIn).rid} ELSE ricSubs
    BY <1>17 DEF OAnswer, AgKept
  <2>2. \/ s2 = s /\ p2 = p
        \/ s2 = 1 /\ p2 = 0 /\ p = 1
    BY <2>1 DEF s, s2, p, p2
  <2>3. s2 + p2 <= s + p
    BY <1>3, <2>2
  <2>. QED
    BY <1>k, <2>1, <2>3
<1>a. ASSUME NEW m, Told(m), indEvent' = indEvent, m \in Dels(rid) \/ m \in Subs(rid) => AgentRuns,
             s2 + p2 + (IF m \in Dels(rid) THEN 1 ELSE 0) <= s + p + (IF m \in Subs(rid) THEN 1 ELSE 0)
      PROVE  Claims(agIn', T2, s2, p2, rid)
  <2>1. CASE AgentRuns
    <3>1. agIn' = Append(agIn, m) /\ m \in ToAgent
      BY <1>a, <2>1 DEF Told
    <3>2. Claims(Append(agIn, m), T, s2, p2, rid)
      BY <1>3, <1>5, <1>6, <1>a, <3>1, ClaimsTold
    <3>. QED
      BY <1>7, <1>a, <3>1, <3>2
  <2>2. CASE ~AgentRuns
    <3>1. agIn' = agIn /\ s2 + p2 <= s + p
      BY <1>3, <1>a, <2>2 DEF Told
    <3>. QED
      BY <1>a, <1>k, <3>1
  <2>. QED
    BY <2>1, <2>2
<1>18. CASE ORegister
  <2>. DEFINE m == [type |-> "SETUP_RESP", rid |-> 0, run |-> ricRun]
  <2>1. Told(m) /\ indEvent' = indEvent /\ UNCHANGED <<ricSubs, ricPending>> /\ m.type = "SETUP_RESP"
    BY <1>18 DEF ORegister, AgKept
  <2>. HIDE DEF m
  <2>2. m \notin Dels(rid) /\ m \notin Subs(rid)
    BY <1>9, <2>1 DEF Told
  <2>3. s2 = s /\ p2 = p
    BY <2>1 DEF s, s2, p, p2
  <2>. QED
    BY <1>3, <1>a, <2>1, <2>2, <2>3
<1>19. CASE OEnd
  <2>. DEFINE m == [type |-> "SHUTDOWN", rid |-> 0, run |-> ricRun]
  <2>1. /\ agIn' = agIn \/ Told(m)
        /\ indEvent' = indEvent /\ UNCHANGED <<ricSubs, ricPending>> /\ m.type = "SHUTDOWN"
    BY <1>19 DEF OEnd, AgKept
  <2>. HIDE DEF m
  <2>3. s2 = s /\ p2 = p
    BY <2>1 DEF s, s2, p, p2
  <2>4. CASE agIn' = agIn
    BY <1>3, <1>k, <2>1, <2>3, <2>4
  <2>5. CASE Told(m)
    <3>1. m \notin Dels(rid) /\ m \notin Subs(rid)
      BY <1>9, <2>1, <2>5 DEF Told
    <3>. QED
      BY <1>3, <1>a, <2>1, <2>3, <2>5, <3>1
  <2>. QED
    BY <2>1, <2>4, <2>5
<1>20. ASSUME NEW t, ORequest(t) PROVE Claims(agIn', T2, s2, p2, rid)
  <2>. DEFINE m == [type |-> t, rid |-> ricNext, run |-> ricRun]
  <2>1. /\ Told(m) /\ indEvent' = indEvent /\ ricSubs' = ricSubs /\ AgentRuns
        /\ ricPending' = ricPending \cup {<<t, ricNext>>} /\ m.type = t /\ m.rid = ricNext
        /\ t \in {"SUB_REQ", "CTRL_REQ"}
    BY <1>20 DEF ORequest, AgKept
  <2>. HIDE DEF m
  <2>2. m \notin Dels(rid) /\ m \in ToAgent
    BY <1>9, <2>1 DEF Told
  <2>3. s2 = s
    BY <2>1 DEF s, s2
  <2>4. CASE t = "SUB_REQ" /\ ricNext = rid
    <3>1. m \in Subs(rid)
      BY <1>9, <2>1, <2>2, <2>4
    <3>2. p2 <= p + 1
      BY DEF p, p2
    <3>. QED
      BY <1>3, <1>a, <2>1, <2>2, <2>3, <3>1, <3>2
  <2>5. CASE ~(t = "SUB_REQ" /\ ricNext = rid)
    <3>1. m \notin Subs(rid)
      BY <1>9, <2>1, <2>2, <2>5
    <3>2. p2 = p
      BY <2>1, <2>5 DEF p, p2
    <3>. QED
      BY <1>3, <1>a, <2>1, <2>2, <2>3, <3>1, <3>2
  <2>. QED
    BY <2>4, <2>5
<1>21. ASSUME NEW id \in Rids, ODeleteRequest(id) PROVE Claims(agIn', T2, s2, p2, rid)
  <2>. DEFINE m == [type |-> "DEL_REQ", rid |-> id, run |-> ricRun]
  <2>1. /\ Told(m) /\ indEvent' = indEvent /\ id \in ricSubs /\ ricSubs' = ricSubs \ {id} /\ AgentRuns
        /\ ricPending' = ricPending \cup {<<"DEL_REQ", id>>} /\ m.type = "DEL_REQ" /\ m.rid = id
    BY <1>21 DEF ODeleteRequest, AgKept
  <2>. HIDE DEF m
  <2>2. m \notin Subs(rid) /\ m \in ToAgent
    BY <1>9, <2>1 DEF Told
  <2>3. p2 = p
    BY <2>1 DEF p, p2
  <2>4. CASE id = rid
    <3>1. s = 1 /\ s2 = 0
      BY <2>1, <2>4 DEF s, s2
    <3>. QED
      BY <1>3, <1>a, <2>1, <2>2, <2>3, <3>1
  <2>5. CASE id # rid
    <3>1. m \notin Dels(rid) /\ s2 = s
      BY <1>9, <2>1, <2>2, <2>5 DEF s, s2
    <3>. QED
      BY <1>3, <1>a, <2>1, <2>2, <2>3, <3>1
  <2>. QED
    BY <2>4, <2>5
<1>. QED
    BY <1>1, <1>10, <1>11, <1>12, <1>13, <1>14, <1>15, <1>16, <1>17, <1>18, <1>19, <1>20, <1>21 DEF Outcome

-----------------------------------------------------------------------------
(* Why either side ends *)

\* The assert that ended the agent, when this step is its end.
LEMMA AgentAbort ==
    ASSUME AgentInv, [Next]_vars
    PROVE  \/ agAbort' = agAbort
           \/ /\ AgReceives("SETUP_RESP") /\ bi_map_extract_right(pending, SETUP) = {}
              /\ agAbort' = "no setup pending" /\ UNCHANGED <<agIn, setupRun>>
           \/ /\ AgReceives("DEL_REQ") /\ bi_map_extract_right(indEvent, Head(agIn).rid) = {}
           \/ /\ TimerEvent /\ \A p \in indEvent.left : p[1] # Head(rdl)
              /\ \/ bi_map_size(pending) # 1 /\ agAbort' = "pending size is 1"
                 \/ bi_map_size(pending) = 1 /\ \A p \in pending.left : p[1] # Head(rdl)
              /\ UNCHANGED <<stale>>
<1>1. CASE AgSetupResponse
    BY <1>1 DEF AgSetupResponse, AgAbort, agSock
<1>2. CASE AgDelete
    BY <1>2 DEF AgDelete
<1>3. CASE AgPendingEvent
    BY <1>3 DEF AgPendingEvent, AgAbort, ricVars
<1>4. CASE AgStart \/ AgTest \/ AgTimeout \/ AgSubscription \/ AgControl \/ AgNotification
             \/ AgIndication \/ StopFree
    BY <1>4 DEF AgStart, AgTest, AgTimeout, AgSubscription, AgControl, AgNotification, AgIndication, StopFree
<1>5. CASE (\E f \in Fds : TimerFires(f)) \/ StopRequest \/ RicStart \/ RicStop \/ UNCHANGED vars
             \/ (\E t \in {"SUB_REQ", "CTRL_REQ"} : RicRequest(t)) \/ (\E rid \in Rids : RicDelete(rid))
    BY <1>5 DEF TimerFires, StopRequest, RicStart, RicStop, RicEnds, RicRequest, RicDelete, agVars, vars
<1>6. CASE RicSetupRequest \/ RicIndication \/ (\E q, t : <<q, t>> \in Answering /\ RicAnswer(q, t))
    BY <1>6 DEF RicSetupRequest, RicIndication, RicAnswer, RicAborts, RicEnds, agVars
<1>. QED
    BY <1>1, <1>2, <1>3, <1>4, <1>5, <1>6, NextCases

\* A set all of whose elements are equal.
LEMMA AtMostOne ==
    ASSUME NEW S, \A p, q \in S : p = q
    PROVE  /\ ~(Cardinality(S) > 1)
           /\ Cardinality(S) # 1 => S = {}
<1>1. CASE S = {}
    BY <1>1, FS_EmptySet
<1>2. CASE S # {}
  <2>1. PICK x \in S : TRUE
    BY <1>2
  <2>2. S = {x}
    BY <2>1
  <2>3. Cardinality({x}) = 1
    BY FS_Singleton
  <2>. QED
    BY <2>2, <2>3
<1>. QED
    BY <1>1, <1>2

\* A delete request at the head of the queue has its timer.
LEMMA DeleteFinds ==
    ASSUME AgentInv, AgReceives("DEL_REQ")
    PROVE  bi_map_extract_right(indEvent, Head(agIn).rid) # {}
<1>. DEFINE rid == Head(agIn).rid
<1>1. TypeOK /\ RunsInv /\ ClaimsInv /\ PcInv /\ MapsMatchTimers
    BY DEF AgentInv, TimersInStep
<1>2. SUFFICES ASSUME bi_map_extract_right(indEvent, rid) = {} PROVE FALSE
    OBVIOUS
<1>3. agIn # <<>> /\ Head(agIn).type = "DEL_REQ" /\ apc = "wait" /\ agIn \in Seq(ToAgent)
    BY <1>1 DEF AgReceives, TypeOK
<1>4. Head(agIn) = agIn[1] /\ 1 \in DOMAIN agIn /\ Head(agIn) \in ToAgent /\ 1 \in 0 .. Len(agIn)
    BY <1>3, TailElements
<1>5. rid \in Rids
    BY <1>1, <1>3, <1>4 DEF RunsInv, Requests
<1>6. Count(agIn, 1, Dels(rid)) <= Cardinality(TimersOf(rid)) + Count(agIn, 1, Subs(rid))
    BY <1>1, <1>3, <1>4, <1>5 DEF ClaimsInv, PcInv
<1>7. TimersOf(rid) = {}
  <2>1. \A p \in indEvent.left : p[2] # rid
    BY <1>1, <1>2, ExtractFinds DEF MapsMatchTimers, TypeOK
  <2>. QED
    BY <2>1 DEF TimersOf
<1>8. Cardinality(TimersOf(rid)) = 0
    BY <1>7, FS_EmptySet
<1>9. \A M : Count(agIn, 1, M) = IF agIn[1] \in M THEN 1 ELSE 0
  <2>1. \A M : Count(agIn, 0 + 1, M) = Count(agIn, 0, M) + (IF agIn[0 + 1] \in M THEN 1 ELSE 0)
    BY CountNext
  <2>2. \A M : Count(agIn, 0, M) = 0
    BY FS_EmptySet DEF Count
  <2>. QED
    BY <2>1, <2>2
<1>10. agIn[1] \in Dels(rid) /\ agIn[1] \notin Subs(rid)
    BY <1>3, <1>4 DEF Dels, Subs
<1>. QED
    BY <1>6, <1>8, <1>9, <1>10

\* The asserts that end the agent and the RIC are explained.
LEMMA AbortsStep == ASSUME AgentInv, [Next]_vars PROVE AbortsExplained'
<1>1. /\ TypeOK /\ PcInv /\ RunsInv /\ SetupInv /\ AbortsExplained /\ MapsMatchTimers /\ ReadyIsReal
      /\ Outcome
    BY OutcomeStep DEF AgentInv, TimersInStep
<1>2. ~stale' => ~stale
    BY <1>1, StaleStays
<1>3. (bi_map_size(pending) > 1 => stale)'
  <2>1. SetupInv'
    BY SetupStep
  <2>2. ~stale' => \A p, q \in pending'.left : p = q
    BY <2>1 DEF SetupInv
  <2>. QED
    BY <2>2, AtMostOne DEF bi_map_size
<1>4. ASSUME agAbort' = agAbort
      PROVE  /\ agAbort' \in {"none", "no setup pending", "pending size is 1"}
             /\ agAbort' = "pending size is 1" => stale'
             /\ agAbort' = "no setup pending" => setupRun' \in 1 .. Head(agIn').run - 1
  <2>1. /\ agAbort \in {"none", "no setup pending", "pending size is 1"}
        /\ agAbort = "pending size is 1" => stale
        /\ agAbort = "no setup pending" => setupRun \in 1 .. Head(agIn).run - 1
    BY <1>1 DEF AbortsExplained, AgentAbortsExplained
  <2>2. ASSUME agAbort = "no setup pending" PROVE UNCHANGED <<setupRun, agIn>>
    <3>1. apc = "aborted" /\ ~AgentRuns
      BY <1>1, <2>2 DEF PcInv, AgentRuns
    <3>2. CASE OQuiet \/ OAbort \/ OStart \/ (\E r : OResponse(r)) \/ OSubscribe \/ (\E r : ODelete(r))
                 \/ OControl \/ ONotified \/ OTimer \/ OFree
      BY <3>1, <3>2 DEF OQuiet, OAbort, OStart, OResponse, OSubscribe, ODelete, OControl, ONotified,
                        OTimer, OFree, Read, Turn
    <3>3. CASE ORicStart \/ ORegister \/ OReport \/ (\E q, t : OAnswer(q, t)) \/ OEnd
                 \/ (\E t : ORequest(t)) \/ (\E rid \in Rids : ODeleteRequest(rid))
      BY <3>1, <3>3 DEF ORicStart, ORegister, OReport, OAnswer, OEnd, ORequest, ODeleteRequest, AgKept, Told
    <3>. QED
      BY <1>1, <3>2, <3>3 DEF Outcome
  <2>. QED
    BY <1>2, <1>4, <2>1, <2>2
<1>5. ASSUME AgReceives("SETUP_RESP"), bi_map_extract_right(pending, SETUP) = {},
             agAbort' = "no setup pending", UNCHANGED <<agIn, setupRun>>
      PROVE  setupRun' \in 1 .. Head(agIn').run - 1
  <2>1. agIn # <<>> /\ Head(agIn).type = "SETUP_RESP" /\ apc = "wait" /\ agIn \in Seq(ToAgent)
    BY <1>1, <1>5 DEF AgReceives, TypeOK
  <2>2. Head(agIn) = agIn[1] /\ 1 \in DOMAIN agIn
    BY <2>1, TailElements
  <2>3. pending.left = {}
    <3>1. Mirrored(pending) /\ pending.left \subseteq Fds \X {SETUP}
      BY <1>1 DEF MapsMatchTimers, TypeOK
    <3>2. \A p \in pending.left : p[2] # SETUP
      BY <1>5, <3>1, ExtractFinds
    <3>. QED
      BY <3>1, <3>2
  <2>4. setupRun # 0
    BY <1>1, <2>1, <2>3 DEF SetupInv, PcInv
  <2>5. setupRun < agIn[1].run /\ agIn[1].run \in 1 .. ricRun
    BY <1>1, <2>1, <2>2 DEF RunsInv
  <2>6. setupRun \in Nat /\ ricRun \in Nat
    BY <1>1, AgentAssumption DEF TypeOK, Runs
  <2>7. \A x, y \in Nat : x # 0 /\ x < y => x \in 1 .. y - 1
    OBVIOUS
  <2>8. agIn[1].run \in Nat
    BY <2>5, <2>6
  <2>9. setupRun \in 1 .. agIn[1].run - 1
    BY <2>4, <2>5, <2>6, <2>7, <2>8
  <2>. QED
    BY <1>5, <2>2, <2>9
<1>6. ASSUME TimerEvent, \A p \in indEvent.left : p[1] # Head(rdl)
      PROVE  \E p \in pending.left : p[1] = Head(rdl)
  <2>1. rdl # <<>> /\ Head(rdl) # SOCK /\ apc = "wait" /\ rdl \in Seq(Fds \cup {SOCK})
    BY <1>1, <1>6 DEF TimerEvent, TypeOK
  <2>2. Head(rdl) = rdl[1] /\ 1 \in DOMAIN rdl
    BY <2>1, TailElements
  <2>3. Head(rdl) \in timers
    BY <1>1, <2>1, <2>2 DEF ReadyIsReal
  <2>4. Head(rdl) \in FdsOf(pending) \cup FdsOf(indEvent)
    BY <1>1, <2>1, <2>3 DEF MapsMatchTimers, PcInv
  <2>. QED
    BY <1>6, <2>4 DEF FdsOf
<1>7. ASSUME TimerEvent, \A p \in indEvent.left : p[1] # Head(rdl), bi_map_size(pending) # 1 PROVE stale
  <2>1. pending.left # {}
    BY <1>6, <1>7
  <2>. QED
    BY <1>1, <1>7, <2>1, AtMostOne DEF SetupInv, bi_map_size
<1>8. /\ agAbort' \in {"none", "no setup pending", "pending size is 1"}
      /\ agAbort' = "pending size is 1" => stale'
      /\ agAbort' = "no setup pending" => setupRun' \in 1 .. Head(agIn').run - 1
    BY <1>4, <1>5, <1>6, <1>7, AgentAbort, DeleteFinds
<1>9. RicAbortsExplained'
  <2>1. RicAbortsExplained
    BY <1>1 DEF AbortsExplained
  <2>2. ricAbort' = ricAbort \/ ricAbort' = "E2 Node already exists" \/ stale'
    BY <1>1 DEF Outcome, OQuiet, OAbort, OStart, OResponse, OSubscribe, ODelete, OControl, ONotified,
           OTimer, OFree, ORicStart, ORegister, OReport, OAnswer, OEnd, ORequest, ODeleteRequest,
           Read, Turn, RicKept
  <2>. QED
    BY <1>2, <2>1, <2>2 DEF RicAbortsExplained
<1>. QED
    BY <1>3, <1>8, <1>9 DEF AbortsExplained, AgentAbortsExplained

-----------------------------------------------------------------------------
(* The theorems *)

LEMMA AgentInit == ASSUME Init PROVE AgentInv
<1>1. TypeOK
  <2>1. 0 \in Runs /\ 1 \in 1 .. MaxReq + 1
    BY AgentAssumption DEF Runs
  <2>2. born \in [Fds -> Runs] /\ setupRun \in Runs /\ ricRun \in Runs /\ ricNext \in 1 .. MaxReq + 1
    BY <2>1 DEF Init
  <2>3. rdl \in Seq(Fds \cup {SOCK}) /\ agIn \in Seq(ToAgent) /\ ricIn \in Seq(ToRic)
    BY DEF Init
  <2>4. /\ pending.left = {} /\ pending.right = {} /\ indEvent.left = {} /\ indEvent.right = {}
    BY DEF Init, bi_map_init
  <2>5. /\ apc = "init" /\ timers = {} /\ stopToken \in BOOLEAN /\ spc = "run"
        /\ ricUp \in BOOLEAN /\ linked \in BOOLEAN /\ ricReg \in BOOLEAN
        /\ ricPending = {} /\ ricMap = {} /\ ricSubs = {}
    BY DEF Init
  <2>. QED
    BY <2>2, <2>3, <2>4, <2>5 DEF TypeOK
<1>2. TimersInStep /\ ReadyOnce /\ PcInv
    BY DEF Init, TimersInStep, MapsMatchTimers, ReadyIsReal, Mirrored, FdsOf, bi_map_init, ReadyOnce,
           IsInjective, PcInv
<1>3. ToCome
  <2>1. ricRun = 0 /\ ~ricUp /\ timers = {} /\ agIn = <<>> /\ apc = "init"
    BY DEF Init
  <2>2. Cardinality(timers) = 0 /\ Count(agIn, Len(agIn), Creating) = 0
    BY <2>1, FS_EmptySet DEF Count
  <2>3. \A a, b \in Nat : (a - 0) * (b + 1) = a * b + a /\ a * b \in Nat
    OBVIOUS
  <2>4. 0 \in Runs
    BY AgentAssumption DEF Runs
  <2>. QED
    BY <2>1, <2>2, <2>3, <2>4, AgentAssumption DEF ToCome
<1>4. RunsInv /\ SetupInv /\ LinkInv /\ BornInv /\ ExpectedInv /\ OnceInv
  <2>1. 1 .. 1 - 1 = {}
    OBVIOUS
  <2>. QED
    BY <2>1 DEF Init, RunsInv, SetupInv, LinkInv, BornInv, ExpectedInv, OnceInv, AgentRuns, bi_map_init
<1>5. ClaimsInv
  <2>1. agIn = <<>> /\ indEvent.left = {} /\ ricSubs = {} /\ ricPending = {}
    BY DEF Init, bi_map_init
  <2>2. \A rid : Cardinality(TimersOf(rid)) = 0 /\ \A M : Count(agIn, 0, M) = 0
    BY <2>1, FS_EmptySet DEF TimersOf, Count
  <2>3. Len(agIn) = 0
    BY <2>1
  <2>. QED
    BY <2>1, <2>2, <2>3 DEF ClaimsInv
<1>6. AbortsExplained
  <2>1. bi_map_size(pending) = 0
    BY FS_EmptySet DEF Init, bi_map_size, bi_map_init
  <2>. QED
    BY <2>1 DEF Init, AbortsExplained, AgentAbortsExplained, RicAbortsExplained
<1>. QED
    BY <1>1, <1>2, <1>3, <1>4, <1>5, <1>6 DEF AgentInv

\* The inductive invariant holds for every number of runs, of requests of a run
\* and of messages that may wait.
THEOREM AgentInvariant == Spec => []AgentInv
<1>1. Init => AgentInv
    BY AgentInit
<1>2. AgentInv /\ [Next]_vars => AgentInv'
  <2>1. SUFFICES ASSUME AgentInv, [Next]_vars PROVE AgentInv'
    OBVIOUS
  <2>2. TypeOK' /\ MapsMatchTimers' /\ ReadyIsReal' /\ ReadyOnce' /\ PcInv' /\ ToCome' /\ RunsInv'
    BY <2>1, TypeStep, MapsStep, ReadyStep, PcStep, ToComeStep, RunsStep
  <2>3. SetupInv' /\ LinkInv' /\ BornInv' /\ ExpectedInv' /\ OnceInv' /\ ClaimsInv' /\ AbortsExplained'
    BY <2>1, SetupStep, LinkStep, BornStep, AwaitedStep, ClaimsStep, AbortsStep
  <2>. QED
    BY <2>2, <2>3 DEF AgentInv, TimersInStep
<1>. QED
    BY <1>1, <1>2, PTL DEF Spec

\* The state of the agent and of the RIC keeps its types; in particular there is
\* a descriptor for every timer that create_timer_ms_asio_agent is asked for.
THEOREM AgentTypes == Spec => []TypeOK
<1>1. AgentInv => TypeOK
    BY DEF AgentInv
<1>. QED
    BY <1>1, AgentInvariant, PTL

\* The bimaps, the open timers and epoll's ready list stay in step: the loop of
\* the agent never handles an event of a descriptor that was closed.
THEOREM TimersStayInStep == Spec => []TimersInStep
<1>1. AgentInv => TimersInStep
    BY DEF AgentInv
<1>. QED
    BY <1>1, AgentInvariant, PTL

\* The asserts that end the agent (pend_event, stop_ind_event, the setup
\* response) or a run of the RIC are reached only through a message or a timer
\* that outlived a run of the RIC.
THEOREM EndsExplained == Spec => []AbortsExplained
<1>1. AgentInv => AbortsExplained
    BY DEF AgentInv
<1>. QED
    BY <1>1, AgentInvariant, PTL

=============================================================================

----------------------------- MODULE XAppProofs -----------------------------
(* Proofs about XApp, for every number of calls, indications and handles and *)
(* every interleaving of the threads with the RIC.                           *)
EXTENDS XApp, SequenceTheorems, TLAPS

-----------------------------------------------------------------------------
(* Queues *)

\* What a send does to a queue: one more element, at the end.
LEMMA QueueAppend ==
    ASSUME NEW S, NEW s \in Seq(S), NEW e \in S
    PROVE  /\ Append(s, e) \in Seq(S) /\ Range(Append(s, e)) = Range(s) \cup {e}
           /\ \A a : Once(s, a) /\ (a # e \/ a \notin Range(s)) => Once(Append(s, e), a)
           /\ \A a, b : Before(s, a, b) /\ a # e => Before(Append(s, e), a, b)
           /\ \A a : a # e => Before(Append(s, e), a, e)
<1>. DEFINE t == Append(s, e)
<1>1. t \in Seq(S) /\ Len(t) = Len(s) + 1 /\ Len(s) \in Nat
    OBVIOUS
<1>2. DOMAIN t = 1 .. Len(s) + 1 /\ DOMAIN s = 1 .. Len(s)
    BY <1>1
<1>3. (\A i \in DOMAIN s : t[i] = s[i]) /\ t[Len(s) + 1] = e
    OBVIOUS
<1>. HIDE DEF t
<1>4. DOMAIN t = DOMAIN s \cup {Len(s) + 1} /\ \A i \in DOMAIN s : i < Len(s) + 1
    BY <1>1, <1>2
<1>5. Range(t) = Range(s) \cup {e}
    BY <1>3, <1>4 DEF Range
<1>6. ASSUME NEW a, Once(s, a), a # e \/ a \notin Range(s) PROVE Once(t, a)
    BY <1>3, <1>4, <1>6 DEF Once, Range
<1>7. ASSUME NEW a, NEW b, Before(s, a, b), a # e PROVE Before(t, a, b)
    BY <1>3, <1>4, <1>7 DEF Before
<1>8. ASSUME NEW a, a # e PROVE Before(t, a, e)
    BY <1>3, <1>4, <1>8 DEF Before
<1>. QED
    BY <1>1, <1>5, <1>6, <1>7, <1>8 DEF t

\* What a receive does to a queue: its first element is gone.
LEMMA QueueTail ==
    ASSUME NEW S, NEW s \in Seq(S), s # <<>>
    PROVE  /\ Head(s) \in S /\ Tail(s) \in Seq(S)
           /\ Range(s) = {Head(s)} \cup Range(Tail(s))
           /\ \A a : Once(s, a) => Once(Tail(s), a) /\ (Head(s) = a => a \notin Range(Tail(s)))
           /\ \A a, b : Before(s, a, b) => Before(Tail(s), a, b)
           /\ \A a, b : Before(s, a, b) /\ Head(s) = a => b \in Range(Tail(s))
<1>. DEFINE t == Tail(s)
            n == Len(s)
<1>1. n \in Nat \ {0} /\ DOMAIN s = 1 .. n /\ Head(s) = s[1] /\ Head(s) \in S
    OBVIOUS
<1>2. t \in Seq(S) /\ Len(t) = n - 1
    OBVIOUS
<1>3. \A i \in 1 .. n - 1 : t[i] = s[i + 1]
    OBVIOUS
<1>4. DOMAIN t = 1 .. n - 1
    BY <1>1, <1>2
<1>. HIDE DEF t, n
<1>5. \A i \in DOMAIN t : i + 1 \in DOMAIN s /\ t[i] = s[i + 1] /\ i \in Nat /\ i >= 1
    BY <1>1, <1>3, <1>4
<1>6. \A j \in DOMAIN s : j \in Nat /\ (j = 1 \/ (j - 1 \in DOMAIN t /\ t[j - 1] = s[j] /\ j > 1))
    BY <1>1, <1>3, <1>4
<1>7. 1 \in DOMAIN s
    BY <1>1
<1>8. Range(s) = {Head(s)} \cup Range(t)
    BY <1>1, <1>5, <1>6, <1>7 DEF Range
<1>9. ASSUME NEW a, Once(s, a) PROVE Once(t, a) /\ (Head(s) = a => a \notin Range(t))
  <2>1. Once(t, a)
    BY <1>5, <1>9 DEF Once
  <2>2. Head(s) = a => a \notin Range(t)
    BY <1>1, <1>5, <1>7, <1>9 DEF Once, Range
  <2>. QED
    BY <2>1, <2>2
<1>10. ASSUME NEW a, NEW b, Before(s, a, b) PROVE Before(t, a, b)
  <2>. SUFFICES ASSUME NEW i \in DOMAIN t, t[i] = a PROVE \E j \in DOMAIN t : i < j /\ t[j] = b
    BY DEF Before
  <2>1. PICK j \in DOMAIN s : i + 1 < j /\ s[j] = b
    BY <1>5, <1>10 DEF Before
  <2>2. j - 1 \in DOMAIN t /\ t[j - 1] = b /\ i < j - 1
    BY <1>5, <1>6, <2>1
  <2>. QED
    BY <2>2
<1>11. ASSUME NEW a, NEW b, Before(s, a, b), Head(s) = a PROVE b \in Range(t)
  <2>1. PICK j \in DOMAIN s : 1 < j /\ s[j] = b
    BY <1>1, <1>7, <1>11 DEF Before
  <2>. QED
    BY <1>6, <2>1 DEF Range
<1>. QED
    BY <1>1, <1>2, <1>8, <1>9, <1>10, <1>11 DEF t

\* Without a b in the queue there is no a that must precede it.
LEMMA BeforeNone ==
    ASSUME NEW s, NEW a, NEW b, Before(s, a, b), b \notin Range(s)
    PROVE  a \notin Range(s)
    BY DEF Before, Range

-----------------------------------------------------------------------------
(* The invariant *)

\* What is not in a queue is there at most once.
LEMMA NoneOnce == ASSUME NEW s, NEW e, e \notin Range(s) PROVE Once(s, e)
    BY DEF Once, Range

\* What the type of a message, or the event of a request, says of its fields.
LEMMA Kinds ==
    /\ \A m \in Answers :
         /\ m.type \in {"ANSWER", "SETUP_RESP", "IND"}
         /\ m.type = "ANSWER" => m = AnswerOf(m) /\ m.ev \in Calls /\ m.h \in Nat
         /\ m.type = "IND" => m = Ind(m.h) /\ m.h \in Nat
         /\ m.type = "SETUP_RESP" => m = [type |-> "SETUP_RESP"]
    /\ \A m \in Requests :
         /\ m.ev = "SETUP" => m = [ev |-> "SETUP"]
         /\ m.ev # "SETUP" => m \in [ev : Calls, h : Nat]
    BY DEF Answers, Requests, Calls, AnswerOf, Ind

\* A call that is not waiting for an answer has nothing under way: the next
\* request is the only one.
LEMMA NothingUnderWay ==
    ASSUME XAppInv, ~InFlight
    PROVE  /\ \A m \in Range(toRic) : m.ev = "SETUP"
           /\ \A m \in Range(xIn) : m.type # "ANSWER"
           /\ \A o : o.ev # "SETUP" => ~Unanswered(o) /\ Once(toRic, o) /\ Once(xIn, AnswerOf(o))
<1>1. /\ \A m \in Range(toRic) : m.ev = "SETUP"
      /\ \A m \in Range(xIn) : m.type # "ANSWER"
    BY DEF XAppInv, FlightInv
<1>2. ASSUME NEW o, o.ev # "SETUP"
      PROVE  ~Unanswered(o) /\ Once(toRic, o) /\ Once(xIn, AnswerOf(o))
  <2>1. o \notin Range(toRic) /\ AnswerOf(o) \notin Range(xIn)
    BY <1>1, <1>2 DEF AnswerOf
  <2>. QED
    BY <2>1, NoneOnce DEF Unanswered, AnswerOf
<1>. QED
    BY <1>1, <1>2

\* A failed assert changes nothing but died, which must be explained.
LEMMA DieKeeps ==
    ASSUME XAppInv, NEW why, Die(why), DeathsExplained'
    PROVE  XAppInv'
<1>. USE DEF Die, XAppInv, xstate, user, loop, ric
<1>1. TypeOK'
    BY DEF TypeOK
<1>2. ProcInv'
    BY DEF ProcInv, InCall, Subscribed
<1>3. FlightInv'
    BY DEF FlightInv, InFlight, Unanswered
<1>4. TimerInv'
    BY DEF TimerInv, Unanswered
<1>5. IndInv'
    BY DEF IndInv, InFlight, Subscribed
<1>6. SetupInv' /\ StopInv'
    BY DEF SetupInv, StopInv
<1>. QED
    BY <1>1, <1>2, <1>3, <1>4, <1>5, <1>6

-----------------------------------------------------------------------------
(* The user's thread *)

\* A new call: a fresh handle, and nothing of an earlier call under way.
LEMMA RequestKeeps ==
    ASSUME XAppInv, NEW ev \in {"SUB", "CTRL"}, UserRequest(ev)
    PROVE  XAppInv'
<1>. USE DEF XAppInv
<1>1. CASE ~(key < KeySpace)
  <2>1. Die("Overflow detected")
    BY <1>1 DEF UserRequest
  <2>2. key = KeySpace
    <3>1. key \in Nat /\ key <= KeySpace /\ KeySpace \in Nat
      BY XAppAssumption DEF XAppAssumption, TypeOK, ProcInv
    <3>. QED
      BY <1>1, <3>1
  <2>3. DeathsExplained'
    BY <2>1, <2>2 DEF DeathsExplained, Die, xstate, Up
  <2>. QED
    BY <2>1, <2>3, DieKeeps
<1>2. CASE key < KeySpace
  <2>. DEFINE p == [ev |-> ev, h |-> key]
  <2>0. /\ upc = "idle" /\ upc' = "send" /\ op' = p /\ act' = act \cup {p} /\ key' = key + 1
        /\ key \in Nat /\ died' = died /\ Up
        /\ UNCHANGED <<connected, pend, flag, stopToken, q, qStop, lpc, lmsg, wpc, xIn,
                       toRic, subs, inds, resent>>
    BY <1>2 DEF UserRequest, TypeOK, loop, ric
  <2>n. /\ \A m \in Range(toRic) : m.ev = "SETUP"
        /\ \A m \in Range(xIn) : m.type # "ANSWER"
        /\ ~Unanswered(p) /\ Once(toRic, p) /\ Once(xIn, AnswerOf(p))
    BY <2>0, NothingUnderWay DEF InFlight
  <2>1. TypeOK'
    <3>1. p \in [ev : Calls, h : Nat] /\ p \in [h : Nat, ev : {"SUB", "CTRL"}]
      BY <2>0 DEF Calls
    <3>2. upc' \in {"send"} /\ key' \in Nat /\ op' \in [ev : Calls, h : Nat]
      BY <2>0, <3>1
    <3>. QED
      BY <2>0, <3>1, <3>2 DEF TypeOK
  <2>2. ProcInv'
    BY <1>2, <2>0, XAppAssumption DEF XAppAssumption, ProcInv, InCall, Subscribed, TypeOK, Calls
  <2>3. FlightInv'
    <3>1. lpc \notin {"rm_pend", "signal"}
      BY <2>0 DEF FlightInv, InFlight
    <3>. QED
      BY <2>0, <2>n, <3>1 DEF FlightInv, InFlight, Unanswered
  <2>4. TimerInv'
    BY <2>0 DEF TimerInv
  <2>5. IndInv'
    BY <2>0 DEF IndInv, Subscribed, InFlight
  <2>6. SetupInv' /\ StopInv'
    BY <2>0 DEF SetupInv, StopInv
  <2>7. DeathsExplained'
    BY <2>0 DEF DeathsExplained, Up
  <2>. QED
    BY <2>1, <2>2, <2>3, <2>4, <2>5, <2>6, <2>7
<1>. QED
    BY <1>1, <1>2

\* A delete names a procedure that stays registered until it returns.
LEMMA UnsubscribeKeeps ==
    ASSUME XAppInv, UserUnsubscribe
    PROVE  XAppInv'
<1>. USE DEF XAppInv
<1>1. PICK p \in act : p.ev = "SUB" /\ op' = [ev |-> "DEL", h |-> p.h]
    BY DEF UserUnsubscribe
<1>2. /\ Up /\ upc = "idle" /\ upc' = "send" /\ died' = died
      /\ UNCHANGED <<xstate, lpc, lmsg, wpc, xIn, toRic, subs, inds, resent>>
    BY DEF UserUnsubscribe, loop, ric
<1>3. p.h \in Nat /\ Subscribed(p.h) /\ op' \in [ev : Calls, h : Nat]
    BY <1>1 DEF TypeOK, Subscribed, Calls
<1>n. /\ \A m \in Range(toRic) : m.ev = "SETUP"
      /\ \A m \in Range(xIn) : m.type # "ANSWER"
      /\ ~Unanswered(op') /\ Once(toRic, op') /\ Once(xIn, AnswerOf(op'))
    BY <1>1, <1>2, NothingUnderWay DEF InFlight
<1>4. TypeOK'
    BY <1>2, <1>3 DEF TypeOK, xstate
<1>5. ProcInv'
    BY <1>1, <1>2, <1>3 DEF ProcInv, InCall, Subscribed, xstate
<1>6. FlightInv'
  <2>1. lpc \notin {"rm_pend", "signal"}
    BY <1>2 DEF FlightInv, InFlight
  <2>. QED
    BY <1>2, <1>n, <2>1 DEF FlightInv, InFlight, Unanswered
<1>7. TimerInv' /\ IndInv' /\ SetupInv' /\ StopInv'
    BY <1>2 DEF TimerInv, IndInv, SetupInv, StopInv, InFlight, Subscribed, xstate
<1>8. DeathsExplained'
    BY <1>2 DEF DeathsExplained, Up
<1>. QED
    BY <1>4, <1>5, <1>6, <1>7, <1>8

\* The request leaves: the only one under way.
LEMMA SendKeeps ==
    ASSUME XAppInv, UserSend
    PROVE  XAppInv'
<1>. USE DEF XAppInv
<1>1. /\ Up /\ upc = "send" /\ upc' = "arm" /\ died' = died /\ toRic' = Append(toRic, op)
      /\ UNCHANGED <<xstate, op, lpc, lmsg, wpc, xIn, subs, inds, resent>>
    BY DEF UserSend, loop
<1>2. op \in [ev : Calls, h : Nat] /\ op \in Requests /\ op.ev # "SETUP"
    BY <1>1 DEF ProcInv, InCall, Requests, Calls
<1>3. toRic \in Seq(Requests)
    BY DEF TypeOK
<1>n. /\ \A m \in Range(toRic) : m.ev = "SETUP"
      /\ \A m \in Range(xIn) : m.type # "ANSWER"
      /\ ~Unanswered(op) /\ Once(toRic, op) /\ Once(xIn, AnswerOf(op))
    BY <1>1, <1>2, NothingUnderWay DEF InFlight
<1>4. /\ toRic' \in Seq(Requests) /\ Range(toRic') = Range(toRic) \cup {op} /\ Once(toRic', op)
      /\ Once(toRic, [ev |-> "SETUP"]) => Once(toRic', [ev |-> "SETUP"])
    BY <1>1, <1>2, <1>3, <1>n, QueueAppend DEF Unanswered
<1>5. TypeOK'
    BY <1>1, <1>4 DEF TypeOK, xstate
<1>6. ProcInv'
    BY <1>1, <1>2 DEF ProcInv, InCall, Subscribed, xstate
<1>7. FlightInv'
  <2>1. lpc \notin {"rm_pend", "signal"}
    BY <1>1 DEF FlightInv, InFlight
  <2>2. AnswerOf(op) \notin Range(xIn)
    BY <1>n DEF AnswerOf
  <2>. QED
    BY <1>1, <1>4, <1>n, <2>1, <2>2 DEF FlightInv, InFlight
<1>8. TimerInv'
    BY <1>1, <1>4 DEF TimerInv, Unanswered, xstate
<1>9. IndInv'
    BY <1>1, <1>4 DEF IndInv, Subscribed, xstate
<1>10. SetupInv' /\ StopInv'
    BY <1>1, <1>2, <1>4 DEF SetupInv, StopInv, xstate
<1>11. DeathsExplained'
    BY <1>1 DEF DeathsExplained, Up
<1>. QED
    BY <1>5, <1>6, <1>7, <1>8, <1>9, <1>10, <1>11

\* add_pending_event_xapp, while the answer may already be at the loop.
LEMMA ArmKeeps ==
    ASSUME XAppInv, UserArm
    PROVE  XAppInv'
<1>. USE DEF XAppInv
<1>1. /\ Up /\ upc = "arm" /\ upc' = "enter" /\ died' = died /\ pend' = pend \cup {op.ev}
      /\ UNCHANGED <<connected, act, key, flag, stopToken, q, qStop, op, lpc, lmsg, wpc, xIn,
                     toRic, subs, inds, resent>>
    BY DEF UserArm, loop, ric
<1>2. op \in [ev : Calls, h : Nat]
    BY <1>1 DEF ProcInv, InCall
<1>3. TypeOK'
  <2>1. pend' \subseteq Events
    BY <1>1, <1>2 DEF TypeOK, Events
  <2>. QED
    BY <1>1, <2>1 DEF TypeOK
<1>4. ProcInv'
    BY <1>1 DEF ProcInv, InCall, Subscribed
<1>5. FlightInv'
    BY <1>1 DEF FlightInv, InFlight, Unanswered
<1>6. TimerInv'
    BY <1>1, <1>2 DEF TimerInv, Unanswered, Calls
<1>7. IndInv'
    BY <1>1 DEF IndInv, InFlight, Subscribed
<1>8. SetupInv' /\ StopInv' /\ DeathsExplained'
    BY <1>1 DEF SetupInv, StopInv, DeathsExplained, Up
<1>. QED
    BY <1>3, <1>4, <1>5, <1>6, <1>7, <1>8

\* cond_wait_sync_ui clears the flag: what it is raised for next is this call.
LEMMA EnterKeeps ==
    ASSUME XAppInv, UserEnter
    PROVE  XAppInv'
<1>. USE DEF XAppInv
<1>1. /\ Up /\ upc = "enter" /\ upc' = "wait" /\ died' = died /\ flag' = FALSE
      /\ UNCHANGED <<connected, act, key, pend, stopToken, q, qStop, op, lpc, lmsg, wpc, xIn,
                     toRic, subs, inds, resent>>
    BY DEF UserEnter, loop, ric
<1>2. TypeOK'
  <2>1. flag' \in BOOLEAN
    BY <1>1
  <2>. QED
    BY <1>1, <2>1 DEF TypeOK
<1>3. ProcInv'
    BY <1>1 DEF ProcInv, InCall, Subscribed
<1>4. FlightInv'
    BY <1>1 DEF FlightInv, InFlight, Unanswered
<1>5. TimerInv'
    BY <1>1 DEF TimerInv, Unanswered
<1>6. IndInv'
    BY <1>1 DEF IndInv, InFlight, Subscribed
<1>7. SetupInv' /\ StopInv' /\ DeathsExplained'
    BY <1>1 DEF SetupInv, StopInv, DeathsExplained, Up
<1>. QED
    BY <1>2, <1>3, <1>4, <1>5, <1>6, <1>7

\* The user's thread wakes: its answer has been handled.
LEMMA WokenKeeps ==
    ASSUME XAppInv, UserWoken
    PROVE  XAppInv'
<1>. USE DEF XAppInv
<1>1. /\ Up /\ upc = "wait" /\ flag /\ upc' = "woken" /\ died' = died
      /\ UNCHANGED <<xstate, op, lpc, lmsg, wpc, xIn, toRic, subs, inds, resent>>
    BY DEF UserWoken, loop, ric
<1>2. ~Unanswered(op) /\ lpc \notin {"rm_pend", "signal"}
    BY <1>1 DEF TimerInv
<1>3. TypeOK'
    BY <1>1 DEF TypeOK, xstate
<1>4. ProcInv'
    BY <1>1 DEF ProcInv, InCall, Subscribed, xstate
<1>5. FlightInv'
  <2>1. /\ \A m \in Range(toRic) : m.ev = "SETUP"
        /\ \A m \in Range(xIn) : m.type # "ANSWER"
    BY <1>2 DEF FlightInv, Unanswered, AnswerOf
  <2>. QED
    BY <1>1, <1>2, <2>1 DEF FlightInv
<1>6. TimerInv'
    BY <1>1, <1>2 DEF TimerInv, Unanswered, xstate
<1>7. IndInv'
    BY <1>1 DEF IndInv, InFlight, Subscribed, xstate
<1>8. SetupInv' /\ StopInv' /\ DeathsExplained'
    BY <1>1 DEF SetupInv, StopInv, DeathsExplained, Up, xstate
<1>. QED
    BY <1>3, <1>4, <1>5, <1>6, <1>7, <1>8

\* The six seconds are over: the timer is gone, so the answer was handled.
LEMMA TimeoutKeeps ==
    ASSUME XAppInv, UserTimeout
    PROVE  XAppInv'
<1>. USE DEF XAppInv
<1>1. /\ upc = "wait" /\ op.ev \notin pend
      /\ Die("No response from the E2 Node, and neither from epoll")
    BY DEF UserTimeout
<1>2. ~Unanswered(op)
    BY <1>1 DEF TimerInv
<1>3. DeathsExplained'
    BY <1>1, <1>2 DEF DeathsExplained, Die, Up, Unanswered, user, ric
<1>. QED
    BY <1>1, <1>3, DieKeeps

\* The call returns.  A delete takes its subscription out of the registry when
\* nothing of it is left: not at the RIC, not in the socket, not in the loop.
LEMMA ReturnKeeps ==
    ASSUME XAppInv, UserReturn
    PROVE  XAppInv'
<1>. USE DEF XAppInv
<1>1. /\ Up /\ upc = "woken" /\ upc' = "idle" /\ died' = died /\ op' = NoOp
      /\ act' = IF op.ev = "SUB" THEN act ELSE {p \in act : p.h # op.h}
      /\ UNCHANGED <<connected, key, pend, flag, stopToken, q, qStop, lpc, lmsg, wpc, xIn,
                     toRic, subs, inds, resent>>
    BY DEF UserReturn, loop, ric
<1>2. ~Unanswered(op) /\ lpc \notin {"rm_pend", "signal"} /\ op \in [ev : Calls, h : Nat]
    BY <1>1 DEF TimerInv, ProcInv, InCall
<1>3. act' \subseteq act
    BY <1>1
<1>n. /\ \A m \in Range(toRic) : m.ev = "SETUP"
      /\ \A m \in Range(xIn) : m.type # "ANSWER"
      /\ ~Unanswered(op') /\ Once(toRic, op') /\ Once(xIn, AnswerOf(op'))
    BY <1>1, NothingUnderWay DEF InFlight, NoOp
<1>4. TypeOK'
    BY <1>1, <1>3 DEF TypeOK
<1>5. ProcInv'
    BY <1>1, <1>3 DEF ProcInv, InCall
<1>6. FlightInv'
    BY <1>1, <1>2, <1>n DEF FlightInv, Unanswered
<1>7. TimerInv'
    BY <1>1, <1>2 DEF TimerInv
<1>8. IndInv'
  <2>1. ASSUME NEW h, Subscribed(h), op.ev = "DEL" => h # op.h PROVE Subscribed(h)'
    <3>1. op.ev = "SUB" \/ h # op.h
      BY <2>1, <1>1, <1>2 DEF ProcInv, InCall, Subscribed, Calls
    <3>. QED
      BY <1>1, <2>1, <3>1 DEF Subscribed
  <2>2. op.ev = "DEL" => /\ op.h \notin subs /\ Before(xIn, Ind(op.h), AnswerOf(op))
                         /\ ~(lpc \in {"write_db", "dispatch"} /\ lmsg.h = op.h)
    BY <1>1, <1>2 DEF IndInv, Unanswered, AnswerOf
  <2>3. op.ev = "DEL" => Ind(op.h) \notin Range(xIn)
    BY <1>2, <2>2, BeforeNone DEF Unanswered, AnswerOf
  <2>4. ASSUME NEW h \in subs PROVE Subscribed(h)'
    <3>1. Subscribed(h) /\ (op.ev = "DEL" => h # op.h)
      BY <2>2 DEF IndInv
    <3>. QED
      BY <2>1, <3>1
  <2>5. \A m \in Range(xIn) : m.type = "IND" => Subscribed(m.h)'
    <3>1. \A m \in Range(xIn) : m \in Answers
      BY DEF TypeOK, Range
    <3>. QED
      BY <2>1, <2>3, <3>1, Kinds DEF IndInv
  <2>6. lpc \in {"write_db", "dispatch"} =>
          lmsg.type = "IND" /\ lmsg = Ind(lmsg.h) /\ Subscribed(lmsg.h)'
    BY <1>1, <2>1, <2>2 DEF IndInv
  <2>. QED
    BY <1>1, <2>4, <2>5, <2>6 DEF IndInv, Subscribed, NoOp
<1>9. SetupInv' /\ StopInv' /\ DeathsExplained'
    BY <1>1 DEF SetupInv, StopInv, DeathsExplained, Up
<1>. QED
    BY <1>4, <1>5, <1>6, <1>7, <1>8, <1>9

\* init_xapp_api has connected; try_stop_xapp_api and free_e42_xapp.
LEMMA LifeKeeps ==
    ASSUME XAppInv,
           UserConnected \/ UserStop \/ UserStopToken \/ UserFree \/ UserFreeDispatcher
           \/ UserFreeDb
    PROVE  XAppInv'
<1>. USE DEF XAppInv
<1>1. /\ Up /\ died' = died /\ ~InCall /\ ~InCall'
      /\ UNCHANGED <<connected, act, key, pend, flag, op, lpc, lmsg, wpc, xIn, toRic, subs,
                     inds, resent>>
    BY DEF UserConnected, UserStop, UserStopToken, UserFree, UserFreeDispatcher, UserFreeDb,
       InCall, xstate, loop, ric
<1>2. TypeOK'
  <2>1. stopToken' = stopToken \/ stopToken' = TRUE
    BY DEF UserConnected, UserStop, UserStopToken, UserFree, UserFreeDispatcher,
       UserFreeDb, xstate
  <2>0. \E k \in Queues : qStop' = qStop \/ qStop' = [qStop EXCEPT ![k] = TRUE]
    BY DEF UserConnected, UserStop, UserStopToken, UserFree, UserFreeDispatcher,
       UserFreeDb, xstate, Queues
  <2>4. stopToken' \in BOOLEAN
    BY <2>1 DEF TypeOK
  <2>5. qStop' \in [Queues -> BOOLEAN]
    BY <2>0 DEF TypeOK
  <2>6. \E k \in Queues : q' = q \/ q' = [q EXCEPT ![k] = <<>>]
    BY DEF UserConnected, UserStop, UserStopToken, UserFree, UserFreeDispatcher,
       UserFreeDb, xstate, Queues
  <2>2. q' \in [Queues -> Seq(Nat)]
    <3>1. <<>> \in Seq(Nat)
      OBVIOUS
    <3>. QED
      BY <2>6, <3>1 DEF TypeOK
  <2>3. upc' \in {"idle", "stop_token", "stop_loop", "join_disp", "join_db", "freed"}
    BY DEF UserConnected, UserStop, UserStopToken, UserFree, UserFreeDispatcher, UserFreeDb
  <2>. QED
    BY <1>1, <2>2, <2>3, <2>4, <2>5 DEF TypeOK
<1>3. ProcInv'
    BY <1>1 DEF ProcInv, Subscribed
<1>4. FlightInv'
    BY <1>1 DEF FlightInv, InCall, InFlight, Unanswered
<1>5. TimerInv'
    BY <1>1 DEF TimerInv, InCall
<1>6. IndInv'
    BY <1>1 DEF IndInv, InCall, InFlight, Subscribed
<1>7. SetupInv' /\ DeathsExplained'
    BY <1>1 DEF SetupInv, DeathsExplained, Up
<1>8. StopInv'
    BY <1>1 DEF StopInv, UserConnected, UserStop, UserStopToken, UserFree, UserFreeDispatcher,
       UserFreeDb
<1>. QED
    BY <1>2, <1>3, <1>4, <1>5, <1>6, <1>7, <1>8

-----------------------------------------------------------------------------
(* The event loop *)

\* The queues after a setup request is appended to toRic.
LEMMA SetupSent ==
    ASSUME XAppInv, toRic' = Append(toRic, [ev |-> "SETUP"])
    PROVE  /\ toRic' \in Seq(Requests) /\ Range(toRic') = Range(toRic) \cup {[ev |-> "SETUP"]}
           /\ Once(toRic', op)
           /\ [ev |-> "SETUP"] \notin Range(toRic) => Once(toRic', [ev |-> "SETUP"])
           /\ op # [ev |-> "SETUP"]
<1>1. toRic \in Seq(Requests) /\ [ev |-> "SETUP"] \in Requests
    BY DEF XAppInv, TypeOK, Requests
<1>2. op.ev # "SETUP" /\ Once(toRic, op)
    BY DEF XAppInv, TypeOK, FlightInv, NoOp, Calls
<1>. QED
    BY <1>1, <1>2, QueueAppend, NoneOnce

\* start_e42_xapp sends the first setup request.
LEMMA StartKeeps ==
    ASSUME XAppInv, LoopStart
    PROVE  XAppInv'
<1>. USE DEF XAppInv
<1>1. /\ Up /\ lpc = "start" /\ lpc' = "top" /\ died' = died
      /\ toRic' = Append(toRic, [ev |-> "SETUP"]) /\ pend' = pend \cup {"SETUP"}
      /\ UNCHANGED <<connected, act, key, flag, stopToken, q, qStop, upc, op, lmsg, wpc, xIn,
                     subs, inds, resent>>
    BY DEF LoopStart, user
<1>2. /\ toRic' \in Seq(Requests) /\ Range(toRic') = Range(toRic) \cup {[ev |-> "SETUP"]}
      /\ Once(toRic', op) /\ op # [ev |-> "SETUP"]
      /\ [ev |-> "SETUP"] \notin Range(toRic) => Once(toRic', [ev |-> "SETUP"])
    BY <1>1, SetupSent
<1>3. Unanswered(op)' <=> Unanswered(op)
    BY <1>1, <1>2 DEF Unanswered
<1>4. TypeOK'
    BY <1>1, <1>2 DEF TypeOK, Events
<1>5. ProcInv'
    BY <1>1 DEF ProcInv, InCall, Subscribed
<1>6. FlightInv'
    BY <1>1, <1>2, <1>3 DEF FlightInv, InFlight
<1>7. TimerInv'
    BY <1>1, <1>3 DEF TimerInv
<1>8. IndInv'
    BY <1>1, <1>2 DEF IndInv, InFlight, Subscribed
<1>9. SetupInv' /\ StopInv' /\ DeathsExplained'
    BY <1>1, <1>2 DEF SetupInv, StopInv, DeathsExplained, Up
<1>. QED
    BY <1>4, <1>5, <1>6, <1>7, <1>8, <1>9

\* A timer expires: the setup is sent again, or the process ends while the
\* answer has not been handled.
LEMMA TimerKeeps ==
    ASSUME XAppInv, NEW ev \in Events, LoopTimer(ev)
    PROVE  XAppInv'
<1>. USE DEF XAppInv
<1>1. CASE ev # "SETUP" /\ Die("Timeout waiting for an answer")
  <2>1. ev \in pend /\ lpc = "poll"
    BY DEF LoopTimer
  <2>0. ev \in pend \ {"SETUP"}
    BY <1>1, <2>1
  <2>4. op.ev = ev /\ (Unanswered(op) \/ lpc = "rm_pend")
    BY <2>0 DEF TimerInv
  <2>2. op.ev \in pend /\ Unanswered(op)
    BY <2>1, <2>4
  <2>3. DeathsExplained'
    BY <1>1, <2>2 DEF DeathsExplained, Die, Up, Unanswered, xstate, user, ric
  <2>. QED
    BY <1>1, <2>3, DieKeeps
<1>2. CASE ~(ev # "SETUP" /\ Die("Timeout waiting for an answer"))
  <2>1. /\ Up /\ lpc = "poll" /\ lpc' = "top" /\ died' = died
        /\ toRic' = Append(toRic, [ev |-> "SETUP"]) /\ resent' = resent + 1
        /\ UNCHANGED <<xstate, upc, op, lmsg, wpc, xIn, subs, inds>>
    BY <1>2 DEF LoopTimer, user
  <2>2. /\ toRic' \in Seq(Requests) /\ Range(toRic') = Range(toRic) \cup {[ev |-> "SETUP"]}
        /\ Once(toRic', op) /\ op # [ev |-> "SETUP"]
    BY <2>1, SetupSent
  <2>3. Unanswered(op)' <=> Unanswered(op)
    BY <2>1, <2>2 DEF Unanswered
  <2>4. TypeOK'
    BY <2>1, <2>2 DEF TypeOK, xstate
  <2>5. ProcInv'
    BY <2>1 DEF ProcInv, InCall, Subscribed, xstate
  <2>6. FlightInv'
    BY <2>1, <2>2, <2>3 DEF FlightInv, InFlight
  <2>7. TimerInv'
    BY <2>1, <2>3 DEF TimerInv, xstate
  <2>8. IndInv'
    BY <2>1, <2>2 DEF IndInv, InFlight, Subscribed, xstate
  <2>9. SetupInv'
    BY <2>1 DEF SetupInv, TypeOK
  <2>10. StopInv' /\ DeathsExplained'
    BY <2>1 DEF StopInv, DeathsExplained, Up
  <2>. QED
    BY <2>4, <2>5, <2>6, <2>7, <2>8, <2>9, <2>10
<1>. QED
    BY <1>1, <1>2

\* The loop goes round, or ends.
LEMMA TopKeeps ==
    ASSUME XAppInv, LoopTop \/ LoopNoEvent
    PROVE  XAppInv'
<1>. USE DEF XAppInv
<1>1. /\ Up /\ lpc \in {"top", "poll"} /\ lpc' \in {"top", "poll", "stopped"} /\ died' = died
      /\ UNCHANGED <<xstate, upc, op, lmsg, wpc, xIn, toRic, subs, inds, resent>>
    BY DEF LoopTop, LoopNoEvent, user, ric
<1>2. TypeOK'
    BY <1>1 DEF TypeOK, xstate
<1>3. ProcInv'
    BY <1>1 DEF ProcInv, InCall, Subscribed, xstate
<1>4. FlightInv'
    BY <1>1 DEF FlightInv, InFlight, Unanswered
<1>5. TimerInv'
    BY <1>1 DEF TimerInv, Unanswered, xstate
<1>6. IndInv'
    BY <1>1 DEF IndInv, InFlight, Subscribed, xstate
<1>7. SetupInv' /\ DeathsExplained'
    BY <1>1 DEF SetupInv, DeathsExplained, Up, xstate
<1>8. StopInv'
    BY <1>1 DEF StopInv
<1>. QED
    BY <1>2, <1>3, <1>4, <1>5, <1>6, <1>7, <1>8

\* The queue a message is received from.
LEMMA Received ==
    ASSUME XAppInv, xIn # <<>>
    PROVE  /\ Head(xIn) \in Answers /\ Head(xIn) \in Range(xIn) /\ Tail(xIn) \in Seq(Answers)
           /\ Range(xIn) = {Head(xIn)} \cup Range(Tail(xIn))
           /\ \A a : Once(xIn, a) =>
                Once(Tail(xIn), a) /\ (Head(xIn) = a => a \notin Range(Tail(xIn)))
           /\ \A a, b : Before(xIn, a, b) => Before(Tail(xIn), a, b)
           /\ \A a, b : Before(xIn, a, b) /\ Head(xIn) = a => b \in Range(Tail(xIn))
<1>1. xIn \in Seq(Answers)
    BY DEF XAppInv, TypeOK
<1>. QED
    BY <1>1, QueueTail

\* e2ap_handle_e42_setup_response_xapp
LEMMA SetupResponseKeeps ==
    ASSUME XAppInv, LoopSetupResponse
    PROVE  XAppInv'
<1>. USE DEF XAppInv
<1>. DEFINE resp == [type |-> "SETUP_RESP"]
<1>0. Up /\ lpc = "poll" /\ xIn # <<>> /\ Head(xIn).type = "SETUP_RESP"
    BY DEF LoopSetupResponse, Receives
<1>r. /\ Head(xIn) \in Answers /\ Head(xIn) \in Range(xIn) /\ Tail(xIn) \in Seq(Answers)
      /\ Range(xIn) = {Head(xIn)} \cup Range(Tail(xIn))
      /\ \A a : Once(xIn, a) =>
           Once(Tail(xIn), a) /\ (Head(xIn) = a => a \notin Range(Tail(xIn)))
      /\ \A a, b : Before(xIn, a, b) => Before(Tail(xIn), a, b)
    BY <1>0, Received
<1>h. Head(xIn) = resp
    BY <1>0, <1>r, Kinds
<1>1. CASE connected
  <2>1. Die("connected == false")
    BY <1>1 DEF LoopSetupResponse
  <2>0. resent # 0
    BY <1>1, <1>r, <1>h DEF SetupInv
  <2>2. resent > 0
    BY <2>0 DEF TypeOK
  <2>3. DeathsExplained'
    BY <2>1, <2>2 DEF DeathsExplained, Die, Up
  <2>. QED
    BY <2>1, <2>3, DieKeeps
<1>2. CASE ~connected
  <2>1. /\ connected' = TRUE /\ pend' = pend \ {"SETUP"} /\ lpc' = "top" /\ xIn' = Tail(xIn)
        /\ died' = died
        /\ UNCHANGED <<act, key, flag, stopToken, q, qStop, upc, op, lmsg, wpc, toRic, subs,
                       inds, resent>>
    BY <1>2 DEF LoopSetupResponse, user, ric
  <2>2. AnswerOf(op) # resp
    BY DEF AnswerOf
  <2>3. Unanswered(op)' <=> Unanswered(op)
    BY <1>r, <1>h, <2>1, <2>2 DEF Unanswered, AnswerOf
  <2>4. TypeOK'
    <3>1. connected' \in BOOLEAN
      BY <2>1
    <3>. QED
      BY <1>r, <2>1, <3>1 DEF TypeOK
  <2>5. ProcInv'
    BY <2>1 DEF ProcInv, InCall, Subscribed
  <2>6. FlightInv'
    BY <1>0, <1>r, <2>1, <2>3 DEF FlightInv, InFlight
  <2>7. TimerInv'
    <3>1. op.ev # "SETUP"
      BY DEF TypeOK, NoOp, Calls
    <3>. QED
      BY <1>0, <2>1, <2>3, <3>1 DEF TimerInv
  <2>8. IndInv'
    BY <1>0, <1>r, <2>1 DEF IndInv, InFlight, Subscribed
  <2>9. SetupInv'
    BY <1>0, <1>r, <1>h, <2>1 DEF SetupInv
  <2>10. StopInv' /\ DeathsExplained'
    BY <1>0, <2>1 DEF StopInv, DeathsExplained, Up
  <2>. QED
    BY <2>4, <2>5, <2>6, <2>7, <2>8, <2>9, <2>10
<1>. QED
    BY <1>1, <1>2

\* The answer of the call under way: its procedure is always registered.
LEMMA AnswerKeeps ==
    ASSUME XAppInv, LoopAnswer
    PROVE  XAppInv'
<1>. USE DEF XAppInv
<1>0. Up /\ lpc = "poll" /\ xIn # <<>> /\ Head(xIn).type = "ANSWER"
    BY DEF LoopAnswer, Receives
<1>r. /\ Head(xIn) \in Answers /\ Head(xIn) \in Range(xIn) /\ Tail(xIn) \in Seq(Answers)
      /\ Range(xIn) = {Head(xIn)} \cup Range(Tail(xIn))
      /\ \A a : Once(xIn, a) =>
           Once(Tail(xIn), a) /\ (Head(xIn) = a => a \notin Range(Tail(xIn)))
      /\ \A a, b : Before(xIn, a, b) => Before(Tail(xIn), a, b)
    BY <1>0, Received
<1>h. Head(xIn) = AnswerOf(op) /\ InFlight /\ InCall
    BY <1>0, <1>r DEF FlightInv, InFlight, InCall
<1>1. Registered(Head(xIn).h)
  <2>1. Head(xIn).h = op.h
    BY <1>h DEF AnswerOf
  <2>2. \E p \in act : p.h = op.h
    BY <1>h DEF ProcInv, Subscribed
  <2>. QED
    BY <2>1, <2>2 DEF Registered
<1>2. /\ lmsg' = Head(xIn) /\ xIn' = Tail(xIn) /\ lpc' = "rm_pend" /\ died' = died
      /\ UNCHANGED <<xstate, upc, op, wpc, toRic, subs, inds, resent>>
    BY <1>1 DEF LoopAnswer, user, ric
<1>3. /\ Unanswered(op) /\ op \notin Range(toRic) /\ AnswerOf(op) \notin Range(Tail(xIn))
      /\ ~Unanswered(op)'
    BY <1>r, <1>h, <1>2 DEF Unanswered, AnswerOf, FlightInv
<1>4. TypeOK'
    BY <1>r, <1>2 DEF TypeOK, xstate
<1>5. ProcInv'
    BY <1>2 DEF ProcInv, InCall, Subscribed, xstate
<1>6. FlightInv'
    BY <1>r, <1>h, <1>2, <1>3 DEF FlightInv, InFlight
<1>7. TimerInv'
    BY <1>0, <1>h, <1>2, <1>3 DEF TimerInv, InFlight, xstate
<1>8. IndInv'
    BY <1>0, <1>r, <1>2 DEF IndInv, InFlight, Subscribed, xstate
<1>9. SetupInv'
    BY <1>0, <1>r, <1>2 DEF SetupInv, xstate
<1>10. StopInv' /\ DeathsExplained'
    BY <1>0, <1>2 DEF StopInv, DeathsExplained, Up
<1>. QED
    BY <1>4, <1>5, <1>6, <1>7, <1>8, <1>9, <1>10

\* rm_pending_event_xapp: the timer is armed, unless the answer is too early.
LEMMA RmPendingKeeps ==
    ASSUME XAppInv, LoopRmPending
    PROVE  XAppInv'
<1>. USE DEF XAppInv
<1>3. Up /\ lpc = "rm_pend" /\ lmsg = AnswerOf(op) /\ ~Unanswered(op) /\ InFlight
    BY DEF LoopRmPending, FlightInv
<1>4. AnswerOf(op).ev = op.ev
    BY DEF AnswerOf
<1>0. /\ Up /\ lpc = "rm_pend" /\ lmsg = AnswerOf(op) /\ lmsg.ev = op.ev
      /\ ~Unanswered(op) /\ InFlight
    BY <1>3, <1>4
<1>1. CASE lmsg.ev \notin pend
  <2>1. Die("Trying to extract a key not found in the tree")
    BY <1>1 DEF LoopRmPending
  <2>2. upc = "arm"
    BY <1>0, <1>1 DEF TimerInv, InFlight
  <2>3. DeathsExplained'
    BY <1>0, <2>1, <2>2 DEF DeathsExplained, Die, Up, AnswerOf, user, loop
  <2>. QED
    BY <2>1, <2>3, DieKeeps
<1>2. CASE lmsg.ev \in pend
  <2>1. /\ pend' = pend \ {op.ev} /\ lpc' = "signal" /\ died' = died
        /\ UNCHANGED <<connected, act, key, flag, stopToken, q, qStop, upc, op, lmsg, wpc,
                       xIn, toRic, subs, inds, resent>>
    BY <1>0, <1>2 DEF LoopRmPending, user, ric
  <2>2. op.ev \in pend \ {"SETUP"}
    BY <1>0, <1>2 DEF ProcInv, InCall, InFlight, Calls
  <2>3. upc \in {"enter", "wait"}
    BY <2>2 DEF TimerInv
  <2>4. TypeOK'
    BY <2>1 DEF TypeOK
  <2>5. ProcInv'
    BY <2>1 DEF ProcInv, InCall, Subscribed
  <2>6. FlightInv'
    BY <1>0, <2>1, <2>3 DEF FlightInv, InFlight, Unanswered
  <2>7. TimerInv'
    BY <1>0, <2>1, <2>3 DEF TimerInv, Unanswered
  <2>8. IndInv'
    BY <2>1 DEF IndInv, InFlight, Subscribed
  <2>9. SetupInv' /\ StopInv' /\ DeathsExplained'
    BY <1>0, <2>1 DEF SetupInv, StopInv, DeathsExplained, Up
  <2>. QED
    BY <2>4, <2>5, <2>6, <2>7, <2>8, <2>9
<1>. QED
    BY <1>1, <1>2

\* signal_sync_ui raises the flag for the call under way.
LEMMA SignalKeeps ==
    ASSUME XAppInv, LoopSignal
    PROVE  XAppInv'
<1>. USE DEF XAppInv
<1>1. /\ Up /\ lpc = "signal" /\ lpc' = "top" /\ died' = died /\ flag' = TRUE /\ lmsg' = NoMsg
      /\ UNCHANGED <<connected, act, key, pend, stopToken, q, qStop, upc, op, wpc, xIn,
                     toRic, subs, inds, resent>>
    BY DEF LoopSignal, user, ric
<1>2. ~Unanswered(op) /\ upc \in {"enter", "wait"}
    BY <1>1 DEF FlightInv, InFlight
<1>3. TypeOK'
  <2>1. flag' \in BOOLEAN
    BY <1>1
  <2>. QED
    BY <1>1, <2>1 DEF TypeOK
<1>4. ProcInv'
    BY <1>1 DEF ProcInv, InCall, Subscribed
<1>5. FlightInv'
    BY <1>1 DEF FlightInv, InFlight
<1>6. TimerInv'
    BY <1>1, <1>2 DEF TimerInv, Unanswered
<1>7. IndInv'
    BY <1>1 DEF IndInv, InFlight, Subscribed
<1>8. SetupInv' /\ StopInv' /\ DeathsExplained'
    BY <1>1 DEF SetupInv, StopInv, DeathsExplained, Up
<1>. QED
    BY <1>3, <1>4, <1>5, <1>6, <1>7, <1>8

\* An indication belongs to a registered subscription: it is never dropped,
\* and one of a subscription being deleted is handled before the answer.
LEMMA IndicationKeeps ==
    ASSUME XAppInv, LoopIndication
    PROVE  XAppInv'
<1>. USE DEF XAppInv
<1>0. Up /\ lpc = "poll" /\ xIn # <<>> /\ Head(xIn).type = "IND"
    BY DEF LoopIndication, Receives
<1>r. /\ Head(xIn) \in Answers /\ Head(xIn) \in Range(xIn) /\ Tail(xIn) \in Seq(Answers)
      /\ Range(xIn) = {Head(xIn)} \cup Range(Tail(xIn))
      /\ \A a : Once(xIn, a) =>
           Once(Tail(xIn), a) /\ (Head(xIn) = a => a \notin Range(Tail(xIn)))
      /\ \A a, b : Before(xIn, a, b) => Before(Tail(xIn), a, b)
      /\ \A a, b : Before(xIn, a, b) /\ Head(xIn) = a => b \in Range(Tail(xIn))
    BY <1>0, Received
<1>h. Head(xIn) = Ind(Head(xIn).h) /\ Subscribed(Head(xIn).h)
    BY <1>0, <1>r, Kinds DEF IndInv
<1>1. Registered(Head(xIn).h)
    BY <1>h DEF Registered, Subscribed
<1>2. /\ lmsg' = Head(xIn) /\ xIn' = Tail(xIn) /\ lpc' = "write_db" /\ died' = died
      /\ UNCHANGED <<xstate, upc, op, wpc, toRic, subs, inds, resent>>
    BY <1>1 DEF LoopIndication, user, ric
<1>3. Unanswered(op)' <=> Unanswered(op)
    BY <1>0, <1>r, <1>2 DEF Unanswered
<1>4. TypeOK'
    BY <1>r, <1>2 DEF TypeOK, xstate
<1>5. ProcInv'
    BY <1>2 DEF ProcInv, InCall, Subscribed, xstate
<1>6. FlightInv'
    BY <1>r, <1>2, <1>3 DEF FlightInv, InFlight
<1>7. TimerInv'
    BY <1>0, <1>2, <1>3 DEF TimerInv, xstate
<1>8. IndInv'
    BY <1>0, <1>r, <1>h, <1>2 DEF IndInv, InFlight, Subscribed, xstate
<1>9. SetupInv'
    BY <1>0, <1>r, <1>2 DEF SetupInv, xstate
<1>10. StopInv' /\ DeathsExplained'
    BY <1>0, <1>2 DEF StopInv, DeathsExplained, Up
<1>. QED
    BY <1>4, <1>5, <1>6, <1>7, <1>8, <1>9, <1>10

\* The indication is handed to a worker.
LEMMA HandOverKeeps ==
    ASSUME XAppInv, LoopWriteDb \/ LoopDispatch
    PROVE  XAppInv'
<1>. USE DEF XAppInv
<1>1. /\ Up /\ lpc \in {"write_db", "dispatch"} /\ died' = died
      /\ \/ lpc' = "dispatch" /\ lmsg' = lmsg
         \/ lpc' = "top" /\ lmsg' = NoMsg
      /\ \E k \in Queues : q' = [q EXCEPT ![k] = Append(@, lmsg.h)]
      /\ UNCHANGED <<connected, act, key, pend, flag, stopToken, qStop, upc, op, wpc, xIn,
                     toRic, subs, inds, resent>>
    BY DEF LoopWriteDb, LoopDispatch, user, ric, Queues
<1>2. TypeOK'
  <2>1. lmsg.h \in Nat
    BY <1>1, Kinds DEF IndInv, TypeOK, NoMsg
  <2>2. \A k \in Queues : Append(q[k], lmsg.h) \in Seq(Nat)
    BY <2>1 DEF TypeOK
  <2>3. q' \in [Queues -> Seq(Nat)]
    BY <1>1, <2>2 DEF TypeOK
  <2>. QED
    BY <1>1, <2>3 DEF TypeOK
<1>3. ProcInv'
    BY <1>1 DEF ProcInv, InCall, Subscribed
<1>4. FlightInv'
    BY <1>1 DEF FlightInv, InFlight
<1>5. TimerInv'
    BY <1>1 DEF TimerInv, Unanswered
<1>6. IndInv'
    BY <1>1 DEF IndInv, InFlight, Subscribed
<1>7. SetupInv' /\ StopInv' /\ DeathsExplained'
    BY <1>1 DEF SetupInv, StopInv, DeathsExplained, Up
<1>. QED
    BY <1>2, <1>3, <1>4, <1>5, <1>6, <1>7

-----------------------------------------------------------------------------
(* The workers and the RIC *)

\* A worker that has ended takes no step.
LEMMA WorkerKeeps ==
    ASSUME XAppInv, NEW k \in Queues, Worker(k)
    PROVE  XAppInv'
<1>. USE DEF XAppInv
<1>1. /\ Up /\ wpc[k] # "exit" /\ died' = died
      /\ \E c \in {"pop", "use", "exit"} : wpc' = [wpc EXCEPT ![k] = c]
      /\ q' = q \/ (q[k] # <<>> /\ q' = [q EXCEPT ![k] = Tail(@)])
      /\ UNCHANGED <<connected, act, key, pend, flag, stopToken, qStop, upc, op, lpc, lmsg,
                     xIn, toRic, subs, inds, resent>>
    BY DEF Worker, WorkerPop, WorkerUse, user, loop, ric, xstate
<1>2. TypeOK'
  <2>1. q[k] # <<>> => Tail(q[k]) \in Seq(Nat)
    BY DEF TypeOK
  <2>2. q' \in [Queues -> Seq(Nat)]
    BY <1>1, <2>1 DEF TypeOK
  <2>3. wpc' \in [Queues -> {"pop", "use", "exit"}]
    BY <1>1 DEF TypeOK
  <2>. QED
    BY <1>1, <2>2, <2>3 DEF TypeOK
<1>3. ProcInv'
    BY <1>1 DEF ProcInv, InCall, Subscribed
<1>4. FlightInv'
    BY <1>1 DEF FlightInv, InFlight, Unanswered
<1>5. TimerInv'
    BY <1>1 DEF TimerInv, Unanswered
<1>6. IndInv'
    BY <1>1 DEF IndInv, InFlight, Subscribed
<1>7. SetupInv' /\ DeathsExplained'
    BY <1>1 DEF SetupInv, DeathsExplained, Up
<1>8. StopInv'
    BY <1>1 DEF StopInv, TypeOK, Queues
<1>. QED
    BY <1>2, <1>3, <1>4, <1>5, <1>6, <1>7, <1>8

\* An indication of a subscription the RIC serves.
LEMMA RicIndicationKeeps ==
    ASSUME XAppInv, RicIndication
    PROVE  XAppInv'
<1>. USE DEF XAppInv
<1>1. PICK h \in subs : xIn' = Append(xIn, Ind(h))
    BY DEF RicIndication, Ind
<1>2. /\ Up /\ died' = died /\ inds' = inds + 1
      /\ UNCHANGED <<xstate, upc, op, lpc, lmsg, wpc, toRic, subs, resent>>
    BY DEF RicIndication, user, loop
<1>3. h \in Nat /\ Ind(h) \in Answers /\ xIn \in Seq(Answers) /\ Subscribed(h)
    BY DEF TypeOK, Ind, Answers, IndInv
<1>4. /\ xIn' \in Seq(Answers) /\ Range(xIn') = Range(xIn) \cup {Ind(h)}
      /\ \A a : Once(xIn, a) /\ a # Ind(h) => Once(xIn', a)
      /\ \A a, b : Before(xIn, a, b) /\ a # Ind(h) => Before(xIn', a, b)
    BY <1>1, <1>3, QueueAppend
<1>5. /\ AnswerOf(op) # Ind(h) /\ [type |-> "SETUP_RESP"] # Ind(h) /\ Ind(h).h = h
      /\ Ind(h).type = "IND"
    BY DEF AnswerOf, Ind
<1>6. Unanswered(op)' <=> Unanswered(op)
    BY <1>2, <1>4, <1>5 DEF Unanswered, AnswerOf
<1>7. TypeOK'
    BY <1>2, <1>4 DEF TypeOK, xstate
<1>8. ProcInv'
    BY <1>2 DEF ProcInv, InCall, Subscribed, xstate
<1>9. FlightInv'
    BY <1>2, <1>4, <1>5, <1>6 DEF FlightInv, InFlight
<1>10. TimerInv'
    BY <1>2, <1>6 DEF TimerInv, xstate
<1>11. IndInv'
  <2>1. op.h \notin subs => Ind(op.h) # Ind(h)
    BY DEF Ind
  <2>. QED
    BY <1>2, <1>3, <1>4, <1>5, <2>1 DEF IndInv, InFlight, Subscribed, xstate
<1>12. SetupInv'
    BY <1>2, <1>4, <1>5 DEF SetupInv, xstate
<1>13. StopInv' /\ DeathsExplained'
    BY <1>2 DEF StopInv, DeathsExplained, Up
<1>. QED
    BY <1>7, <1>8, <1>9, <1>10, <1>11, <1>12, <1>13

\* The RIC answers a setup, or the only request under way.
LEMMA RicAnswerKeeps ==
    ASSUME XAppInv, RicAnswer
    PROVE  XAppInv'
<1>. USE DEF XAppInv
<1>. DEFINE m == Head(toRic)
            req == [ev |-> "SETUP"]
            resp == [type |-> "SETUP_RESP"]
<1>0. /\ Up /\ toRic # <<>> /\ toRic' = Tail(toRic) /\ died' = died
      /\ UNCHANGED <<xstate, upc, op, lpc, lmsg, wpc, inds, resent>>
    BY DEF RicAnswer, user, loop
<1>1. toRic \in Seq(Requests) /\ xIn \in Seq(Answers)
    BY DEF TypeOK
<1>2. /\ m \in Requests /\ toRic' \in Seq(Requests) /\ Range(toRic) = {m} \cup Range(toRic')
      /\ \A a : Once(toRic, a) => Once(toRic', a) /\ (m = a => a \notin Range(toRic'))
    BY <1>0, <1>1, QueueTail
<1>p. ProcInv'
    BY <1>0 DEF ProcInv, InCall, Subscribed, xstate
<1>s. StopInv' /\ DeathsExplained'
    BY <1>0 DEF StopInv, DeathsExplained, Up
<1>3. CASE m.ev = "SETUP"
  <2>1. m = req /\ m # op
    BY <1>2, <1>3, Kinds DEF TypeOK, NoOp, Calls
  <2>2. xIn' = Append(xIn, resp) /\ subs' = subs
    BY <1>3 DEF RicAnswer
  <2>3. resp \in Answers /\ AnswerOf(op) # resp /\ Ind(op.h) # resp
    BY DEF Answers, AnswerOf, Ind
  <2>4. /\ xIn' \in Seq(Answers) /\ Range(xIn') = Range(xIn) \cup {resp}
        /\ \A a : Once(xIn, a) /\ (a # resp \/ a \notin Range(xIn)) => Once(xIn', a)
        /\ \A a, b : Before(xIn, a, b) /\ a # resp => Before(xIn', a, b)
    BY <1>1, <2>2, <2>3, QueueAppend
  <2>5. Unanswered(op)' <=> Unanswered(op)
    BY <1>0, <1>2, <2>1, <2>3, <2>4 DEF Unanswered, AnswerOf
  <2>6. TypeOK'
    BY <1>0, <1>2, <2>2, <2>4 DEF TypeOK, xstate
  <2>7. FlightInv'
    BY <1>0, <1>2, <2>3, <2>4, <2>5 DEF FlightInv, InFlight
  <2>8. TimerInv'
    BY <1>0, <2>5 DEF TimerInv, xstate
  <2>9. IndInv'
    BY <1>0, <1>2, <2>1, <2>2, <2>3, <2>4 DEF IndInv, InFlight, Subscribed, xstate
  <2>10. SetupInv'
    BY <1>0, <1>2, <2>1, <2>4 DEF SetupInv, xstate
  <2>. QED
    BY <1>p, <1>s, <2>6, <2>7, <2>8, <2>9, <2>10
<1>4. CASE m.ev # "SETUP"
  <2>1. m = op /\ InFlight /\ InCall /\ m # req /\ op \in [ev : Calls, h : Nat]
    BY <1>2, <1>4 DEF FlightInv, InFlight, InCall, ProcInv
  <2>2. /\ xIn' = Append(xIn, AnswerOf(op))
        /\ subs' = CASE op.ev = "SUB" -> subs \cup {op.h}
                     [] op.ev = "DEL" -> subs \ {op.h}
                     [] OTHER -> subs
    BY <1>4, <2>1 DEF RicAnswer, AnswerOf
  <2>3. /\ AnswerOf(op) \in Answers /\ resp # AnswerOf(op) /\ Ind(op.h) # AnswerOf(op)
        /\ AnswerOf(op).type = "ANSWER"
    BY <2>1 DEF Answers, AnswerOf, Ind
  <2>u. /\ op \notin Range(toRic') /\ AnswerOf(op) \notin Range(xIn) /\ Unanswered(op)
        /\ op \in Range(toRic)
    BY <1>2, <2>1 DEF FlightInv, Unanswered
  <2>4. /\ xIn' \in Seq(Answers) /\ Range(xIn') = Range(xIn) \cup {AnswerOf(op)}
        /\ \A a : Once(xIn, a) /\ (a # AnswerOf(op) \/ a \notin Range(xIn)) => Once(xIn', a)
        /\ \A a : a # AnswerOf(op) => Before(xIn', a, AnswerOf(op))
    BY <1>1, <2>2, <2>3, QueueAppend
  <2>5. Unanswered(op)'
    BY <1>0, <2>4 DEF Unanswered, AnswerOf
  <2>6. TypeOK'
    <3>1. subs' \subseteq Nat
      BY <2>1, <2>2 DEF TypeOK, Calls
    <3>. QED
      BY <1>0, <1>2, <2>4, <3>1 DEF TypeOK, xstate
  <2>7. FlightInv'
    <3>1. \A r \in Range(toRic') : r.ev = "SETUP"
      BY <1>2, <2>u DEF FlightInv
    <3>2. lpc \notin {"rm_pend", "signal"}
      BY <2>u DEF FlightInv
    <3>. QED
      BY <1>0, <1>2, <2>1, <2>u, <2>4, <3>1, <3>2 DEF FlightInv, InFlight
  <2>8. TimerInv'
    BY <1>0, <2>u, <2>5 DEF TimerInv, xstate
  <2>9. IndInv'
    <3>1. \A h \in subs' : Subscribed(h)
      BY <2>1, <2>2 DEF IndInv, ProcInv, Subscribed, Calls
    <3>2. op.ev = "DEL" => op.h \notin subs'
      BY <2>2
    <3>. QED
      BY <1>0, <2>3, <2>4, <3>1, <3>2 DEF IndInv, InFlight, Subscribed, xstate
  <2>10. SetupInv'
    BY <1>0, <1>2, <2>1, <2>3, <2>4 DEF SetupInv, xstate
  <2>. QED
    BY <1>p, <1>s, <2>6, <2>7, <2>8, <2>9, <2>10
<1>. QED
    BY <1>3, <1>4

-----------------------------------------------------------------------------
(* The theorems *)

\* An xApp that has just started satisfies the invariant.
LEMMA InvInit == Init => XAppInv
<1>. SUFFICES ASSUME Init PROVE XAppInv
    OBVIOUS
<1>. USE DEF Init
<1>r. /\ Range(<<>>) = {} /\ \A e : Once(<<>>, e)
      /\ <<>> \in Seq(Nat) /\ <<>> \in Seq(Answers) /\ <<>> \in Seq(Requests)
    BY DEF Range, Once
<1>1. TypeOK
    BY <1>r DEF TypeOK
<1>2. ProcInv
    BY XAppAssumption DEF XAppAssumption, ProcInv, InCall
<1>3. FlightInv /\ TimerInv /\ IndInv /\ SetupInv
    BY <1>r DEF FlightInv, TimerInv, IndInv, SetupInv, InFlight
<1>4. StopInv /\ DeathsExplained
    BY DEF StopInv, DeathsExplained, Up
<1>. QED
    BY <1>1, <1>2, <1>3, <1>4 DEF XAppInv

\* The inductive invariant: whatever the threads and the RIC interleave, only
\* the call under way has a request, an answer or a timer, and what the loop
\* uses is registered.
THEOREM XAppInvariant == Spec => []XAppInv
<1>1. XAppInv /\ [Next]_vars => XAppInv'
  <2>. SUFFICES ASSUME XAppInv, [Next]_vars PROVE XAppInv'
    OBVIOUS
  <2>1. CASE UserCall
    BY <2>1, SendKeeps, ArmKeeps, EnterKeeps, WokenKeeps, TimeoutKeeps, ReturnKeeps, LifeKeeps
    DEF UserCall
  <2>2. CASE Loop
    BY <2>2, StartKeeps, TopKeeps, SetupResponseKeeps, AnswerKeeps, RmPendingKeeps,
       SignalKeeps, IndicationKeeps, HandOverKeeps
    DEF Loop
  <2>3. CASE UserUnsubscribe \/ UserStop
    BY <2>3, UnsubscribeKeeps, LifeKeeps
  <2>4. CASE RicAnswer \/ RicIndication
    BY <2>4, RicAnswerKeeps, RicIndicationKeeps
  <2>5. ASSUME NEW ev \in {"SUB", "CTRL"}, UserRequest(ev) PROVE XAppInv'
    BY <2>5, RequestKeeps
  <2>6. ASSUME NEW ev \in Events, LoopTimer(ev) PROVE XAppInv'
    BY <2>6, TimerKeeps
  <2>7. ASSUME NEW k \in Queues, Worker(k) PROVE XAppInv'
    BY <2>7, WorkerKeeps
  <2>8. CASE UNCHANGED vars
    <3>. USE <2>8 DEF XAppInv, vars, xstate, user, loop, ric
    <3>1. TypeOK' /\ ProcInv'
      BY DEF TypeOK, ProcInv, InCall, Subscribed
    <3>2. FlightInv' /\ TimerInv'
      BY DEF FlightInv, TimerInv, InFlight, Unanswered
    <3>3. IndInv' /\ SetupInv' /\ StopInv'
      BY DEF IndInv, SetupInv, StopInv, InFlight, Subscribed
    <3>4. DeathsExplained'
      BY DEF DeathsExplained, Up, Unanswered
    <3>. QED
      BY <3>1, <3>2, <3>3, <3>4
  <2>. QED
    BY <2>1, <2>2, <2>3, <2>4, <2>5, <2>6, <2>7, <2>8 DEF Next
<1>. QED
    BY <1>1, InvInit, PTL DEF Spec

\* The variables of the xApp keep their types.
THEOREM XAppTypes == Spec => []TypeOK
<1>1. XAppInv => TypeOK
    BY DEF XAppInv
<1>. QED
    BY <1>1, XAppInvariant, PTL

\* cond_wait_sync_ui never takes the signal of an earlier call for its own: a
\* synchronous call returns only after its answer has been handled.
THEOREM CallsAnswered == Spec => []ReturnMeansAnswered
<1>1. XAppInv => ReturnMeansAnswered
  <2>. SUFFICES ASSUME XAppInv, upc = "woken"
                PROVE  ~Unanswered(op) /\ op.ev \notin pend /\ lpc \notin {"rm_pend", "signal"}
    BY DEF ReturnMeansAnswered
  <2>1. ~Unanswered(op) /\ lpc \notin {"rm_pend", "signal"}
    BY DEF XAppInv, TimerInv
  <2>2. op.ev # "SETUP"
    BY DEF XAppInv, ProcInv, InCall, Calls
  <2>3. op.ev \notin pend \ {"SETUP"}
    BY DEF XAppInv, TimerInv
  <2>. QED
    BY <2>1, <2>2, <2>3
<1>. QED
    BY <1>1, XAppInvariant, PTL

\* An armed timer belongs to the call in progress: add_pending_event_xapp and
\* rm_pending_event_xapp match, whichever thread is first.
THEOREM TimersCurrent == Spec => []NoStaleTimer
<1>1. XAppInv => NoStaleTimer
    BY DEF XAppInv, TimerInv, NoStaleTimer
<1>. QED
    BY <1>1, XAppInvariant, PTL

\* The asserts that can end the process, and when: the others never fail.
THEOREM DeathsAreExplained == Spec => []DeathsExplained
<1>1. XAppInv => DeathsExplained
    BY DEF XAppInv
<1>. QED
    BY <1>1, XAppInvariant, PTL

\* The e2_node of a procedure is registered while the loop uses it, and
\* free_e42_xapp frees what a thread uses after that thread has ended.
THEOREM NothingUsedAfterFree == Spec => []NoUseAfterFree
<1>1. XAppInv => NoUseAfterFree
    BY DEF XAppInv, IndInv, StopInv, NoUseAfterFree, Registered, Subscribed
<1>. QED
    BY <1>1, XAppInvariant, PTL
=============================================================================

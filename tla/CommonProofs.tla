---------------------------- MODULE CommonProofs ----------------------------
(***************************************************************************)
(* Proofs about the two parts that work on data of any size.               *)
(*                                                                         *)
(* TimerMgr, for any timers, kinds and times: its state is well typed, a   *)
(* once-timer runs once or is cancelled, and the pop of timer_run removes  *)
(* another timer than top() gave only if that timer came in the same       *)
(* round.                                                                  *)
(*                                                                         *)
(* PacketParse, for any header, bodies, buffer and packets: however a      *)
(* stream is cut into reads, its packets come out whole, in order and      *)
(* once; an overrun needs a read that ends inside a body; there is room    *)
(* for the next read; and datagrams are parsed one by one.  The parser is  *)
(* a recursive function: ParseFrom shows that it is well defined, and      *)
(* ParserFinds what it returns, both by induction over sets of numbers     *)
(* (SetInduction).                                                         *)
(***************************************************************************)
EXTENDS TimerMgr, PacketParse, WellFoundedInduction, TLAPS

\* A leaf that names no prover is left to the SMT solver.
USE SMTT(20)

----------------------------------------------------------------------------
(* TimerMgr.                                                               *)

\* The callback of a once-timer is there until the timer ran or was
\* cancelled, whichever is first; loop-timers are neither counted nor
\* cancelled.
Count ==
    \A t \in Timers :
        IF kind[t].type = "once"
        THEN \/ mCallback[t] /\ ran[t] = 0 /\ t \notin cancelled
             \/ ~mCallback[t] /\ ran[t] = 1 /\ t \notin cancelled
             \/ ~mCallback[t] /\ ran[t] = 0 /\ t \in cancelled
        ELSE ran[t] = 0 /\ t \notin cancelled

\* From top() to pop() the queue is not empty, and another timer on top of it
\* is one of this round, one whose addTimer has not come to the wake-up
\* state, or one for which that state sends the thread round again.
Front ==
    /\ thread \in {"left", "wait", "woken", "pop"} => mTimers # <<>>
    /\ thread \in {"left", "pop"} => Head(mTimers) \in window \cup {tmp}
    /\ thread \in {"wait", "woken"} =>
          \/ Head(mTimers) \in window \cup {tmp}
          \/ call[Head(mTimers)] = "pushed"
          \/ timer_wakeup_state = "ADD"

IInv == TypeOK /\ Count /\ Front
----------------------------------------------------------------------------
\* top() is the first timer of the queue.
LEMMA HeadIsFirst ==
    ASSUME NEW q \in Seq(Timers), Len(q) >= 1 PROVE q # <<>> /\ Head(q) = q[1]
  OBVIOUS

\* What is appended to a queue does not change its top.
LEMMA FrontStays ==
    ASSUME NEW u \in Seq(Timers), NEW v \in Seq(Timers), Len(u) >= 1
    PROVE  u \o v \in Seq(Timers) /\ u \o v # <<>> /\ Head(u \o v) = u[1]
  <1>1. Len(u) \in Nat /\ Len(v) \in Nat
    OBVIOUS
  <1>2. /\ u \o v \in Seq(Timers) /\ Len(u \o v) = Len(u) + Len(v)
        /\ \A i \in 1 .. Len(u) + Len(v) :
              (u \o v)[i] = IF i <= Len(u) THEN u[i] ELSE v[i - Len(u)]
    OBVIOUS
  <1> DEFINE w == u \o v
  <1>3. w \in Seq(Timers) /\ Len(w) >= 1 /\ w[1] = u[1]
    BY <1>1, <1>2
  <1> HIDE DEF w
  <1>4. w # <<>> /\ Head(w) = w[1]
    BY <1>3, HeadIsFirst
  <1> QED
    BY <1>3, <1>4 DEF w

\* A push adds the timer, in front or behind the old top.
LEMMA PushedTimers ==
    ASSUME NEW q \in Seq(Timers), NEW q2, NEW r, NEW t \in Timers,
           Pushed(q, q2, r, t)
    PROVE  /\ q2 \in Seq(Timers) /\ q2 # <<>>
           /\ Head(q2) = t \/ (q # <<>> /\ Head(q2) = Head(q))
  <1>p. PICK i \in 1 .. Len(q) + 1 :
             q2 = SubSeq(q, 1, i - 1) \o <<t>> \o SubSeq(q, i, Len(q))
    BY Zenon DEF Pushed
  <1> DEFINE a == SubSeq(q, 1, i - 1)
             b == SubSeq(q, i, Len(q))
  <1>0. Len(q) \in Nat /\ \A j \in 1 .. Len(q) : q[j] \in Timers
    OBVIOUS
  <1>1. /\ a \in Seq(Timers)
        /\ Len(a) = IF 1 <= i - 1 THEN i - 1 - 1 + 1 ELSE 0
        /\ \A j \in 1 .. i - 1 - 1 + 1 : a[j] = q[1 + j - 1]
    BY <1>0
  <1>2. b \in Seq(Timers)
    BY <1>0
  <1>3. <<t>> \in Seq(Timers) /\ Len(<<t>>) = 1 /\ <<t>>[1] = t
    OBVIOUS
  <1>4. q2 = (a \o <<t>>) \o b
    BY <1>p
  <1> HIDE DEF a, b
  <1> DEFINE u == a \o <<t>>
  <1>5. u \in Seq(Timers) /\ Len(u) = i /\ u[1] = IF i = 1 THEN t ELSE a[1]
    BY <1>1, <1>3
  <1> HIDE DEF u
  <1>6. Len(u) >= 1
    BY <1>0, <1>5
  <1>7. u \o b \in Seq(Timers) /\ u \o b # <<>> /\ Head(u \o b) = u[1]
    BY <1>2, <1>5, <1>6, FrontStays
  <1>8. i > 1 => q # <<>> /\ Head(q) = q[1] /\ a[1] = q[1]
    BY <1>0, <1>1, HeadIsFirst
  <1>9. q2 = u \o b
    BY <1>4 DEF u
  <1> QED
    BY <1>0, <1>5, <1>7, <1>8, <1>9

\* In the initial states every timer has its callback and none is queued.
LEMMA InitIInv == Init => IInv
  <1> SUFFICES ASSUME Init PROVE IInv
    OBVIOUS
  <1> USE KindsOK, Times DEF Init
  <1>1. tmp \in Timers
    BY TimersOK, Zenon
  <1>2. mCallback \in [Timers -> BOOLEAN] /\ timer_run \in BOOLEAN /\ closed \in BOOLEAN
    BY Zenon
  <1>3. TypeOK
    BY <1>1, <1>2 DEF TypeOK
  <1>4. Count
    BY Zenon DEF Count
  <1>5. Front
    BY DEF Front
  <1> QED
    BY <1>3, <1>4, <1>5 DEF IInv

\* Every step keeps the types.
LEMMA NextTypeOK == TypeOK /\ Front /\ [Next]_vars => TypeOK'
  <1> SUFFICES ASSUME TypeOK, Front, [Next]_vars PROVE TypeOK'
    OBVIOUS
  <1> USE KindsOK, Times DEF TypeOK, timerVars, history
  <1>1. ASSUME NEW t \in Timers, AddMake(t) PROVE TypeOK'
    BY <1>1 DEF AddMake
  <1>2. ASSUME NEW t \in Timers, AddPush(t) PROVE TypeOK'
    <2>1. mTimers' \in Seq(Timers)
      BY <1>2, PushedTimers DEF AddPush
    <2> QED
      BY <1>2, <2>1 DEF AddPush
  <1>3. ASSUME NEW t \in Timers, AddFlag(t) PROVE TypeOK'
    BY <1>3 DEF AddFlag
  <1>4. ASSUME NEW t \in Timers, AddNotify(t) PROVE TypeOK'
    BY <1>4 DEF AddNotify, Notified
  <1>5. ASSUME NEW t \in Timers, Cancel(t) PROVE TypeOK'
    BY <1>5 DEF Cancel
  <1>6. CASE Close
    BY <1>6, Zenon DEF Close, Notified
  <1>7. CASE Schedule \/ Test \/ Sleep
    BY <1>7, Zenon DEF Schedule, Test, Sleep
  <1>8. CASE TimeOut \/ WakeSpuriously
    BY <1>8 DEF TimeOut, WakeSpuriously, Wake
  <1>9. CASE Look
    <2>1. mTimers # <<>> => Head(mTimers) \in Timers
      OBVIOUS
    <2>2. tmp' \in Timers /\ thread' \in {"left", "test", "end"}
      BY <1>9, <2>1 DEF Look
    <2> QED
      BY <1>9, <2>2, Zenon DEF Look
  <1>10. CASE Left
    BY <1>10 DEF Left
  <1>11. CASE Woken
    BY <1>11 DEF Woken
  <1>12. CASE Pop
    <2>1. mTimers # <<>>
      BY <1>12 DEF Pop, Front
    <2>2. Head(mTimers) \in Timers /\ Tail(mTimers) \in Seq(Timers)
      BY <2>1
    <2> QED
      BY <1>12, <2>2, Zenon DEF Pop
  <1>13. CASE Run
    <2>1. mTimers' \in Seq(Timers)
      BY <1>13, PushedTimers DEF Run
    <2>2. (mCallback[tmp] /\ kind[tmp].type = "loop") \in BOOLEAN
      OBVIOUS
    <2>3. mCallback' \in [Timers -> BOOLEAN]
      BY <1>13, <2>2 DEF Run
    <2>4. ran' \in [Timers -> Nat]
      BY <1>13 DEF Run, CountRun
    <2>5. rel' \in [Timers -> Int] /\ \A t \in Timers : rel'[t] >= -Late
      <3>1. kind[tmp] \in Kinds
        OBVIOUS
      <3>2. kind[tmp].last \in Nat
        BY <3>1
      <3>3. kind[tmp].last \in Int /\ kind[tmp].last >= -Late
        BY <3>2
      <3>4. rel' = rel \/ rel' = [rel EXCEPT ![tmp] = kind[tmp].last]
        BY <1>13 DEF Run
      <3> QED
        BY <3>3, <3>4, Zenon
    <2> QED
      BY <1>13, <2>1, <2>3, <2>4, <2>5 DEF Run
  <1>14. CASE Mark
    BY <1>14 DEF Mark
  <1>15. CASE Tick
    BY <1>15 DEF Tick
  <1>16. CASE UNCHANGED vars
    BY <1>16 DEF vars
  <1> QED
    BY <1>1, <1>2, <1>3, <1>4, <1>5, <1>6, <1>7, <1>8, <1>9, <1>10, <1>11,
       <1>12, <1>13, <1>14, <1>15, <1>16, Zenon DEF Next, Add, TimerThread

\* A once-timer gives its callback away once: to Run, which counts it, or to
\* Cancel; call_once lets only one of them have it.
LEMMA NextCount == TypeOK /\ Count /\ [Next]_vars => Count'
  <1> SUFFICES ASSUME TypeOK, Count, [Next]_vars PROVE Count'
    OBVIOUS
  <1>1. ASSUME NEW t \in Timers, Cancel(t) PROVE Count'
    BY <1>1 DEF Cancel, Count, TypeOK
  <1>2. CASE Run
    <2>1. tmp \in Timers /\ kind' = kind /\ cancelled' = cancelled
      BY <1>2 DEF Run, TypeOK
    <2>2. ASSUME NEW t \in Timers, t # tmp
          PROVE  mCallback'[t] = mCallback[t] /\ ran'[t] = ran[t]
      BY <1>2, <2>2 DEF Run, CountRun, TypeOK
    <2>3. CASE kind[tmp].type = "once"
      <3>1. ~mCallback'[tmp]
        BY <1>2, <2>1, <2>3, Zenon DEF Run, TypeOK
      <3>2. ran'[tmp] = IF mCallback[tmp] THEN ran[tmp] + 1 ELSE ran[tmp]
        BY <1>2, <2>1, <2>3 DEF Run, CountRun, TypeOK
      <3> QED
        BY <2>1, <2>2, <2>3, <3>1, <3>2 DEF Count
    <2>4. CASE kind[tmp].type # "once"
      <3>1. ran' = ran
        BY <1>2, <2>4 DEF Run, CountRun
      <3> QED
        BY <2>1, <2>2, <2>4, <3>1 DEF Count
    <2> QED
      BY <2>3, <2>4
  <1>3. CASE UNCHANGED <<kind, mCallback, ran, cancelled>>
    BY <1>3 DEF Count
  <1>4. \/ \E t \in Timers : Cancel(t)
        \/ Run
        \/ UNCHANGED <<kind, mCallback, ran, cancelled>>
    BY DEF Next, Add, AddMake, AddPush, AddFlag, AddNotify, Close, TimerThread,
           Schedule, Test, Sleep, TimeOut, WakeSpuriously, Wake, Look, Left, Woken,
           Pop, Mark, Tick, vars, timerVars, history
  <1> QED
    BY <1>1, <1>2, <1>3, <1>4

\* From top() to pop() only AddPush changes the queue, and the wake-up state
\* can only become the one that sends the thread round again.
LEMMA NextFront == TypeOK /\ Front /\ [Next]_vars => Front'
  <1> SUFFICES ASSUME TypeOK, Front, [Next]_vars PROVE Front'
    OBVIOUS
  <1> USE DEF Front
  <1>1. ASSUME NEW t \in Timers, AddPush(t) PROVE Front'
    <2>1. /\ mTimers' # <<>>
          /\ Head(mTimers') = t \/ (mTimers # <<>> /\ Head(mTimers') = Head(mTimers))
      BY <1>1, PushedTimers DEF AddPush, TypeOK
    <2>2. call'[t] = "pushed" /\ \A u \in Timers : u # t => call'[u] = call[u]
      BY <1>1 DEF AddPush, TypeOK
    <2>3. mTimers # <<>> => Head(mTimers) \in Timers
      BY DEF TypeOK
    <2> QED
      BY <1>1, <2>1, <2>2, <2>3 DEF AddPush
  <1>2. ASSUME NEW t \in Timers, AddMake(t) \/ AddFlag(t) \/ AddNotify(t)
        PROVE  Front'
    <2>1. mTimers # <<>> => Head(mTimers) \in Timers
      BY DEF TypeOK
    <2> QED
      BY <1>2, <2>1 DEF AddMake, AddFlag, AddNotify, Notified, TypeOK, history
  <1>3. ASSUME NEW t \in Timers, Cancel(t) PROVE Front'
    BY <1>3 DEF Cancel
  <1>4. CASE Close
    BY <1>4 DEF Close, Notified, history
  <1>5. CASE Schedule \/ Test \/ Sleep
    BY <1>5 DEF Schedule, Test, Sleep
  <1>6. CASE TimeOut \/ WakeSpuriously
    BY <1>6 DEF TimeOut, WakeSpuriously, Wake, history
  <1>7. CASE Look
    BY <1>7 DEF Look
  <1>8. CASE Left
    BY <1>8 DEF Left, history
  <1>9. CASE Woken
    <2>1. mTimers # <<>> => Head(mTimers) \in Timers
      BY DEF TypeOK
    <2> QED
      BY <1>9, <2>1 DEF Woken
  <1>10. CASE Pop \/ Run \/ Mark
    BY <1>10 DEF Pop, Run, Mark
  <1>11. CASE Tick
    BY <1>11 DEF Tick, history
  <1>12. CASE UNCHANGED vars
    BY <1>12 DEF vars, history
  <1> QED
    BY <1>1, <1>2, <1>3, <1>4, <1>5, <1>6, <1>7, <1>8, <1>9, <1>10, <1>11,
       <1>12 DEF Next, Add, TimerThread

\* IInv is an invariant.
LEMMA Invariance == Spec => []IInv
  <1>1. Init => IInv
    BY InitIInv
  <1>2. IInv /\ [Next]_vars => IInv'
    BY NextTypeOK, NextCount, NextFront DEF IInv
  <1> QED
    BY <1>1, <1>2, PTL DEF Spec

\* The state of the timer is well typed: timer_run never takes the top of an
\* empty queue, nor pops one.
THEOREM TypeCorrect == Spec => []TypeOK
  <1>1. IInv => TypeOK
    BY DEF IInv
  <1> QED
    BY <1>1, Invariance, PTL

\* A once-timer runs once or is cancelled, never both and never twice, however
\* often the queue gives it to timer_run.
THEOREM OnceOrCancelledHolds == Spec => []OnceOrCancelled
  <1>1. IInv => OnceOrCancelled
    <2> SUFFICES ASSUME IInv, NEW t \in Timers
                 PROVE  ran[t] + (IF t \in cancelled THEN 1 ELSE 0) <= 1
      BY Zenon DEF OnceOrCancelled
    <2>1. ran[t] = 0 \/ (ran[t] = 1 /\ t \notin cancelled)
      BY DEF IInv, Count
    <2> QED
      BY <2>1
  <1> QED
    BY <1>1, Invariance, PTL

\* The pop behind getLeftTime or the wait removes another timer than top() gave
\* only if that timer was pushed in this very round.
THEOREM WrongPopIsLateHolds == Spec => []WrongPopIsLate
  <1>1. IInv => WrongPopIsLate
    BY DEF IInv, Front, WrongPopIsLate
  <1> QED
    BY <1>1, Invariance, PTL
----------------------------------------------------------------------------
(* PacketParse.                                                            *)

\* A set of numbers that is not empty has a least element.  With SetInduction
\* this is all the induction below: it goes over sets of numbers.
LEMMA LeastNumber ==
    ASSUME NEW T, T \subseteq Nat, T # {}
    PROVE  \E x \in T : \A y \in T : x <= y
<1>1. IsWellFoundedOn(OpToRel(<, Nat), Nat)
  BY NatLessThanWellFounded, Zenon
<1>2. PICK x \in T : \A y \in T : ~ (<<y, x>> \in OpToRel(<, Nat))
  BY <1>1, WFMin, Zenon
<1>3. \A y \in T : ~(y < x)
  BY <1>2, Zenon DEF OpToRel
<1> QED
  BY <1>3

\* A set that holds 0 and with every number the next holds all numbers.
LEMMA SetInduction ==
    ASSUME NEW T, 0 \in T, \A n \in Nat : n \in T => n + 1 \in T
    PROVE  \A n \in Nat : n \in T
<1> SUFFICES ASSUME Nat \ T # {} PROVE FALSE
  BY Zenon
<1>1. PICK x \in Nat \ T : \A y \in Nat \ T : x <= y
  <2>1. Nat \ T \subseteq Nat
    BY Zenon
  <2> QED
    BY <2>1, LeastNumber, Zenon
<1>2. x # 0 /\ x - 1 \in Nat
  BY <1>1
<1> QED
  BY <1>1, <1>2

----------------------------------------------------------------------------
\* The functions Concat is defined by: the first n sequences, one behind the
\* other.
IsFlat(f, seqs, n) ==
    f = [i \in 0 .. n |-> IF i = 0 THEN <<>> ELSE f[i - 1] \o seqs[i]]
FlatOf(seqs) == CHOOSE f : IsFlat(f, seqs, Len(seqs))

\* Concat in terms of them.
LEMMA ConcatIsFlat ==
    ASSUME NEW seqs
    PROVE  Concat(seqs) = FlatOf(seqs)[Len(seqs)]
BY Zenon DEF Concat, FlatOf, IsFlat

\* Such a function exists, by induction over how far it goes.
LEMMA FlatExists ==
    ASSUME NEW seqs, Len(seqs) \in Nat
    PROVE  IsFlat(FlatOf(seqs), seqs, Len(seqs))
<1> DEFINE T == {n \in Nat : \E f : IsFlat(f, seqs, n)}
<1>1. 0 \in T
  <2>1. 0 .. 0 = {0}
    OBVIOUS
  <2>2. IsFlat([i \in {0} |-> <<>>], seqs, 0)
    BY <2>1, Zenon DEF IsFlat
  <2> QED
    BY <2>2, Zenon
<1>2. ASSUME NEW n \in Nat, n \in T PROVE n + 1 \in T
  <2>1. PICK f : IsFlat(f, seqs, n)
    BY <1>2
  <2> DEFINE g == [i \in 0 .. n + 1 |-> IF i = n + 1 THEN f[n] \o seqs[n + 1] ELSE f[i]]
  <2>2. ASSUME NEW i \in 0 .. n + 1
        PROVE  g[i] = IF i = 0 THEN <<>> ELSE g[i - 1] \o seqs[i]
    <3>1. CASE i = n + 1
      <4>1. i # 0 /\ g[i - 1] = f[n] /\ g[i] = f[n] \o seqs[i]
        BY <3>1
      <4> QED
        BY <4>1, Zenon
    <3>2. CASE i # n + 1
      <4>1. i \in 0 .. n /\ g[i] = f[i] /\ (i # 0 => g[i - 1] = f[i - 1])
        BY <3>2
      <4>2. f[i] = IF i = 0 THEN <<>> ELSE f[i - 1] \o seqs[i]
        BY <2>1, <4>1, Zenon DEF IsFlat
      <4> QED
        BY <4>1, <4>2, Zenon
    <3> QED
      BY <3>1, <3>2, Zenon
  <2>3. IsFlat(g, seqs, n + 1)
    BY <2>2, Zenon DEF IsFlat
  <2> QED
    BY <2>3
<1>3. Len(seqs) \in T
  <2> HIDE DEF T
  <2> QED
    BY <1>1, <1>2, SetInduction
<1> QED
  BY <1>3, Zenon DEF FlatOf

\* Sequences are what their elements are.
LEMMA ConcatIs ==
    ASSUME NEW X, NEW s \in Seq(X), NEW t \in Seq(X)
    PROVE  /\ s \o t \in Seq(X)
           /\ Len(s \o t) = Len(s) + Len(t)
           /\ \A i \in 1 .. Len(s) + Len(t) :
                 (s \o t)[i] = IF i <= Len(s) THEN s[i] ELSE t[i - Len(s)]
OBVIOUS

\* Sequences with the same elements are the same.
LEMMA SameElements ==
    ASSUME NEW X, NEW s \in Seq(X), NEW t \in Seq(X), Len(s) = Len(t),
           \A i \in 1 .. Len(s) : s[i] = t[i]
    PROVE  s = t
OBVIOUS

\* A sequence of length 0 is empty.
LEMMA EmptyIs ==
    ASSUME NEW X, NEW s \in Seq(X), Len(s) = 0
    PROVE  s = <<>>
OBVIOUS

\* Nothing in front of a sequence.
LEMMA EmptyConcat ==
    ASSUME NEW X, NEW s \in Seq(X)
    PROVE  <<>> \o s = s
<1>1. <<>> \in Seq(X) /\ Len(<<>>) = 0 /\ Len(s) \in Nat
  OBVIOUS
<1> DEFINE t == <<>> \o s
<1>2. t \in Seq(X) /\ Len(t) = Len(s) /\ \A i \in 1 .. Len(s) : t[i] = s[i]
  BY <1>1, ConcatIs
<1> HIDE DEF t
<1>3. t = s
  BY <1>1, <1>2, SameElements
<1> QED
  BY <1>3 DEF t

\* No sequences.
LEMMA ConcatEmpty == Concat(<<>>) = <<>>
<1>1. Len(<<>>) = 0 /\ 0 \in Nat /\ 0 \in 0 .. 0
  OBVIOUS
<1>2. IsFlat(FlatOf(<<>>), <<>>, 0)
  BY <1>1, FlatExists, Zenon
<1>3. FlatOf(<<>>)[0] = <<>>
  BY <1>1, <1>2, Zenon DEF IsFlat
<1> QED
  BY <1>1, <1>3, ConcatIsFlat, Zenon

\* One sequence more is appended to what the others make.
LEMMA ConcatAppend ==
    ASSUME NEW X, NEW seqs \in Seq(Seq(X)), NEW s \in Seq(X)
    PROVE  /\ Concat(seqs) \in Seq(X)
           /\ Concat(Append(seqs, s)) = Concat(seqs) \o s
<1>0. Len(seqs) \in Nat
  OBVIOUS
<1>1. PICK N, more : N \in Nat /\ N = Len(seqs) /\ more = Append(seqs, s)
  BY <1>0, Zenon
<1>2. /\ Len(more) = N + 1 /\ more[N + 1] = s
      /\ \A i \in 1 .. N : more[i] = seqs[i] /\ seqs[i] \in Seq(X)
  BY <1>1
<1>3. PICK f, g : /\ f = FlatOf(seqs) /\ IsFlat(f, seqs, N)
                  /\ g = FlatOf(more) /\ IsFlat(g, more, N + 1)
  <2>1. Len(more) \in Nat
    BY <1>1, <1>2
  <2>2. /\ IsFlat(FlatOf(seqs), seqs, Len(seqs))
        /\ IsFlat(FlatOf(more), more, Len(more))
    BY <1>1, <2>1, FlatExists, Zenon
  <2> QED
    BY <1>1, <1>2, <2>2, Zenon
<1>4. \A i \in 0 .. N : f[i] = IF i = 0 THEN <<>> ELSE f[i - 1] \o seqs[i]
  BY <1>3, Zenon DEF IsFlat
<1>5. \A i \in 0 .. N + 1 : g[i] = IF i = 0 THEN <<>> ELSE g[i - 1] \o more[i]
  BY <1>3, Zenon DEF IsFlat
<1> DEFINE T == {n \in Nat : n \in 0 .. N => f[n] \in Seq(X) /\ g[n] = f[n]}
<1>6. 0 \in T
  <2>1. 0 \in 0 .. N /\ 0 \in 0 .. N + 1 /\ <<>> \in Seq(X)
    BY <1>1
  <2>2. f[0] = <<>> /\ g[0] = <<>>
    BY <1>4, <1>5, <2>1, Zenon
  <2> QED
    BY <2>1, <2>2, Zenon
<1>7. ASSUME NEW n \in Nat, n \in T PROVE n + 1 \in T
  <2> SUFFICES ASSUME n + 1 \in 0 .. N
               PROVE  f[n + 1] \in Seq(X) /\ g[n + 1] = f[n + 1]
    OBVIOUS
  <2>1. /\ n \in 0 .. N /\ n + 1 \in 1 .. N /\ n + 1 \in 0 .. N + 1
        /\ n + 1 # 0 /\ (n + 1) - 1 = n
    BY <1>1
  <2>2. f[n] \in Seq(X) /\ g[n] = f[n]
    BY <1>7, <2>1, Zenon
  <2>3. f[n + 1] = f[n] \o seqs[n + 1] /\ g[n + 1] = f[n] \o seqs[n + 1]
    BY <1>2, <1>4, <1>5, <2>1, <2>2, Zenon
  <2>4. f[n] \o seqs[n + 1] \in Seq(X)
    BY <1>2, <2>1, <2>2, ConcatIs, Zenon
  <2> QED
    BY <2>3, <2>4, Zenon
<1>8. f[N] \in Seq(X) /\ g[N] = f[N]
  <2>1. \A n \in Nat : n \in T
    <3> HIDE DEF T
    <3> QED
      BY <1>6, <1>7, SetInduction
  <2>2. N \in 0 .. N
    BY <1>1
  <2> QED
    BY <1>1, <2>1, <2>2, Zenon
<1>9. g[N + 1] = g[N] \o s
  <2>1. N + 1 \in 0 .. N + 1 /\ N + 1 # 0 /\ (N + 1) - 1 = N
    BY <1>1
  <2> QED
    BY <1>2, <1>5, <2>1, Zenon
<1> QED
  BY <1>1, <1>2, <1>3, <1>8, <1>9, ConcatIsFlat, Zenon

----------------------------------------------------------------------------
\* The bytes of packets, and where the first n packets of a stream end.
EndOf(bs, n) == Len(Stream(SubSeq(bs, 1, n)))

\* The bytes of a packet, each of which names the length of the body.
LEMMA BytesAre ==
    ASSUME NEW n \in Nat, NEW b \in Nat
    PROVE  /\ Bytes(n, b) \in Seq(Byte)
           /\ Len(Bytes(n, b)) = HeadLen + b
           /\ \A i \in 1 .. HeadLen + b : Bytes(n, b)[i].body = b
<1>1. HeadLen + b \in Nat
  BY SizesOK
<1>2. \A i \in 1 .. HeadLen + b : [packet |-> n, offset |-> i - 1, body |-> b] \in Byte
  BY <1>1 DEF Byte
<1> QED
  BY <1>1, <1>2 DEF Bytes

\* A packet more puts its bytes at the end of the stream.
LEMMA StreamAppend ==
    ASSUME NEW bs \in Seq(Nat), NEW b \in Nat
    PROVE  /\ Stream(bs) \in Seq(Byte)
           /\ Stream(Append(bs, b)) = Stream(bs) \o Bytes(Len(bs) + 1, b)
<1>0. Len(bs) \in Nat /\ DOMAIN bs = 1 .. Len(bs) /\ \A i \in 1 .. Len(bs) : bs[i] \in Nat
  OBVIOUS
<1>1. PICK N, more : N \in Nat /\ N = Len(bs) /\ more = Append(bs, b)
  BY <1>0, Zenon
<1>2. /\ DOMAIN more = 1 .. N + 1 /\ more[N + 1] = b
      /\ \A i \in 1 .. N : more[i] = bs[i]
  BY <1>1
<1>3. PICK p, q : /\ p = [n \in DOMAIN bs |-> Bytes(n, bs[n])]
                  /\ q = [n \in DOMAIN more |-> Bytes(n, more[n])]
  BY Zenon
<1>4. PICK s : s = Bytes(N + 1, b) /\ s \in Seq(Byte)
  <2>1. N + 1 \in Nat
    BY <1>1
  <2> QED
    BY <2>1, BytesAre, Zenon
<1>5. p \in Seq(Seq(Byte)) /\ Len(p) = N /\ \A i \in 1 .. N : p[i] = Bytes(i, bs[i])
  <2>1. \A i \in 1 .. N : i \in Nat /\ bs[i] \in Nat
    BY <1>0, <1>1
  <2>2. \A i \in 1 .. N : Bytes(i, bs[i]) \in Seq(Byte)
    BY <2>1, BytesAre, Zenon
  <2>3. p = [n \in 1 .. N |-> Bytes(n, bs[n])]
    BY <1>0, <1>1, <1>3, Zenon
  <2> QED
    BY <1>1, <2>2, <2>3
<1>6. q \in Seq(Seq(Byte)) /\ Len(q) = N + 1 /\ q[N + 1] = s /\ \A i \in 1 .. N : q[i] = p[i]
  <2>1. q = [n \in 1 .. N + 1 |-> Bytes(n, more[n])]
    BY <1>2, <1>3, Zenon
  <2>2. ASSUME NEW i \in 1 .. N + 1
        PROVE  q[i] = (IF i = N + 1 THEN s ELSE p[i]) /\ q[i] \in Seq(Byte)
    <3>1. CASE i = N + 1
      BY <1>2, <1>4, <2>1, <3>1, Zenon
    <3>2. CASE i # N + 1
      <4>1. i \in 1 .. N /\ p[i] \in Seq(Byte)
        BY <1>1, <1>5, <3>2
      <4> QED
        BY <1>2, <1>5, <2>1, <3>2, <4>1, Zenon
    <3> QED
      BY <3>1, <3>2
  <2>3. q = [i \in 1 .. N + 1 |-> q[i]]
    BY <2>1, Zenon
  <2>4. q \in Seq(Seq(Byte)) /\ Len(q) = N + 1
    BY <1>1, <2>2, <2>3
  <2> QED
    BY <1>1, <2>2, <2>4
<1>7. q = Append(p, s)
  <2> DEFINE a == Append(p, s)
  <2>1. /\ a \in Seq(Seq(Byte)) /\ Len(a) = N + 1 /\ a[N + 1] = s
        /\ \A i \in 1 .. N : a[i] = p[i]
    BY <1>1, <1>4, <1>5
  <2> HIDE DEF a
  <2>2. Len(q) = Len(a) /\ \A i \in 1 .. Len(q) : q[i] = a[i]
    <3>1. \A i \in 1 .. N + 1 : i \in 1 .. N \/ i = N + 1
      BY <1>1
    <3> QED
      BY <1>6, <2>1, <3>1, Zenon
  <2>3. q = a
    BY <1>6, <2>1, <2>2, SameElements, Zenon
  <2> QED
    BY <2>3 DEF a
<1>8. Concat(p) \in Seq(Byte) /\ Concat(q) = Concat(p) \o s
  BY <1>4, <1>5, <1>7, ConcatAppend, Zenon
<1> QED
  BY <1>1, <1>3, <1>4, <1>8, Zenon DEF Stream

\* No packets have no bytes.
LEMMA StreamEmpty == Stream(<<>>) = <<>>
<1> DEFINE p == [n \in DOMAIN <<>> |-> Bytes(n, <<>>[n])]
<1>1. p = <<>> /\ Len(p) = 0
  OBVIOUS
<1>2. Concat(p) = p
  BY <1>1, ConcatEmpty, Zenon
<1> QED
  BY <1>1, <1>2, Zenon DEF Stream

\* The first packets of a stream, and one more.
LEMMA UpToIs ==
    ASSUME NEW bs \in Seq(Nat)
    PROVE  /\ SubSeq(bs, 1, 0) = <<>> /\ SubSeq(bs, 1, Len(bs)) = bs
           /\ \A n \in 0 .. Len(bs) : /\ SubSeq(bs, 1, n) \in Seq(Nat)
                                      /\ Len(SubSeq(bs, 1, n)) = n
           /\ \A n \in 0 .. Len(bs) - 1 :
                 /\ bs[n + 1] \in Nat
                 /\ SubSeq(bs, 1, n + 1) = Append(SubSeq(bs, 1, n), bs[n + 1])
<1>0. Len(bs) \in Nat /\ \A i \in 1 .. Len(bs) : bs[i] \in Nat
  OBVIOUS
<1>1. ASSUME NEW n \in 0 .. Len(bs)
      PROVE  /\ SubSeq(bs, 1, n) \in Seq(Nat) /\ Len(SubSeq(bs, 1, n)) = n
             /\ \A i \in 1 .. n : SubSeq(bs, 1, n)[i] = bs[i]
  <2>1. \A i \in 1 .. n : bs[i] \in Nat
    BY <1>0
  <2>2. /\ SubSeq(bs, 1, n) \in Seq(Nat)
        /\ Len(SubSeq(bs, 1, n)) = IF 1 <= n THEN n - 1 + 1 ELSE 0
        /\ \A i \in 1 .. n - 1 + 1 : SubSeq(bs, 1, n)[i] = bs[1 + i - 1]
    BY <1>0, <2>1
  <2> QED
    BY <1>0, <2>2
<1>2. SubSeq(bs, 1, 0) = <<>>
  <2>1. 0 \in 0 .. Len(bs)
    BY <1>0
  <2> QED
    BY <1>1, <2>1, EmptyIs, Zenon
<1>3. SubSeq(bs, 1, Len(bs)) = bs
  <2>1. Len(bs) \in 0 .. Len(bs)
    BY <1>0
  <2> QED
    BY <1>1, <2>1, SameElements, Zenon
<1>4. ASSUME NEW n \in 0 .. Len(bs) - 1
      PROVE  /\ bs[n + 1] \in Nat
             /\ SubSeq(bs, 1, n + 1) = Append(SubSeq(bs, 1, n), bs[n + 1])
  <2>1. PICK s, t : s = SubSeq(bs, 1, n) /\ t = SubSeq(bs, 1, n + 1)
    BY Zenon
  <2>2. n \in 0 .. Len(bs) /\ n + 1 \in 0 .. Len(bs) /\ n \in Nat /\ bs[n + 1] \in Nat
    BY <1>0
  <2>3. /\ s \in Seq(Nat) /\ Len(s) = n /\ \A i \in 1 .. n : s[i] = bs[i]
        /\ t \in Seq(Nat) /\ Len(t) = n + 1 /\ \A i \in 1 .. n + 1 : t[i] = bs[i]
    BY <1>1, <2>1, <2>2, Zenon
  <2> DEFINE a == Append(s, bs[n + 1])
  <2>4. /\ a \in Seq(Nat) /\ Len(a) = n + 1 /\ a[n + 1] = bs[n + 1]
        /\ \A i \in 1 .. n : a[i] = bs[i]
    BY <2>2, <2>3
  <2> HIDE DEF a
  <2>5. Len(t) = Len(a) /\ \A i \in 1 .. Len(t) : t[i] = a[i]
    <3>1. \A i \in 1 .. n + 1 : i \in 1 .. n \/ i = n + 1
      BY <2>2
    <3> QED
      BY <2>3, <2>4, <3>1, Zenon
  <2>6. t = a
    BY <2>3, <2>4, <2>5, SameElements, Zenon
  <2> QED
    BY <2>1, <2>2, <2>6, Zenon DEF a
<1> QED
  BY <1>1, <1>2, <1>3, <1>4, Zenon

\* The ends of packets: each packet takes its header and its body.
LEMMA StreamSteps ==
    ASSUME NEW bs \in Seq(Nat)
    PROVE  /\ EndOf(bs, 0) = 0 /\ EndOf(bs, Len(bs)) = Len(Stream(bs))
           /\ \A n \in 0 .. Len(bs) : /\ Stream(SubSeq(bs, 1, n)) \in Seq(Byte)
                                      /\ EndOf(bs, n) \in Nat
           /\ \A n \in 0 .. Len(bs) - 1 :
                 /\ EndOf(bs, n + 1) = EndOf(bs, n) + HeadLen + bs[n + 1]
                 /\ Stream(SubSeq(bs, 1, n + 1)) =
                       Stream(SubSeq(bs, 1, n)) \o Bytes(n + 1, bs[n + 1])
<1>0. Len(bs) \in Nat
  OBVIOUS
<1>1. EndOf(bs, 0) = 0 /\ EndOf(bs, Len(bs)) = Len(Stream(bs))
  <2>1. Len(<<>>) = 0
    OBVIOUS
  <2> QED
    BY <2>1, UpToIs, StreamEmpty, Zenon DEF EndOf
<1>2. ASSUME NEW n \in 0 .. Len(bs)
      PROVE  Stream(SubSeq(bs, 1, n)) \in Seq(Byte) /\ EndOf(bs, n) \in Nat
  <2>1. SubSeq(bs, 1, n) \in Seq(Nat) /\ 0 \in Nat
    BY UpToIs
  <2>2. Stream(SubSeq(bs, 1, n)) \in Seq(Byte)
    BY <2>1, StreamAppend, Zenon
  <2> QED
    BY <2>2 DEF EndOf
<1>3. ASSUME NEW n \in 0 .. Len(bs) - 1
      PROVE  /\ EndOf(bs, n + 1) = EndOf(bs, n) + HeadLen + bs[n + 1]
             /\ Stream(SubSeq(bs, 1, n + 1)) =
                   Stream(SubSeq(bs, 1, n)) \o Bytes(n + 1, bs[n + 1])
  <2>1. n \in 0 .. Len(bs) /\ n + 1 \in Nat
    BY <1>0
  <2>2. PICK s, b, t : /\ s = Stream(SubSeq(bs, 1, n)) /\ b = bs[n + 1]
                       /\ t = Bytes(n + 1, b)
    BY Zenon
  <2>3. b \in Nat /\ Stream(SubSeq(bs, 1, n + 1)) = s \o t
    BY <2>1, <2>2, UpToIs, StreamAppend, Zenon
  <2>4. s \in Seq(Byte) /\ t \in Seq(Byte) /\ Len(t) = HeadLen + b
    BY <1>2, <2>1, <2>2, <2>3, BytesAre, Zenon
  <2>5. Len(s \o t) = Len(s) + Len(t) /\ Len(s) \in Nat
    BY <2>4
  <2>6. Len(s) + Len(t) = Len(s) + HeadLen + b
    BY <2>3, <2>4, <2>5, SizesOK
  <2> QED
    BY <2>2, <2>3, <2>5, <2>6, Zenon DEF EndOf
<1> QED
  BY <1>1, <1>2, <1>3, Zenon
\* The ends of packets grow by at least a header from one to the next.
LEMMA EndsGrow ==
    ASSUME NEW bs \in Seq(Nat), NEW m \in 0 .. Len(bs), NEW n \in 0 .. Len(bs), m <= n
    PROVE  /\ EndOf(bs, m) <= EndOf(bs, n)
           /\ m < n => EndOf(bs, m + 1) <= EndOf(bs, n)
<1>0. Len(bs) \in Nat /\ m \in Nat /\ n \in Nat
  OBVIOUS
<1>1. \A i \in 0 .. Len(bs) : EndOf(bs, i) \in Nat
  BY StreamSteps, Zenon
<1>2. ASSUME NEW l \in 0 .. Len(bs), l <= n
      PROVE  EndOf(bs, l) <= EndOf(bs, n)
  <2> DEFINE T == {d \in Nat : l + d <= Len(bs) => EndOf(bs, l) <= EndOf(bs, l + d)}
  <2>1. 0 \in T
    <3>1. l + 0 = l /\ EndOf(bs, l) \in Nat
      BY <1>0, <1>1
    <3> QED
      BY <3>1
  <2>2. ASSUME NEW d \in Nat, d \in T PROVE d + 1 \in T
    <3> SUFFICES ASSUME l + (d + 1) <= Len(bs)
                 PROVE  EndOf(bs, l) <= EndOf(bs, l + (d + 1))
      OBVIOUS
    <3>1. /\ l + d \in 0 .. Len(bs) - 1 /\ l + d \in 0 .. Len(bs)
          /\ l + (d + 1) = (l + d) + 1 /\ l + d <= Len(bs)
      BY <1>0
    <3>2. EndOf(bs, (l + d) + 1) = EndOf(bs, l + d) + HeadLen + bs[(l + d) + 1]
      BY <3>1, StreamSteps, Zenon
    <3>3. bs[(l + d) + 1] \in Nat
      BY <3>1, UpToIs, Zenon
    <3>4. PICK x \in Nat, y \in Nat, z \in Nat :
              x = EndOf(bs, l) /\ y = EndOf(bs, l + d) /\ z = bs[(l + d) + 1]
      BY <1>1, <3>1, <3>3, Zenon
    <3>5. x <= y
      BY <2>2, <3>1, <3>4, Zenon
    <3>6. x <= y + HeadLen + z
      BY <3>5, SizesOK
    <3> QED
      BY <3>1, <3>2, <3>4, <3>6, Zenon
  <2>3. n - l \in T
    <3> HIDE DEF T
    <3>1. n - l \in Nat
      BY <1>0, <1>2
    <3> QED
      BY <2>1, <2>2, <3>1, SetInduction, Zenon
  <2>4. l + (n - l) = n /\ n <= Len(bs)
    BY <1>0
  <2> QED
    BY <2>3, <2>4, Zenon
<1>3. m < n => m + 1 \in 0 .. Len(bs) /\ m + 1 <= n
  BY <1>0
<1> QED
  BY <1>2, <1>3, Zenon

\* Where a packet is in the stream.
LEMMA PacketInStream ==
    ASSUME NEW bs \in Seq(Nat), NEW k \in 0 .. Len(bs) - 1,
           NEW i \in 1 .. HeadLen + bs[k + 1]
    PROVE  Stream(bs)[EndOf(bs, k) + i] = Bytes(k + 1, bs[k + 1])[i]
<1>0. Len(bs) \in Nat /\ k \in Nat /\ k \in 0 .. Len(bs)
  OBVIOUS
<1>1. PICK b, e, j : /\ b = bs[k + 1] /\ e = EndOf(bs, k) /\ j = e + i
                     /\ b \in Nat /\ e \in Nat
  BY <1>0, StreamSteps, UpToIs, Zenon
<1>2. j \in Nat /\ 1 <= j /\ i \in 1 .. HeadLen + b /\ HeadLen + b \in Nat
  <2>1. HeadLen \in Nat /\ i \in 1 .. HeadLen + b
    BY <1>1, SizesOK, Zenon
  <2> QED
    BY <1>1, <2>1
<1> DEFINE S(n) == Stream(SubSeq(bs, 1, n))
           T == {d \in Nat : k + 1 + d <= Len(bs) =>
                     /\ j <= EndOf(bs, k + 1 + d)
                     /\ S(k + 1 + d)[j] = Bytes(k + 1, b)[i]}
<1>3. \A n \in 0 .. Len(bs) : S(n) \in Seq(Byte) /\ Len(S(n)) \in Nat /\ EndOf(bs, n) = Len(S(n))
  BY StreamSteps, Zenon DEF EndOf
<1>4. ASSUME NEW n \in 0 .. Len(bs) - 1
      PROVE  /\ EndOf(bs, n + 1) = EndOf(bs, n) + (HeadLen + bs[n + 1])
             /\ \A x \in 1 .. EndOf(bs, n) + (HeadLen + bs[n + 1]) :
                   S(n + 1)[x] = IF x <= EndOf(bs, n) THEN S(n)[x]
                                 ELSE Bytes(n + 1, bs[n + 1])[x - EndOf(bs, n)]
  <2>1. n \in 0 .. Len(bs) /\ n + 1 \in Nat
    BY <1>0
  <2>2. PICK s, t : s = S(n) /\ t = Bytes(n + 1, bs[n + 1])
    BY Zenon
  <2>3. bs[n + 1] \in Nat /\ S(n + 1) = s \o t
    BY <2>2, UpToIs, StreamSteps, Zenon
  <2>4. s \in Seq(Byte) /\ t \in Seq(Byte) /\ Len(t) = HeadLen + bs[n + 1] /\ EndOf(bs, n) = Len(s)
    BY <1>3, <2>1, <2>2, <2>3, BytesAre, Zenon
  <2>5. /\ Len(s \o t) = Len(s) + Len(t)
        /\ \A x \in 1 .. Len(s) + Len(t) :
              (s \o t)[x] = IF x <= Len(s) THEN s[x] ELSE t[x - Len(s)]
    <3>1. s \in Seq(Byte) /\ t \in Seq(Byte)
      BY <2>4, Zenon
    <3> QED
      BY <3>1, ConcatIs, ZenonT(30)
  <2>6. n + 1 \in 0 .. Len(bs)
    BY <1>0
  <2>7. EndOf(bs, n + 1) = Len(s \o t)
    BY <1>3, <2>3, <2>6, Zenon
  <2> QED
    BY <2>2, <2>3, <2>4, <2>5, <2>7, Zenon
<1>5. 0 \in T
  <2>1. k + 1 + 0 = k + 1 /\ e + (HeadLen + b) \in Nat
    BY <1>0, <1>1, <1>2
  <2>2. j \in 1 .. e + (HeadLen + b) /\ ~(j <= e) /\ j - e = i
    BY <1>1, <1>2
  <2>3. EndOf(bs, k + 1) = e + (HeadLen + b) /\ S(k + 1)[j] = Bytes(k + 1, b)[i]
    BY <1>1, <1>4, <2>2, Zenon
  <2>4. j <= e + (HeadLen + b)
    BY <2>2
  <2> QED
    BY <2>1, <2>3, <2>4, Zenon
<1>6. ASSUME NEW d \in Nat, d \in T PROVE d + 1 \in T
  <2>0. d + 1 \in Nat
    OBVIOUS
  <2> SUFFICES ASSUME k + 1 + (d + 1) <= Len(bs)
               PROVE  /\ j <= EndOf(bs, k + 1 + (d + 1))
                      /\ S(k + 1 + (d + 1))[j] = Bytes(k + 1, b)[i]
    BY <2>0, Zenon
  <2>1. PICK n : n = k + 1 + d
    BY Zenon
  <2>2. /\ n \in 0 .. Len(bs) - 1 /\ n \in 0 .. Len(bs) /\ k + 1 + (d + 1) = n + 1
        /\ k + 1 + d <= Len(bs)
    BY <1>0, <2>1
  <2>3. j <= EndOf(bs, n) /\ S(n)[j] = Bytes(k + 1, b)[i]
    BY <1>6, <2>1, <2>2, Zenon
  <2>4. PICK x, y : /\ x = EndOf(bs, n) /\ y = HeadLen + bs[n + 1] /\ x \in Nat /\ bs[n + 1] \in Nat
    BY <1>3, <2>2, UpToIs, Zenon
  <2>5. y \in Nat
    BY <2>4, SizesOK
  <2>6. j \in 1 .. x + y /\ j <= x /\ j <= x + y
    BY <1>2, <2>3, <2>4, <2>5
  <2>7. EndOf(bs, n + 1) = x + y /\ S(n + 1)[j] = S(n)[j]
    BY <1>4, <2>2, <2>4, <2>6, Zenon
  <2> QED
    BY <2>2, <2>3, <2>6, <2>7, Zenon
<1>7. Len(bs) - (k + 1) \in T
  <2> HIDE DEF T
  <2>1. Len(bs) - (k + 1) \in Nat
    BY <1>0
  <2> QED
    BY <1>5, <1>6, <2>1, SetInduction, Zenon
<1>8. k + 1 + (Len(bs) - (k + 1)) = Len(bs) /\ Len(bs) <= Len(bs)
  BY <1>0
<1>9. S(Len(bs))[j] = Bytes(k + 1, b)[i] /\ S(Len(bs)) = Stream(bs)
  BY <1>7, <1>8, UpToIs, Zenon
<1> QED
  BY <1>1, <1>9, Zenon
----------------------------------------------------------------------------
\* How many packets of a stream are whole among its first r bytes.
IsWhole(bs, r, n) == EndOf(bs, n) <= r /\ (n < Len(bs) => EndOf(bs, n + 1) > r)
WholeOf(bs, r) == CHOOSE n \in 0 .. Len(bs) : IsWhole(bs, r, n)

\* There is such a number: the first whose successor ends too late.
LEMMA WholeExists ==
    ASSUME NEW bs \in Seq(Nat), NEW r \in Nat
    PROVE  WholeOf(bs, r) \in 0 .. Len(bs) /\ IsWhole(bs, r, WholeOf(bs, r))
<1>0. Len(bs) \in Nat /\ \A n \in 0 .. Len(bs) : EndOf(bs, n) \in Nat
  BY StreamSteps
<1> DEFINE T == {n \in 0 .. Len(bs) : EndOf(bs, n) > r}
<1>1. \E n \in 0 .. Len(bs) : IsWhole(bs, r, n)
  <2>1. CASE T = {}
    <3>1. Len(bs) \in 0 .. Len(bs) /\ ~(Len(bs) < Len(bs))
      BY <1>0
    <3>2. EndOf(bs, Len(bs)) <= r
      BY <1>0, <2>1, <3>1
    <3> QED
      BY <3>1, <3>2, Zenon DEF IsWhole
  <2>2. CASE T # {}
    <3>1. T \subseteq Nat
      BY <1>0
    <3>2. PICK x \in T : \A y \in T : x <= y
      BY <2>2, <3>1, LeastNumber, Zenon
    <3>3. x # 0
      <4>1. EndOf(bs, 0) = 0
        BY StreamSteps, Zenon
      <4>2. ~(0 > r)
        OBVIOUS
      <4> QED
        BY <3>2, <4>1, <4>2, Zenon
    <3>4. x - 1 \in 0 .. Len(bs) /\ (x - 1) + 1 = x /\ ~(x <= x - 1)
      BY <1>0, <3>2, <3>3
    <3>5. x - 1 \notin T
      BY <3>2, <3>4, Zenon
    <3>6. EndOf(bs, x - 1) <= r
      BY <1>0, <3>4, <3>5
    <3> QED
      BY <3>2, <3>4, <3>6, Zenon DEF IsWhole
  <2> QED
    BY <2>1, <2>2, Zenon
<1> QED
  BY <1>1, Zenon DEF WholeOf

\* There is only one, for the ends grow.
LEMMA WholeUnique ==
    ASSUME NEW bs \in Seq(Nat), NEW r \in Nat, NEW n \in 0 .. Len(bs), IsWhole(bs, r, n)
    PROVE  WholeOf(bs, r) = n
<1>0. Len(bs) \in Nat /\ \A i \in 0 .. Len(bs) : EndOf(bs, i) \in Nat
  BY StreamSteps
<1>1. ASSUME NEW l \in 0 .. Len(bs), NEW m \in 0 .. Len(bs), l < m,
             IsWhole(bs, r, l), IsWhole(bs, r, m)
      PROVE  FALSE
  <2>1. l <= m /\ l < Len(bs) /\ l + 1 \in 0 .. Len(bs)
    BY <1>0, <1>1
  <2>2. EndOf(bs, l + 1) <= EndOf(bs, m)
    BY <1>1, <2>1, EndsGrow, Zenon
  <2>3. EndOf(bs, l + 1) > r /\ EndOf(bs, m) <= r
    BY <1>1, <2>1, Zenon DEF IsWhole
  <2>4. PICK x \in Nat, y \in Nat : x = EndOf(bs, l + 1) /\ y = EndOf(bs, m)
    BY <1>0, <2>1, Zenon
  <2>5. x <= y /\ x > r /\ y <= r
    BY <2>2, <2>3, <2>4, Zenon
  <2> QED
    BY <2>5
<1>2. PICK m \in 0 .. Len(bs) : m = WholeOf(bs, r) /\ IsWhole(bs, r, m)
  BY WholeExists, Zenon
<1>3. ~(m < n) /\ ~(n < m)
  BY <1>1, <1>2, Zenon
<1> QED
  BY <1>0, <1>2, <1>3

----------------------------------------------------------------------------
\* What the rounds of the parser come to, from each position on.
FromOf(buffer) == CHOOSE f : f = [pos \in 0 .. Len(buffer) |-> ParseRound(buffer, pos, f)]

\* A round looks at what later rounds come to only.
LEMMA RoundIsLocal ==
    ASSUME NEW buffer \in Seq(Byte), NEW pos \in 0 .. Len(buffer), NEW f, NEW g,
           \A p \in 0 .. Len(buffer) : p > pos => f[p] = g[p]
    PROVE  ParseRound(buffer, pos, f) = ParseRound(buffer, pos, g)
<1>0. Len(buffer) \in Nat /\ pos \in Nat
  OBVIOUS
<1>1. PICK left, body, next : /\ left = Len(buffer) - pos /\ body = buffer[pos + 1].body
                              /\ next = pos + HeadLen + body
  BY Zenon
<1>2. CASE left < HeadLen
  BY <1>1, <1>2, Zenon DEF ParseRound
<1>3. CASE ~(left < HeadLen) /\ EndsBeyond(left, body)
  BY <1>1, <1>3, Zenon DEF ParseRound
<1>4. CASE ~(left < HeadLen) /\ ~EndsBeyond(left, body)
  <2>1. buffer[pos + 1] \in Byte
    BY <1>0, <1>1, <1>4, SizesOK
  <2>2. body \in Nat
    BY <1>1, <2>1 DEF Byte
  <2>3. next \in 0 .. Len(buffer) /\ next > pos
    BY <1>0, <1>1, <1>4, <2>2, SizesOK DEF EndsBeyond
  <2>4. f[next] = g[next]
    BY <2>3, Zenon
  <2> QED
    BY <1>1, <2>4, Zenon DEF ParseRound
<1> QED
  BY <1>2, <1>3, <1>4, Zenon

\* The parser is well defined.
LEMMA ParseFrom ==
    ASSUME NEW buffer \in Seq(Byte)
    PROVE  /\ ParseStream(buffer) = FromOf(buffer)[0]
           /\ \A pos \in 0 .. Len(buffer) :
                 FromOf(buffer)[pos] = ParseRound(buffer, pos, FromOf(buffer))
<1>0. Len(buffer) \in Nat
  OBVIOUS
<1>1. PICK N \in Nat : N = Len(buffer)
  BY <1>0, Zenon
<1> DEFINE Solves(f, d) == /\ f = [pos \in 0 .. N |-> f[pos]]
                           /\ \A pos \in 0 .. N :
                                 pos + d > N => f[pos] = ParseRound(buffer, pos, f)
           T == {d \in Nat : \E f : Solves(f, d)}
<1>2. 0 \in T
  <2> DEFINE z == [pos \in 0 .. N |-> 0]
  <2>1. Solves(z, 0)
    <3>1. z = [pos \in 0 .. N |-> z[pos]]
      BY Zenon
    <3>2. \A pos \in 0 .. N : ~(pos + 0 > N)
      BY <1>1
    <3> QED
      BY <3>1, <3>2, Zenon
  <2> QED
    BY <2>1, Zenon
<1>3. ASSUME NEW d \in Nat, d \in T PROVE d + 1 \in T
  <2>0. d + 1 \in Nat
    OBVIOUS
  <2>1. PICK f : Solves(f, d)
    BY <1>3, Zenon
  <2> DEFINE g == [pos \in 0 .. N |-> IF pos + d = N THEN ParseRound(buffer, pos, f) ELSE f[pos]]
  <2>2. g = [pos \in 0 .. N |-> g[pos]]
    BY Zenon
  <2>3. ASSUME NEW pos \in 0 .. N, pos + (d + 1) > N
        PROVE  g[pos] = ParseRound(buffer, pos, g)
    <3>1. \A p \in 0 .. N : p > pos => f[p] = g[p]
      <4>1. \A p \in 0 .. N : p > pos => p + d # N
        BY <1>1, <2>3
      <4> QED
        BY <4>1, Zenon
    <3>2. ParseRound(buffer, pos, f) = ParseRound(buffer, pos, g)
      BY <1>1, <3>1, RoundIsLocal, Zenon
    <3>3. CASE pos + d = N
      BY <3>2, <3>3, Zenon
    <3>4. CASE pos + d # N
      <4>1. pos + d > N
        BY <1>1, <2>3, <3>4
      <4> QED
        BY <2>1, <3>2, <3>4, <4>1, Zenon
    <3> QED
      BY <3>3, <3>4, Zenon
  <2>4. Solves(g, d + 1)
    BY <2>2, <2>3, Zenon
  <2> QED
    BY <2>0, <2>4, Zenon
<1>4. N + 1 \in T
  <2> HIDE DEF T
  <2>1. N + 1 \in Nat
    BY <1>1
  <2> QED
    BY <1>2, <1>3, <2>1, SetInduction, Zenon
<1>5. \E f : f = [pos \in 0 .. N |-> ParseRound(buffer, pos, f)]
  <2>1. PICK f : Solves(f, N + 1)
    BY <1>4, Zenon
  <2>2. \A pos \in 0 .. N : pos + (N + 1) > N
    BY <1>1
  <2> QED
    BY <2>1, <2>2, Zenon
<1>6. FromOf(buffer) = [pos \in 0 .. N |-> ParseRound(buffer, pos, FromOf(buffer))]
  BY <1>1, <1>5, Zenon DEF FromOf
<1>7. ParseStream(buffer) = FromOf(buffer)[0]
  BY Zenon DEF ParseStream, FromOf
<1> QED
  BY <1>1, <1>6, <1>7, Zenon
----------------------------------------------------------------------------
\* The part t of a sequence s behind element a, up to element b.
IsPart(t, X, s, a, b) ==
    /\ t \in Seq(X) /\ Len(t) = b - a
    /\ \A i \in 1 .. b - a : t[i] = s[a + i]

\* SubSeq gives parts.
LEMMA SubSeqIs ==
    ASSUME NEW X, NEW s \in Seq(X), NEW a \in Nat, NEW b \in Nat, a <= b, b <= Len(s)
    PROVE  IsPart(SubSeq(s, a + 1, b), X, s, a, b)
<1>0. Len(s) \in Nat
  OBVIOUS
<1>1. \A i \in a + 1 .. b : s[i] \in X
  BY <1>0
<1>2. /\ SubSeq(s, a + 1, b) \in Seq(X)
      /\ Len(SubSeq(s, a + 1, b)) = IF a + 1 <= b THEN b - (a + 1) + 1 ELSE 0
      /\ \A i \in 1 .. b - (a + 1) + 1 : SubSeq(s, a + 1, b)[i] = s[a + 1 + i - 1]
  BY <1>1
<1>3. b - (a + 1) + 1 = b - a /\ \A i \in 1 .. b - a : a + 1 + i - 1 = a + i
  OBVIOUS
<1> QED
  BY <1>2, <1>3 DEF IsPart

\* The same part twice.
LEMMA SamePart ==
    ASSUME NEW X, NEW s, NEW a, NEW b, NEW t, NEW u,
           IsPart(t, X, s, a, b), IsPart(u, X, s, a, b)
    PROVE  t = u
<1>1. t \in Seq(X) /\ u \in Seq(X) /\ Len(t) = Len(u)
  BY Zenon DEF IsPart
<1>2. \A i \in 1 .. Len(t) : t[i] = u[i]
  BY Zenon DEF IsPart
<1> QED
  BY <1>1, <1>2, SameElements, Zenon

\* A part of a part.
LEMMA PartOfPart ==
    ASSUME NEW X, NEW s \in Seq(X), NEW a \in Nat, NEW b \in Nat, NEW t,
           IsPart(t, X, s, a, b), NEW c \in Nat, NEW d \in Nat, c <= d, d <= b - a
    PROVE  IsPart(SubSeq(t, c + 1, d), X, s, a + c, a + d)
<1>1. t \in Seq(X) /\ Len(t) = b - a /\ \A i \in 1 .. b - a : t[i] = s[a + i]
  BY Zenon DEF IsPart
<1>2. PICK u : u = SubSeq(t, c + 1, d) /\ IsPart(u, X, t, c, d)
  <2>1. d <= Len(t)
    BY <1>1
  <2>2. IsPart(SubSeq(t, c + 1, d), X, t, c, d)
    BY <1>1, <2>1, SubSeqIs, Zenon
  <2> QED
    BY <2>2, Zenon
<1>3. /\ \A i \in 1 .. d - c : c + i \in 1 .. b - a /\ a + (c + i) = (a + c) + i
      /\ (a + d) - (a + c) = d - c
  OBVIOUS
<1>4. u \in Seq(X) /\ Len(u) = d - c /\ \A i \in 1 .. d - c : u[i] = t[c + i]
  BY <1>2, Zenon DEF IsPart
<1>5. \A i \in 1 .. d - c : u[i] = s[(a + c) + i]
  BY <1>1, <1>3, <1>4, Zenon
<1>6. IsPart(u, X, s, a + c, a + d)
  BY <1>3, <1>4, <1>5, Zenon DEF IsPart
<1> QED
  BY <1>2, <1>6, Zenon

\* The bytes of a stream from the end of packet w up to byte r, seen from the
\* end of a later packet k.
IsStretch(bs, w, k, r, buffer, pos) ==
    /\ bs \in Seq(Nat) /\ w \in 0 .. Len(bs) /\ k \in 0 .. Len(bs) /\ w <= k
    /\ r \in Nat /\ EndOf(bs, k) <= r /\ r <= Len(Stream(bs))
    /\ buffer = SubSeq(Stream(bs), EndOf(bs, w) + 1, r)
    /\ pos = EndOf(bs, k) - EndOf(bs, w)

\* A stream is a sequence of bytes.
LEMMA StreamIs ==
    ASSUME NEW bs \in Seq(Nat)
    PROVE  Stream(bs) \in Seq(Byte) /\ Len(Stream(bs)) \in Nat
<1>1. Stream(bs) \in Seq(Byte)
  <2>1. Len(bs) \in 0 .. Len(bs)
    OBVIOUS
  <2> QED
    BY <2>1, StreamSteps, UpToIs, Zenon
<1> QED
  BY <1>1

Numbers(a, e, r, pos) ==
    a \in Nat /\ e \in Nat /\ r \in Nat /\ a <= e /\ e <= r /\ pos = e - a
Placed(bs, w, k, r, buffer, pos, a, e, S) ==
    /\ a = EndOf(bs, w) /\ e = EndOf(bs, k) /\ S = Stream(bs)
    /\ bs \in Seq(Nat) /\ w \in 0 .. Len(bs) /\ k \in 0 .. Len(bs) /\ w <= k
    /\ S \in Seq(Byte) /\ r <= Len(S) /\ buffer \in Seq(Byte) /\ Len(buffer) = r - a
    /\ IsPart(buffer, Byte, S, a, r)

\* The numbers and sequences of a stretch.
LEMMA StretchPlace ==
    ASSUME NEW bs, NEW w, NEW k, NEW r, NEW buffer, NEW pos,
           IsStretch(bs, w, k, r, buffer, pos)
    PROVE  \E a, e, S : Placed(bs, w, k, r, buffer, pos, a, e, S) /\ Numbers(a, e, r, pos)
<1>1. /\ bs \in Seq(Nat) /\ w \in 0 .. Len(bs) /\ k \in 0 .. Len(bs) /\ w <= k
      /\ r \in Nat /\ EndOf(bs, k) <= r /\ r <= Len(Stream(bs))
  BY Zenon DEF IsStretch
<1>2. PICK a, e : a = EndOf(bs, w) /\ e = EndOf(bs, k) /\ a \in Nat /\ e \in Nat /\ a <= e
  BY <1>1, StreamSteps, EndsGrow, Zenon
<1>3. e <= r /\ pos = e - a
  BY <1>1, <1>2, Zenon DEF IsStretch
<1>4. a <= r
  BY <1>1, <1>2, <1>3
<1>5. IsPart(SubSeq(Stream(bs), a + 1, r), Byte, Stream(bs), a, r)
  BY <1>1, <1>2, <1>4, StreamIs, SubSeqIs, Zenon
<1>6. IsPart(buffer, Byte, Stream(bs), a, r)
  BY <1>2, <1>5, Zenon DEF IsStretch
<1>7. buffer \in Seq(Byte) /\ Len(buffer) = r - a
  BY <1>6, Zenon DEF IsPart
<1>8. Numbers(a, e, r, pos)
  BY <1>1, <1>2, <1>3, Zenon DEF Numbers
<1>9. Placed(bs, w, k, r, buffer, pos, a, e, Stream(bs))
  BY <1>1, <1>2, <1>6, <1>7, StreamIs, Zenon DEF Placed
<1> QED
  BY <1>8, <1>9, Zenon

\* CSessionBuffer::move by whole packets leaves the bytes behind them.
LEMMA StretchMoved ==
    ASSUME NEW bs, NEW w, NEW k, NEW r, NEW buffer, NEW pos,
           IsStretch(bs, w, k, r, buffer, pos)
    PROVE  Move(buffer, pos) = SubSeq(Stream(bs), EndOf(bs, k) + 1, r)
<1>1. PICK a, e, S : Placed(bs, w, k, r, buffer, pos, a, e, S) /\ Numbers(a, e, r, pos)
  BY StretchPlace, Zenon
<1>n. a \in Nat /\ e \in Nat /\ r \in Nat /\ a <= e /\ e <= r /\ pos = e - a
  BY <1>1, Zenon DEF Numbers
<1>2. /\ S = Stream(bs) /\ e = EndOf(bs, k) /\ S \in Seq(Byte) /\ r <= Len(S)
      /\ Len(buffer) = r - a /\ IsPart(buffer, Byte, S, a, r)
  BY <1>1, Zenon DEF Placed
<1>3. IsPart(SubSeq(S, e + 1, r), Byte, S, e, r)
  BY <1>n, <1>2, SubSeqIs, Zenon
<1>4. CASE pos >= Len(buffer)
  <2>1. r - e = 0
    BY <1>n, <1>2, <1>4
  <2>2. SubSeq(S, e + 1, r) = <<>>
    BY <1>3, <2>1, EmptyIs, Zenon DEF IsPart
  <2> QED
    BY <1>2, <1>4, <2>2, Zenon DEF Move
<1>5. CASE ~(pos >= Len(buffer))
  <2>1. /\ pos \in Nat /\ r - a \in Nat /\ pos <= r - a /\ r - a <= r - a
        /\ a + pos = e /\ a + (r - a) = r
    BY <1>n, <1>2, <1>5
  <2>2. IsPart(SubSeq(buffer, pos + 1, r - a), Byte, S, a + pos, a + (r - a))
    BY <1>n, <1>2, <2>1, PartOfPart, Zenon
  <2>3. SubSeq(buffer, pos + 1, Len(buffer)) = SubSeq(S, e + 1, r)
    BY <1>2, <1>3, <2>1, <2>2, SamePart, Zenon
  <2> QED
    BY <1>2, <1>5, <2>3, Zenon DEF Move
<1> QED
  BY <1>4, <1>5, Zenon

\* The header at pos is that of the packet behind packet k.
HeadIs(bs, k, buffer, pos) ==
    k < Len(bs) /\ bs[k + 1] \in Nat /\ buffer[pos + 1].body = bs[k + 1]

\* A header that is there is that of the next packet.
LEMMA StretchHead ==
    ASSUME NEW bs, NEW w, NEW k, NEW r, NEW buffer, NEW pos,
           IsStretch(bs, w, k, r, buffer, pos), r - EndOf(bs, k) >= HeadLen
    PROVE  HeadIs(bs, k, buffer, pos)
<1>1. PICK a, e, S : Placed(bs, w, k, r, buffer, pos, a, e, S) /\ Numbers(a, e, r, pos)
  BY StretchPlace, Zenon
<1>n. a \in Nat /\ e \in Nat /\ r \in Nat /\ a <= e /\ e <= r /\ pos = e - a
  BY <1>1, Zenon DEF Numbers
<1>2. /\ S = Stream(bs) /\ e = EndOf(bs, k) /\ bs \in Seq(Nat) /\ k \in 0 .. Len(bs)
      /\ IsPart(buffer, Byte, S, a, r)
  BY <1>1, Zenon DEF Placed
<1>l. Len(S) \in Nat /\ r <= Len(S) /\ r - e >= HeadLen
  BY <1>1, StreamIs, Zenon DEF Placed
<1>3. k # Len(bs)
  <2>1. EndOf(bs, Len(bs)) = Len(S)
    BY <1>2, StreamSteps, Zenon
  <2>2. e # Len(S)
    BY <1>n, <1>l, SizesOK
  <2> QED
    BY <1>2, <2>1, <2>2, Zenon
<1>4. k \in 0 .. Len(bs) - 1 /\ k < Len(bs) /\ k + 1 \in Nat
  <2>1. Len(bs) \in Nat
    BY <1>2
  <2> QED
    BY <1>2, <1>3, <2>1
<1>5. bs[k + 1] \in Nat
  BY <1>2, <1>4, UpToIs, Zenon
<1>6. 1 \in 1 .. HeadLen + bs[k + 1]
  BY <1>5, SizesOK
<1>7. S[e + 1] = Bytes(k + 1, bs[k + 1])[1]
  BY <1>2, <1>4, <1>6, PacketInStream, Zenon
<1>8. Bytes(k + 1, bs[k + 1])[1].body = bs[k + 1]
  BY <1>4, <1>5, <1>6, BytesAre, Zenon
<1>9. pos + 1 \in 1 .. r - a /\ a + (pos + 1) = e + 1
  BY <1>n, <1>l, SizesOK
<1>10. buffer[pos + 1] = S[e + 1]
  BY <1>2, <1>9, Zenon DEF IsPart
<1> QED
  BY <1>4, <1>5, <1>7, <1>8, <1>10, Zenon DEF HeadIs

\* A packet that is there is the next packet.
LEMMA StretchPacket ==
    ASSUME NEW bs, NEW w, NEW k, NEW r, NEW buffer, NEW pos,
           IsStretch(bs, w, k, r, buffer, pos), k < Len(bs), EndOf(bs, k + 1) <= r
    PROVE  /\ SubSeq(buffer, pos + 1, pos + HeadLen + bs[k + 1]) = Bytes(k + 1, bs[k + 1])
           /\ IsStretch(bs, w, k + 1, r, buffer, pos + HeadLen + bs[k + 1])
<1>1. PICK a, e, S : Placed(bs, w, k, r, buffer, pos, a, e, S) /\ Numbers(a, e, r, pos)
  BY StretchPlace, Zenon
<1>n. a \in Nat /\ e \in Nat /\ r \in Nat /\ a <= e /\ e <= r /\ pos = e - a
  BY <1>1, Zenon DEF Numbers
<1>2. /\ S = Stream(bs) /\ a = EndOf(bs, w) /\ e = EndOf(bs, k) /\ bs \in Seq(Nat)
      /\ w \in 0 .. Len(bs) /\ k \in 0 .. Len(bs) /\ w <= k
      /\ S \in Seq(Byte) /\ r <= Len(S) /\ IsPart(buffer, Byte, S, a, r)
  BY <1>1, Zenon DEF Placed
<1>3. Len(bs) \in Nat
  BY <1>2
<1>4. k \in 0 .. Len(bs) - 1 /\ k + 1 \in Nat /\ k + 1 \in 0 .. Len(bs) /\ w <= k + 1
  BY <1>2, <1>3
<1>5. PICK b, t : b = bs[k + 1] /\ b \in Nat /\ t = Bytes(k + 1, b)
  BY <1>2, <1>4, UpToIs, Zenon
<1>6. EndOf(bs, k + 1) = e + HeadLen + b
  BY <1>2, <1>4, <1>5, StreamSteps, Zenon
<1>7. PICK h \in Nat : h = HeadLen + b
  BY <1>5, SizesOK
<1>8. pos + HeadLen + b = pos + h /\ e + HeadLen + b = e + h
  BY <1>n, <1>5, <1>7, SizesOK
<1>9. EndOf(bs, k + 1) = e + h /\ e + h <= r
  BY <1>6, <1>8, Zenon
<1>10. t \in Seq(Byte) /\ Len(t) = h
  BY <1>4, <1>5, <1>7, BytesAre, Zenon
<1>11. \A i \in 1 .. h : S[e + i] = t[i]
  BY <1>2, <1>4, <1>5, <1>7, PacketInStream, Zenon
<1>12. /\ pos \in Nat /\ pos + h \in Nat /\ pos <= pos + h /\ pos + h <= r - a
       /\ a + pos = e /\ a + (pos + h) = e + h /\ (e + h) - e = h /\ pos + h = (e + h) - a
  BY <1>n, <1>7, <1>9
<1>13. IsPart(SubSeq(buffer, pos + 1, pos + h), Byte, S, e, e + h)
  <2>1. IsPart(SubSeq(buffer, pos + 1, pos + h), Byte, S, a + pos, a + (pos + h))
    BY <1>n, <1>2, <1>12, PartOfPart, Zenon
  <2> QED
    BY <1>12, <2>1, Zenon
<1>14. IsPart(t, Byte, S, e, e + h)
  BY <1>10, <1>11, <1>12, Zenon DEF IsPart
<1>15. SubSeq(buffer, pos + 1, pos + h) = t
  BY <1>13, <1>14, SamePart, Zenon
<1>16. IsStretch(bs, w, k + 1, r, buffer, pos + h)
  BY <1>n, <1>2, <1>4, <1>9, <1>12, Zenon DEF IsStretch
<1> QED
  BY <1>5, <1>8, <1>15, <1>16, Zenon
----------------------------------------------------------------------------
\* The packets of a stream behind packet k up to packet m.
Packets(bs, k, m) == [i \in 1 .. m - k |-> Bytes(k + i, bs[k + i])]

\* They are sequences of bytes, one for each packet.
LEMMA PacketsAre ==
    ASSUME NEW bs \in Seq(Nat), NEW k \in Nat, NEW m \in 0 .. Len(bs), k <= m
    PROVE  /\ Packets(bs, k, m) \in Seq(Seq(Byte)) /\ Len(Packets(bs, k, m)) = m - k
           /\ \A i \in 1 .. m - k : Packets(bs, k, m)[i] = Bytes(k + i, bs[k + i])
<1>1. Len(bs) \in Nat /\ m - k \in Nat
  OBVIOUS
<1>2. \A i \in 1 .. m - k : k + i \in Nat /\ bs[k + i] \in Nat
  BY <1>1
<1>3. \A i \in 1 .. m - k : Bytes(k + i, bs[k + i]) \in Seq(Byte)
  BY <1>2, BytesAre, Zenon
<1> QED
  BY <1>1, <1>3 DEF Packets

\* No packets.
LEMMA NoPackets ==
    ASSUME NEW bs \in Seq(Nat), NEW m \in 0 .. Len(bs)
    PROVE  Packets(bs, m, m) = <<>>
<1>1. m \in Nat /\ m <= m /\ m - m = 0
  OBVIOUS
<1>2. Packets(bs, m, m) \in Seq(Seq(Byte)) /\ Len(Packets(bs, m, m)) = 0
  BY <1>1, PacketsAre, Zenon
<1> QED
  BY <1>2, EmptyIs, Zenon

\* Packets up to l and from there on.
LEMMA PacketsConcat ==
    ASSUME NEW bs \in Seq(Nat), NEW k \in Nat, NEW l \in 0 .. Len(bs), NEW m \in 0 .. Len(bs),
           k <= l, l <= m
    PROVE  Packets(bs, k, l) \o Packets(bs, l, m) = Packets(bs, k, m)
<1>1. l \in Nat /\ m \in Nat /\ k <= m
  OBVIOUS
<1>2. PICK p, q, s : p = Packets(bs, k, l) /\ q = Packets(bs, l, m) /\ s = Packets(bs, k, m)
  BY Zenon
<1>3. /\ p \in Seq(Seq(Byte)) /\ Len(p) = l - k
      /\ \A i \in 1 .. l - k : p[i] = Bytes(k + i, bs[k + i])
  BY <1>2, PacketsAre, Zenon
<1>4. /\ q \in Seq(Seq(Byte)) /\ Len(q) = m - l
      /\ \A i \in 1 .. m - l : q[i] = Bytes(l + i, bs[l + i])
  BY <1>1, <1>2, PacketsAre, Zenon
<1>5. /\ s \in Seq(Seq(Byte)) /\ Len(s) = m - k
      /\ \A i \in 1 .. m - k : s[i] = Bytes(k + i, bs[k + i])
  BY <1>1, <1>2, PacketsAre, Zenon
<1>u. PICK u : u = p \o q
  BY Zenon
<1>6. /\ u \in Seq(Seq(Byte)) /\ Len(u) = Len(p) + Len(q)
      /\ \A i \in 1 .. Len(p) + Len(q) :
            u[i] = IF i <= Len(p) THEN p[i] ELSE q[i - Len(p)]
  <2>1. p \in Seq(Seq(Byte)) /\ q \in Seq(Seq(Byte))
    BY <1>3, <1>4, Zenon
  <2>2. /\ p \o q \in Seq(Seq(Byte)) /\ Len(p \o q) = Len(p) + Len(q)
        /\ \A i \in 1 .. Len(p) + Len(q) :
              (p \o q)[i] = IF i <= Len(p) THEN p[i] ELSE q[i - Len(p)]
    BY <2>1, ConcatIs, Zenon
  <2> QED
    BY <1>u, <2>2, Zenon
<1>7. (l - k) + (m - l) = m - k
  BY <1>1
<1>8. ASSUME NEW i \in 1 .. m - k PROVE u[i] = s[i]
  <2>1. u[i] = IF i <= l - k THEN p[i] ELSE q[i - (l - k)]
    BY <1>3, <1>4, <1>6, <1>7, Zenon
  <2>2. CASE i <= l - k
    <3>1. i \in 1 .. l - k
      BY <2>2
    <3> QED
      BY <1>3, <1>5, <2>1, <2>2, <3>1, Zenon
  <2>3. CASE ~(i <= l - k)
    <3>1. i - (l - k) \in 1 .. m - l /\ l + (i - (l - k)) = k + i
      BY <1>1, <2>3
    <3> QED
      BY <1>4, <1>5, <2>1, <2>3, <3>1, Zenon
  <2> QED
    BY <2>2, <2>3, Zenon
<1>9. u = s
  BY <1>3, <1>4, <1>5, <1>6, <1>7, <1>8, SameElements, Zenon
<1> QED
  BY <1>2, <1>u, <1>9, Zenon

\* A single packet.
LEMMA OnePacket ==
    ASSUME NEW bs \in Seq(Nat), NEW k \in 0 .. Len(bs) - 1
    PROVE  Packets(bs, k, k + 1) = <<Bytes(k + 1, bs[k + 1])>>
<1>1. (k + 1) - k = 1 /\ k \in Nat /\ k <= k + 1 /\ k + 1 \in 0 .. Len(bs)
  OBVIOUS
<1>2. PICK p, t : p = Packets(bs, k, k + 1) /\ t = Bytes(k + 1, bs[k + 1])
  BY Zenon
<1>3. p \in Seq(Seq(Byte)) /\ Len(p) = 1 /\ \A i \in 1 .. 1 : p[i] = Bytes(k + i, bs[k + i])
  BY <1>1, <1>2, PacketsAre, Zenon
<1>4. p[1] = t
  <2>1. 1 \in 1 .. 1
    OBVIOUS
  <2> QED
    BY <1>2, <1>3, <2>1, Zenon
<1>5. p = <<t>>
  BY <1>3, <1>4
<1> QED
  BY <1>2, <1>5, Zenon

----------------------------------------------------------------------------
\* What the parser has to find from the end of packet k up to byte r: the
\* packets that are whole, and the bytes behind them; it overruns the buffer
\* only when the next packet has its header there and not all of its body.
Result == [result : {"ok", "bad", "overrun"}, list : Seq(Seq(Byte)), buffer : Seq(Byte)]
Little(bs, W, r) ==
    \/ r - EndOf(bs, W) < HeadLen
    \/ W < Len(bs) /\ bs[W + 1] < Limit /\ r - EndOf(bs, W) < bs[W + 1]
IllegalIn(bs, r) ==
    \E n \in DOMAIN bs : bs[n] >= Limit /\ EndOf(bs, n - 1) + HeadLen <= r
Found(bs, k, r, res) ==
    /\ res \in Result
    /\ res.result = "ok" =>
          /\ res.list = Packets(bs, k, WholeOf(bs, r))
          /\ res.buffer = SubSeq(Stream(bs), EndOf(bs, WholeOf(bs, r)) + 1, r)
          /\ Little(bs, WholeOf(bs, r), r)
    /\ res.result = "overrun" =>
          /\ WholeOf(bs, r) < Len(bs)
          /\ EndOf(bs, WholeOf(bs, r)) + HeadLen <= r
    /\ res.result = "bad" => IllegalIn(bs, r)

\* The packet behind packet k is illegal, and its header is there.
LEMMA IllegalNext ==
    ASSUME NEW bs \in Seq(Nat), NEW r, NEW k \in 0 .. Len(bs) - 1,
           bs[k + 1] >= Limit, EndOf(bs, k) + HeadLen <= r
    PROVE  IllegalIn(bs, r)
<1>1. k + 1 \in DOMAIN bs /\ (k + 1) - 1 = k
  OBVIOUS
<1> QED
  BY <1>1, Zenon DEF IllegalIn

HasList(out, res, list) ==
    /\ out \in Result /\ out.result = res.result /\ out.buffer = res.buffer
    /\ out.list = list

\* A result whose list is replaced.
LEMMA WithList ==
    ASSUME NEW res \in Result, NEW list \in Seq(Seq(Byte))
    PROVE  HasList([res EXCEPT !.list = list], res, list)
<1>1. PICK L, B : L = Seq(Seq(Byte)) /\ B = Seq(Byte)
  BY Zenon
<1>2. res \in [result : {"ok", "bad", "overrun"}, list : L, buffer : B] /\ list \in L
  BY <1>1, Zenon DEF Result
<1>3. PICK out : out = [res EXCEPT !.list = list]
  BY Zenon
<1>4. /\ out \in [result : {"ok", "bad", "overrun"}, list : L, buffer : B]
      /\ out.result = res.result /\ out.buffer = res.buffer /\ out.list = list
  BY <1>2, <1>3
<1> QED
  BY <1>1, <1>3, <1>4, Zenon DEF Result, HasList

\* Behind the last whole packet the loop ends.
LEMMA LastRound ==
    ASSUME NEW bs, NEW w, NEW r, NEW buffer, NEW pos, NEW later,
           IsStretch(bs, w, WholeOf(bs, r), r, buffer, pos)
    PROVE  Found(bs, WholeOf(bs, r), r, ParseRound(buffer, pos, later))
<1>0. PICK W : W = WholeOf(bs, r)
  BY Zenon
<1>s. IsStretch(bs, w, W, r, buffer, pos)
  BY <1>0, Zenon
<1>1. PICK a, e, S : Placed(bs, w, W, r, buffer, pos, a, e, S) /\ Numbers(a, e, r, pos)
  BY <1>s, StretchPlace, Zenon
<1>n. a \in Nat /\ e \in Nat /\ r \in Nat /\ a <= e /\ e <= r /\ pos = e - a
  BY <1>1, Zenon DEF Numbers
<1>2. /\ S = Stream(bs) /\ e = EndOf(bs, W) /\ bs \in Seq(Nat) /\ W \in 0 .. Len(bs)
      /\ S \in Seq(Byte) /\ r <= Len(S) /\ buffer \in Seq(Byte) /\ Len(buffer) = r - a
  BY <1>1, Zenon DEF Placed
<1>3. PICK left, rest : left = Len(buffer) - pos /\ rest = SubSeq(S, e + 1, r)
  BY Zenon
<1>4. left = r - e
  BY <1>n, <1>2, <1>3
<1>5. Move(buffer, pos) = rest /\ rest \in Seq(Byte)
  <2>1. IsPart(SubSeq(S, e + 1, r), Byte, S, e, r)
    BY <1>n, <1>2, SubSeqIs, Zenon
  <2>2. rest \in Seq(Byte)
    BY <1>3, <2>1, Zenon DEF IsPart
  <2> QED
    <3>1. Move(buffer, pos) = SubSeq(Stream(bs), EndOf(bs, W) + 1, r)
      BY <1>s, StretchMoved
    <3> QED
      BY <1>2, <1>3, <2>2, <3>1, Zenon
<1>6. <<>> \in Seq(Seq(Byte)) /\ <<>> \in Seq(Byte) /\ Packets(bs, W, W) = <<>>
  <2>1. <<>> \in Seq(Seq(Byte)) /\ <<>> \in Seq(Byte)
    OBVIOUS
  <2> QED
    BY <1>2, <2>1, NoPackets, Zenon
<1>7. PICK ok, bad, over : /\ ok = [result |-> "ok", list |-> <<>>, buffer |-> rest]
                           /\ bad = [result |-> "bad", list |-> <<>>, buffer |-> buffer]
                           /\ over = [result |-> "overrun", list |-> <<>>, buffer |-> <<>>]
  BY Zenon
<1>8. ASSUME Little(bs, W, r) PROVE Found(bs, W, r, ok)
  <2>1. /\ ok \in Result /\ ok.list = <<>> /\ ok.buffer = rest /\ ok.result = "ok"
        /\ "ok" # "overrun" /\ "ok" # "bad"
    BY <1>5, <1>6, <1>7 DEF Result
  <2> QED
    BY <1>0, <1>2, <1>3, <1>6, <1>8, <2>1, Zenon DEF Found
<1>9. ASSUME IllegalIn(bs, r) PROVE Found(bs, W, r, bad)
  <2>1. bad \in Result /\ bad.result # "ok" /\ bad.result # "overrun"
    BY <1>2, <1>6, <1>7 DEF Result
  <2> QED
    BY <1>9, <2>1, Zenon DEF Found
<1>10. CASE left < HeadLen
  <2>1. ParseRound(buffer, pos, later) = ok
    BY <1>3, <1>5, <1>7, <1>10, Zenon DEF ParseRound
  <2>2. Little(bs, W, r)
    BY <1>2, <1>4, <1>10, Zenon DEF Little
  <2> QED
    BY <1>0, <1>8, <2>1, <2>2, Zenon
<1>11. CASE ~(left < HeadLen)
  <2>1. r - e >= HeadLen
    BY <1>n, <1>4, <1>11, SizesOK
  <2>2. W < Len(bs) /\ bs[W + 1] \in Nat /\ buffer[pos + 1].body = bs[W + 1]
    <3>1. r - EndOf(bs, W) >= HeadLen
      BY <1>2, <2>1, Zenon
    <3>2. HeadIs(bs, W, buffer, pos)
      BY <1>s, <3>1, StretchHead, Zenon
    <3> QED
      BY <3>2, Zenon DEF HeadIs
  <2>3. PICK b \in Nat : b = bs[W + 1]
    BY <2>2, Zenon
  <2>4. EndsBeyond(left, b)
    <3>1. IsWhole(bs, r, W)
      BY <1>n, <1>0, <1>2, WholeExists, Zenon
    <3>2. EndOf(bs, W + 1) > r
      BY <2>2, <3>1, Zenon DEF IsWhole
    <3>3. W \in 0 .. Len(bs) - 1
      <4>1. Len(bs) \in Nat
        BY <1>2
      <4> QED
        BY <1>2, <2>2, <4>1
    <3>4. EndOf(bs, W + 1) = e + HeadLen + b
      BY <1>2, <2>3, <3>3, StreamSteps, Zenon
    <3>5. e + HeadLen + b > r
      BY <3>2, <3>4, Zenon
    <3> QED
      BY <1>n, <1>4, <2>3, <3>5, SizesOK DEF EndsBeyond
  <2>5. Found(bs, W, r, over)
    <3>1. over \in Result /\ over.result # "ok" /\ over.result # "bad"
      BY <1>6, <1>7 DEF Result
    <3>2. e + HeadLen <= r
      BY <1>n, <2>1, SizesOK
    <3> QED
      BY <1>0, <1>2, <2>2, <3>1, <3>2, Zenon DEF Found
  <2>6. CASE left < b /\ ~(b >= Limit)
    <3>1. ParseRound(buffer, pos, later) = ok
      BY <1>3, <1>5, <1>7, <1>11, <2>2, <2>3, <2>6, Zenon DEF ParseRound
    <3>2. b < Limit
      BY <2>3, <2>6, SizesOK
    <3>3. Little(bs, W, r)
      BY <1>2, <1>4, <2>2, <2>3, <2>6, <3>2, Zenon DEF Little
    <3> QED
      BY <1>0, <1>8, <3>1, <3>3, Zenon
  <2>7. CASE b >= Limit
    <3>1. ParseRound(buffer, pos, later) = bad
      BY <1>3, <1>7, <1>11, <2>2, <2>3, <2>7, Zenon DEF ParseRound
    <3>2. e + HeadLen <= r
      BY <1>n, <2>1, SizesOK
    <3>3. W \in 0 .. Len(bs) - 1
      <4>1. Len(bs) \in Nat
        BY <1>2
      <4> QED
        BY <1>2, <2>2, <4>1
    <3>4. IllegalIn(bs, r)
      BY <1>2, <2>3, <2>7, <3>2, <3>3, IllegalNext, Zenon
    <3> QED
      BY <1>0, <1>9, <3>1, <3>4, Zenon
  <2>8. CASE ~(left < b) /\ ~(b >= Limit)
    <3>1. ParseRound(buffer, pos, later) = over
      BY <1>3, <1>7, <1>11, <2>2, <2>3, <2>4, <2>8, Zenon DEF ParseRound
    <3> QED
      BY <1>0, <2>5, <3>1, Zenon
  <2> QED
    BY <2>6, <2>7, <2>8, Zenon
<1> QED
  BY <1>10, <1>11, Zenon

\* Before it, a round takes the next packet, or refuses it.
LEMMA MiddleRound ==
    ASSUME NEW bs, NEW w, NEW k, NEW r, NEW buffer, NEW pos, NEW later,
           IsStretch(bs, w, k, r, buffer, pos), k < WholeOf(bs, r),
           \A next : IsStretch(bs, w, k + 1, r, buffer, next) => Found(bs, k + 1, r, later[next])
    PROVE  Found(bs, k, r, ParseRound(buffer, pos, later))
<1>1. PICK a, e, S : Placed(bs, w, k, r, buffer, pos, a, e, S) /\ Numbers(a, e, r, pos)
  BY StretchPlace, Zenon
<1>n. a \in Nat /\ e \in Nat /\ r \in Nat /\ a <= e /\ e <= r /\ pos = e - a
  BY <1>1, Zenon DEF Numbers
<1>2. /\ e = EndOf(bs, k) /\ bs \in Seq(Nat) /\ k \in 0 .. Len(bs)
      /\ buffer \in Seq(Byte) /\ Len(buffer) = r - a
  BY <1>1, Zenon DEF Placed
<1>3. PICK W : W = WholeOf(bs, r) /\ W \in 0 .. Len(bs) /\ IsWhole(bs, r, W)
  BY <1>n, <1>2, WholeExists, Zenon
<1>4. Len(bs) \in Nat
  BY <1>2
<1>5. /\ k < W /\ k <= W /\ k < Len(bs) /\ k \in 0 .. Len(bs) - 1 /\ k + 1 \in Nat
      /\ k + 1 \in 0 .. Len(bs) /\ k + 1 <= W /\ k \in Nat /\ k <= k + 1
  BY <1>2, <1>3, <1>4
<1>6. PICK b, y : b = bs[k + 1] /\ b \in Nat /\ y = EndOf(bs, W) /\ y \in Nat
  BY <1>2, <1>3, <1>5, UpToIs, StreamSteps, Zenon
<1>7. EndOf(bs, k + 1) = e + HeadLen + b
  BY <1>2, <1>5, <1>6, StreamSteps, Zenon
<1>8. e + HeadLen + b <= r
  <2>1. e + HeadLen + b <= y /\ y <= r
    BY <1>2, <1>3, <1>5, <1>6, <1>7, EndsGrow, Zenon DEF IsWhole
  <2> QED
    BY <1>n, <1>6, <2>1, SizesOK
<1>9. PICK left, next : left = Len(buffer) - pos /\ next = pos + HeadLen + b
  BY Zenon
<1>10. left = r - e
  BY <1>n, <1>2, <1>9
<1>11. ~(left < HeadLen) /\ ~EndsBeyond(left, b) /\ ~(left < b) /\ r - e >= HeadLen
  BY <1>n, <1>6, <1>8, <1>10, SizesOK DEF EndsBeyond
<1>12. buffer[pos + 1].body = b
  <2>1. r - EndOf(bs, k) >= HeadLen
    BY <1>2, <1>11, Zenon
  <2>2. HeadIs(bs, k, buffer, pos)
    BY <2>1, StretchHead, Zenon
  <2> QED
    BY <1>6, <2>2, Zenon DEF HeadIs
<1>13. EndOf(bs, k + 1) <= r
  BY <1>7, <1>8, Zenon
<1>14. SubSeq(buffer, pos + 1, next) = Bytes(k + 1, b) /\ IsStretch(bs, w, k + 1, r, buffer, next)
  BY <1>5, <1>6, <1>9, <1>13, StretchPacket, Zenon
<1>15. PICK res : res = later[next] /\ Found(bs, k + 1, r, res)
  BY <1>14, Zenon
<1>16. CASE b >= Limit
  <2>1. PICK bad : bad = [result |-> "bad", list |-> <<>>, buffer |-> buffer]
    BY Zenon
  <2>2. bad \in Result /\ bad.result # "ok" /\ bad.result # "overrun"
    BY <1>2, <2>1 DEF Result
  <2>3. Found(bs, k, r, bad)
    <3>1. e + HeadLen <= r
      BY <1>n, <1>6, <1>8, SizesOK
    <3>2. IllegalIn(bs, r)
      BY <1>2, <1>5, <1>6, <1>16, <3>1, IllegalNext, Zenon
    <3> QED
      BY <2>2, <3>2, Zenon DEF Found
  <2>4. ParseRound(buffer, pos, later) = bad
    BY <1>9, <1>11, <1>12, <1>16, <2>1, Zenon DEF ParseRound
  <2> QED
    BY <2>3, <2>4, Zenon
<1>17. CASE ~(b >= Limit)
  <2>1. PICK one, out : /\ one = <<Bytes(k + 1, b)>>
                        /\ out = [res EXCEPT !.list = one \o @]
    BY Zenon
  <2>2. ParseRound(buffer, pos, later) = out
    BY <1>9, <1>11, <1>12, <1>14, <1>15, <1>17, <2>1, Zenon DEF ParseRound
  <2>3. one = Packets(bs, k, k + 1)
    BY <1>2, <1>5, <1>6, <2>1, OnePacket, Zenon
  <2>4. one \in Seq(Seq(Byte))
    BY <1>2, <1>5, <2>3, PacketsAre, Zenon
  <2>5. res \in Result
    BY <1>15, Zenon DEF Found
  <2>6. one \o res.list \in Seq(Seq(Byte))
    <3>1. res.list \in Seq(Seq(Byte))
      BY <2>5 DEF Result
    <3> QED
      BY <2>4, <3>1, ConcatIs, Zenon
  <2>7. /\ out \in Result /\ out.result = res.result /\ out.buffer = res.buffer
        /\ out.list = one \o res.list
    <3>1. PICK list : list = one \o res.list
      BY Zenon
    <3>2. list \in Seq(Seq(Byte)) /\ out = [res EXCEPT !.list = list]
      BY <2>1, <2>6, <3>1, Zenon
    <3>3. /\ out \in Result /\ out.result = res.result /\ out.buffer = res.buffer
          /\ out.list = list
      BY <2>5, <3>2, WithList, Zenon DEF HasList
    <3> QED
      BY <3>1, <3>3, Zenon
  <2>8. Packets(bs, k, k + 1) \o Packets(bs, k + 1, W) = Packets(bs, k, W)
    BY <1>2, <1>3, <1>5, PacketsConcat, Zenon
  <2>9. Found(bs, k, r, out)
    BY <1>3, <1>15, <2>3, <2>7, <2>8, Zenon DEF Found
  <2> QED
    BY <2>2, <2>9, Zenon
<1> QED
  BY <1>16, <1>17, Zenon

\* parse_packet_from_recv_buffer_stream, on a buffer that starts where a packet
\* starts and ends anywhere: if it returns true, it has listed the packets that
\* are whole and left the bytes behind them; if it overruns the buffer, the next
\* packet has its header there and not all of its body; if it returns false, a
\* header that is there names an illegal length.
THEOREM ParserFinds ==
    ASSUME NEW bs, NEW w, NEW r, NEW buffer, IsStretch(bs, w, w, r, buffer, 0)
    PROVE  Found(bs, w, r, ParseStream(buffer))
<1>1. PICK a, e, S : Placed(bs, w, w, r, buffer, 0, a, e, S) /\ Numbers(a, e, r, 0)
  BY StretchPlace, Zenon
<1>2. /\ bs \in Seq(Nat) /\ w \in 0 .. Len(bs) /\ buffer \in Seq(Byte) /\ Len(buffer) = r - a
      /\ a = EndOf(bs, w) /\ r \in Nat /\ a \in Nat /\ a = e /\ e <= r
  BY <1>1, Zenon DEF Placed, Numbers
<1>3. PICK f : f = FromOf(buffer)
  BY Zenon
<1>4. /\ ParseStream(buffer) = f[0]
      /\ \A pos \in 0 .. Len(buffer) : f[pos] = ParseRound(buffer, pos, f)
  BY <1>2, <1>3, ParseFrom, Zenon
<1>5. PICK W : W = WholeOf(bs, r) /\ W \in 0 .. Len(bs) /\ IsWhole(bs, r, W)
  BY <1>2, WholeExists, Zenon
<1>6. Len(bs) \in Nat
  BY <1>2
<1>7. w <= W
  <2>1. ASSUME W < w PROVE FALSE
    <3>1. W <= w /\ W < Len(bs) /\ W + 1 \in 0 .. Len(bs)
      BY <1>2, <1>5, <1>6, <2>1
    <3>2. EndOf(bs, W + 1) <= a /\ EndOf(bs, W + 1) > r /\ EndOf(bs, W + 1) \in Nat
      BY <1>2, <1>5, <2>1, <3>1, EndsGrow, StreamSteps, Zenon DEF IsWhole
    <3> QED
      BY <1>2, <3>2
  <2> QED
    BY <1>2, <1>5, <2>1
<1>8. ASSUME NEW k, NEW pos, IsStretch(bs, w, k, r, buffer, pos)
      PROVE  f[pos] = ParseRound(buffer, pos, f)
  <2>1. PICK c, d, U : Placed(bs, w, k, r, buffer, pos, c, d, U) /\ Numbers(c, d, r, pos)
    BY <1>8, StretchPlace, Zenon
  <2>2. /\ c \in Nat /\ d \in Nat /\ r \in Nat /\ c <= d /\ d <= r /\ pos = d - c
        /\ Len(buffer) = r - c
    BY <2>1, Zenon DEF Placed, Numbers
  <2>3. pos \in 0 .. Len(buffer)
    BY <2>2
  <2> QED
    BY <1>4, <2>3, Zenon
<1> DEFINE T == {d \in Nat : d <= W - w =>
                    \A pos : IsStretch(bs, w, W - d, r, buffer, pos) => Found(bs, W - d, r, f[pos])}
<1>9. 0 \in T
  <2>1. W - 0 = W
    BY <1>5
  <2>2. \A pos : IsStretch(bs, w, W, r, buffer, pos) => Found(bs, W, r, f[pos])
    BY <1>5, <1>8, LastRound, Zenon
  <2> QED
    BY <2>1, <2>2, Zenon
<1>10. ASSUME NEW d \in Nat, d \in T PROVE d + 1 \in T
  <2>0. d + 1 \in Nat
    OBVIOUS
  <2> SUFFICES ASSUME d + 1 <= W - w, NEW pos, IsStretch(bs, w, W - (d + 1), r, buffer, pos)
               PROVE  Found(bs, W - (d + 1), r, f[pos])
    BY <2>0, Zenon
  <2>1. PICK k : k = W - (d + 1)
    BY Zenon
  <2>2. k + 1 = W - d /\ d <= W - w /\ k < W
    BY <1>2, <1>5, <2>1
  <2>3. \A next : IsStretch(bs, w, k + 1, r, buffer, next) => Found(bs, k + 1, r, f[next])
    BY <1>10, <2>2, Zenon
  <2>4. Found(bs, k, r, ParseRound(buffer, pos, f))
    BY <1>5, <2>1, <2>2, <2>3, MiddleRound, Zenon
  <2> QED
    BY <1>8, <2>1, <2>4, Zenon
<1>11. W - w \in T
  <2> HIDE DEF T
  <2>1. W - w \in Nat
    BY <1>2, <1>5, <1>7
  <2> QED
    BY <1>9, <1>10, <2>1, SetInduction, Zenon
<1>12. W - (W - w) = w /\ W - w <= W - w
  BY <1>2, <1>5
<1> QED
  BY <1>4, <1>11, <1>12, Zenon
----------------------------------------------------------------------------
\* Two parts that meet are one part.
LEMMA PartsConcat ==
    ASSUME NEW X, NEW s, NEW t, NEW u, NEW a \in Nat, NEW b \in Nat, NEW c \in Nat,
           a <= b, b <= c, IsPart(t, X, s, a, b), IsPart(u, X, s, b, c)
    PROVE  IsPart(t \o u, X, s, a, c)
<1>1. /\ t \in Seq(X) /\ Len(t) = b - a /\ \A i \in 1 .. b - a : t[i] = s[a + i]
      /\ u \in Seq(X) /\ Len(u) = c - b /\ \A i \in 1 .. c - b : u[i] = s[b + i]
  BY Zenon DEF IsPart
<1>2. PICK v : v = t \o u
  BY Zenon
<1>3. /\ v \in Seq(X) /\ Len(v) = Len(t) + Len(u)
      /\ \A i \in 1 .. Len(t) + Len(u) : v[i] = IF i <= Len(t) THEN t[i] ELSE u[i - Len(t)]
  BY <1>1, <1>2, ConcatIs, Zenon
<1>4. Len(v) = c - a
  BY <1>1, <1>3
<1>5. ASSUME NEW i \in 1 .. c - a PROVE v[i] = s[a + i]
  <2>1. i \in 1 .. Len(t) + Len(u)
    BY <1>1
  <2>2. CASE i <= Len(t)
    <3>1. i \in 1 .. b - a
      BY <1>1, <2>2
    <3> QED
      BY <1>1, <1>3, <2>1, <2>2, <3>1, Zenon
  <2>3. CASE ~(i <= Len(t))
    <3>1. i - Len(t) \in 1 .. c - b /\ b + (i - Len(t)) = a + i
      BY <1>1, <2>3
    <3>2. u[i - Len(t)] = s[b + (i - Len(t))]
      BY <1>1, <3>1, Zenon
    <3> QED
      BY <1>3, <2>1, <2>3, <3>1, <3>2, Zenon
  <2> QED
    BY <2>2, <2>3, Zenon
<1> QED
  BY <1>2, <1>3, <1>4, <1>5, Zenon DEF IsPart

\* A packet more leaves the stream before it as it was.
SentMore(bs, more) ==
    /\ more \in Seq(Nat) /\ Len(more) = Len(bs) + 1
    /\ \A n \in 1 .. Len(bs) : more[n] = bs[n]
    /\ \A n \in 0 .. Len(bs) : EndOf(more, n) = EndOf(bs, n)
    /\ EndOf(more, Len(bs) + 1) > Len(Stream(bs))
    /\ Len(Stream(bs)) <= Len(Stream(more))
    /\ \A i \in 1 .. Len(Stream(bs)) : Stream(more)[i] = Stream(bs)[i]

\* Append does that.
LEMMA SendMore ==
    ASSUME NEW bs \in Seq(Nat), NEW b \in Nat
    PROVE  SentMore(bs, Append(bs, b))
<1>1. PICK more : more = Append(bs, b)
  BY Zenon
<1>2. /\ more \in Seq(Nat) /\ Len(more) = Len(bs) + 1 /\ Len(bs) \in Nat
      /\ \A n \in 1 .. Len(bs) : more[n] = bs[n]
  BY <1>1
<1>3. ASSUME NEW n \in 0 .. Len(bs) PROVE EndOf(more, n) = EndOf(bs, n)
  <2>1. n \in 0 .. Len(more)
    BY <1>2
  <2>2. PICK s, t : s = SubSeq(more, 1, n) /\ t = SubSeq(bs, 1, n)
    BY Zenon
  <2>3. s \in Seq(Nat) /\ Len(s) = n
    BY <1>2, <2>1, <2>2, UpToIs, Zenon
  <2>4. t \in Seq(Nat) /\ Len(t) = n
    BY <2>2, UpToIs, Zenon
  <2>5. ASSUME NEW i \in 1 .. Len(s) PROVE s[i] = t[i]
    <3>1. s[i] = more[i] /\ t[i] = bs[i] /\ i \in 1 .. Len(bs)
      BY <1>2, <2>2, <2>3
    <3> QED
      BY <1>2, <3>1, Zenon
  <2>6. s = t
    BY <2>3, <2>4, <2>5, SameElements, Zenon
  <2> QED
    BY <2>2, <2>6, Zenon DEF EndOf
<1>4. PICK S, T, B : S = Stream(bs) /\ T = Stream(more) /\ B = Bytes(Len(bs) + 1, b)
  BY Zenon
<1>5. S \in Seq(Byte) /\ T = S \o B
  BY <1>1, <1>4, StreamAppend, Zenon
<1>6. B \in Seq(Byte) /\ Len(B) = HeadLen + b
  <2>1. Len(bs) + 1 \in Nat
    BY <1>2
  <2> QED
    BY <1>4, <2>1, BytesAre, Zenon
<1>7. /\ Len(T) = Len(S) + Len(B)
      /\ \A i \in 1 .. Len(S) + Len(B) : T[i] = IF i <= Len(S) THEN S[i] ELSE B[i - Len(S)]
  BY <1>5, <1>6, ConcatIs, Zenon
<1>8. Len(S) \in Nat
  BY <1>5
<1>9. Len(S) <= Len(T) /\ Len(T) > Len(S)
  BY <1>6, <1>7, <1>8, SizesOK
<1>10. EndOf(more, Len(bs) + 1) = Len(T)
  BY <1>2, <1>4, StreamSteps, Zenon
<1>11. ASSUME NEW i \in 1 .. Len(S) PROVE T[i] = S[i]
  <2>1. i \in 1 .. Len(S) + Len(B) /\ i <= Len(S)
    BY <1>6, <1>8, SizesOK
  <2> QED
    BY <1>7, <2>1, Zenon
<1> QED
  BY <1>1, <1>2, <1>3, <1>4, <1>9, <1>10, <1>11, Zenon DEF SentMore
----------------------------------------------------------------------------
\* What CutsDoNotMatter and StopsForCause say, of any packets bs of which r bytes
\* have arrived.
Handed(bs, r, list, buffer) ==
    /\ list = [n \in 1 .. WholeOf(bs, r) |-> Bytes(n, bs[n])]
    /\ buffer = SubSeq(Stream(bs), EndOf(bs, WholeOf(bs, r)) + 1, r)
CutIn(bs, r) ==
    \E n \in DOMAIN bs : EndOf(bs, n - 1) + HeadLen <= r /\ r < EndOf(bs, n)
Caused(bs, r, stop) ==
    (stop = "overrun" => CutIn(bs, r)) /\ (stop = "closing" => IllegalIn(bs, r))

\* The packets from the first on.
LEMMA PacketsFromFirst ==
    ASSUME NEW bs \in Seq(Nat), NEW m \in 0 .. Len(bs)
    PROVE  Packets(bs, 0, m) = [n \in 1 .. m |-> Bytes(n, bs[n])]
<1>1. m - 0 = m /\ \A n \in 1 .. m : 0 + n = n
  OBVIOUS
<1>2. Packets(bs, 0, m) = [n \in 1 .. m |-> Bytes(0 + n, bs[0 + n])]
  BY <1>1, Zenon DEF Packets
<1>3. \A n \in 1 .. m : Bytes(0 + n, bs[0 + n]) = Bytes(n, bs[n])
  BY <1>1, Zenon
<1> QED
  BY <1>2, <1>3, Zenon

\* Sending more changes neither which packets are whole nor what is left.
LEMMA HandedMore ==
    ASSUME NEW bs \in Seq(Nat), NEW b \in Nat, NEW r \in 0 .. Len(Stream(bs)),
           NEW list, NEW buffer, Handed(bs, r, list, buffer)
    PROVE  Handed(Append(bs, b), r, list, buffer)
<1>1. PICK more, W : more = Append(bs, b) /\ W = WholeOf(bs, r)
  BY Zenon
<1>2. SentMore(bs, more)
  BY <1>1, SendMore, Zenon
<1>l. Len(bs) \in Nat /\ Len(Stream(bs)) \in Nat /\ Stream(bs) \in Seq(Byte)
  <2>1. Len(bs) \in Nat
    OBVIOUS
  <2> QED
    BY <2>1, StreamIs, Zenon
<1>r. r \in Nat /\ r <= Len(Stream(bs))
  BY <1>l
<1>3. W \in 0 .. Len(bs) /\ IsWhole(bs, r, W)
  BY <1>1, <1>r, WholeExists, Zenon
<1>m. more \in Seq(Nat) /\ Len(more) = Len(bs) + 1
  BY <1>2, Zenon DEF SentMore
<1>4. W \in 0 .. Len(more)
  BY <1>3, <1>l, <1>m
<1>5. EndOf(more, W) = EndOf(bs, W)
  BY <1>2, <1>3, Zenon DEF SentMore
<1>6. IsWhole(more, r, W)
  <2>1. EndOf(bs, W) <= r
    BY <1>3, Zenon DEF IsWhole
  <2>2. CASE W < Len(bs)
    <3>1. W + 1 \in 0 .. Len(bs)
      BY <1>3, <1>l, <2>2
    <3>2. EndOf(more, W + 1) = EndOf(bs, W + 1)
      BY <1>2, <3>1, Zenon DEF SentMore
    <3> QED
      BY <1>3, <1>5, <2>2, <3>2, Zenon DEF IsWhole
  <2>3. CASE ~(W < Len(bs))
    <3>1. W = Len(bs)
      BY <1>3, <1>l, <2>3
    <3>2. EndOf(more, W + 1) > Len(Stream(bs))
      BY <1>2, <3>1, Zenon DEF SentMore
    <3>3. W + 1 \in 0 .. Len(more)
      BY <1>l, <1>m, <3>1
    <3>4. EndOf(more, W + 1) \in Nat
      BY <1>m, <3>3, StreamSteps, Zenon
    <3>5. EndOf(more, W + 1) > r
      <4>1. PICK x, y : x = EndOf(more, W + 1) /\ y = Len(Stream(bs))
        BY Zenon
      <4>2. x \in Nat /\ y \in Nat /\ x > y /\ r <= y
        BY <1>l, <1>r, <3>2, <3>4, <4>1, Zenon
      <4>3. x > r
        BY <1>r, <4>2
      <4> QED
        BY <4>1, <4>3, Zenon
    <3> QED
      BY <1>5, <2>1, <3>5, Zenon DEF IsWhole
  <2> QED
    BY <2>2, <2>3, Zenon
<1>7. WholeOf(more, r) = W
  BY <1>m, <1>r, <1>4, <1>6, WholeUnique, Zenon
<1>8. list = [n \in 1 .. W |-> Bytes(n, more[n])]
  <2>1. list = [n \in 1 .. W |-> Bytes(n, bs[n])]
    BY <1>1, Zenon DEF Handed
  <2>2. ASSUME NEW n \in 1 .. W PROVE Bytes(n, bs[n]) = Bytes(n, more[n])
    <3>1. n \in 1 .. Len(bs)
      BY <1>3, <1>l
    <3> QED
      BY <1>2, <3>1, Zenon DEF SentMore
  <2> QED
    BY <2>1, <2>2, Zenon
<1>9. buffer = SubSeq(Stream(more), EndOf(more, W) + 1, r)
  <2>1. PICK S, T, e : S = Stream(bs) /\ T = Stream(more) /\ e = EndOf(bs, W)
    BY Zenon
  <2>2. e \in Nat /\ e <= r
    BY <1>3, <2>1, StreamSteps, Zenon DEF IsWhole
  <2>3. S \in Seq(Byte) /\ T \in Seq(Byte) /\ r <= Len(S) /\ Len(S) <= Len(T)
    BY <1>2, <1>l, <1>m, <1>r, <2>1, StreamIs, Zenon DEF SentMore
  <2>4. r <= Len(T)
    BY <1>r, <2>3
  <2>5. PICK u : u = SubSeq(T, e + 1, r)
    BY Zenon
  <2>6. buffer = SubSeq(S, e + 1, r)
    BY <1>1, <2>1, Zenon DEF Handed
  <2>7. IsPart(buffer, Byte, S, e, r)
    BY <1>r, <2>2, <2>3, <2>6, SubSeqIs, Zenon
  <2>8. IsPart(u, Byte, T, e, r)
    BY <1>r, <2>2, <2>3, <2>4, <2>5, SubSeqIs, Zenon
  <2>9. IsPart(u, Byte, S, e, r)
    <3>1. ASSUME NEW i \in 1 .. r - e PROVE T[e + i] = S[e + i]
      <4>1. e + i \in 1 .. Len(S)
        BY <1>r, <2>2, <2>3
      <4> QED
        BY <1>2, <2>1, <4>1, Zenon DEF SentMore
    <3> QED
      BY <2>8, <3>1, Zenon DEF IsPart
  <2>10. buffer = u
    BY <2>7, <2>9, SamePart, Zenon
  <2> QED
    BY <1>5, <2>1, <2>5, <2>10, Zenon
<1> QED
  BY <1>1, <1>7, <1>8, <1>9, Zenon DEF Handed

\* Nor the packet that stopped the session.
LEMMA CausedMore ==
    ASSUME NEW bs \in Seq(Nat), NEW b \in Nat, NEW r, NEW stop, Caused(bs, r, stop)
    PROVE  Caused(Append(bs, b), r, stop)
<1>1. PICK more : more = Append(bs, b)
  BY Zenon
<1>2. SentMore(bs, more)
  BY <1>1, SendMore, Zenon
<1>3. more \in Seq(Nat) /\ Len(more) = Len(bs) + 1
  BY <1>2, Zenon DEF SentMore
<1>4. ASSUME NEW n \in DOMAIN bs
      PROVE  /\ n \in DOMAIN more /\ more[n] = bs[n]
             /\ EndOf(more, n) = EndOf(bs, n) /\ EndOf(more, n - 1) = EndOf(bs, n - 1)
  <2>1. n \in 1 .. Len(bs) /\ n \in 0 .. Len(bs) /\ n - 1 \in 0 .. Len(bs) /\ n \in DOMAIN more
    BY <1>3
  <2> QED
    BY <1>2, <2>1, Zenon DEF SentMore
<1>5. ASSUME CutIn(bs, r) PROVE CutIn(more, r)
  <2>1. PICK n : n \in DOMAIN bs /\ EndOf(bs, n - 1) + HeadLen <= r /\ r < EndOf(bs, n)
    BY <1>5, Zenon DEF CutIn
  <2>2. n \in DOMAIN more /\ EndOf(more, n - 1) + HeadLen <= r /\ r < EndOf(more, n)
    BY <1>4, <2>1, Zenon
  <2> QED
    BY <2>2, Zenon DEF CutIn
<1>6. ASSUME IllegalIn(bs, r) PROVE IllegalIn(more, r)
  <2>1. PICK n : n \in DOMAIN bs /\ bs[n] >= Limit /\ EndOf(bs, n - 1) + HeadLen <= r
    BY <1>6, Zenon DEF IllegalIn
  <2>2. n \in DOMAIN more /\ more[n] >= Limit /\ EndOf(more, n - 1) + HeadLen <= r
    BY <1>4, <2>1, Zenon
  <2> QED
    BY <2>2, Zenon DEF IllegalIn
<1> QED
  BY <1>1, <1>5, <1>6, Zenon DEF Caused

\* A read of n bytes, parsed behind the bytes that were left.
ReadDone(bs, r, list, parsed) ==
    /\ parsed \in Result
    /\ parsed.result = "ok" => /\ Handed(bs, r, list \o parsed.list, parsed.buffer)
                               /\ Little(bs, WholeOf(bs, r), r)
    /\ parsed.result = "overrun" => CutIn(bs, r)
    /\ parsed.result = "bad" => IllegalIn(bs, r)

\* The bytes left over and the bytes read are one stretch of the stream, and
\* the packets found in it continue the ones handed on before.
LEMMA HandedRead ==
    ASSUME NEW bs \in Seq(Nat), NEW r \in Nat, NEW n \in Nat, r + n <= Len(Stream(bs)),
           NEW list, NEW buffer, Handed(bs, r, list, buffer)
    PROVE  ReadDone(bs, r + n, list,
                    ParseStream(buffer \o SubSeq(Stream(bs), r + 1, r + n)))
<1>1. PICK W, S, e, q : W = WholeOf(bs, r) /\ S = Stream(bs) /\ e = EndOf(bs, W) /\ q = r + n
  BY Zenon
<1>2. S \in Seq(Byte) /\ Len(S) \in Nat /\ q <= Len(S) /\ Len(bs) \in Nat
  <2>1. Len(bs) \in Nat
    OBVIOUS
  <2> QED
    BY <1>1, <2>1, StreamIs, Zenon
<1>q. q \in Nat /\ r <= q /\ r \in Nat
  BY <1>1
<1>3. W \in 0 .. Len(bs) /\ IsWhole(bs, r, W)
  BY <1>1, WholeExists, Zenon
<1>4. e \in Nat /\ e <= r
  BY <1>1, <1>3, StreamSteps, Zenon DEF IsWhole
<1>5. e <= q /\ r <= Len(S)
  BY <1>2, <1>q, <1>4
<1>6. PICK t, u : t = SubSeq(S, r + 1, q) /\ u = SubSeq(S, e + 1, q)
  BY Zenon
<1>7. buffer \o t = u
  <2>1. buffer = SubSeq(S, e + 1, r)
    BY <1>1, Zenon DEF Handed
  <2>2. IsPart(buffer, Byte, S, e, r)
    BY <1>2, <1>q, <1>4, <1>5, <2>1, SubSeqIs, Zenon
  <2>3. IsPart(t, Byte, S, r, q)
    BY <1>2, <1>q, <1>6, SubSeqIs, Zenon
  <2>4. IsPart(buffer \o t, Byte, S, e, q)
    BY <1>q, <1>4, <2>2, <2>3, PartsConcat, Zenon
  <2>5. IsPart(u, Byte, S, e, q)
    BY <1>2, <1>q, <1>4, <1>5, <1>6, SubSeqIs, Zenon
  <2> QED
    BY <2>4, <2>5, SamePart, Zenon
<1>8. IsStretch(bs, W, W, q, u, 0)
  <2>1. 0 = e - e /\ W <= W
    BY <1>2, <1>3, <1>4
  <2> QED
    BY <1>1, <1>2, <1>3, <1>q, <1>5, <1>6, <2>1, Zenon DEF IsStretch
<1>9. PICK parsed : parsed = ParseStream(u)
  BY Zenon
<1>10. Found(bs, W, q, parsed)
  BY <1>8, <1>9, ParserFinds, Zenon
<1>11. PICK V : V = WholeOf(bs, q)
  BY Zenon
<1>12. V \in 0 .. Len(bs) /\ IsWhole(bs, q, V)
  BY <1>q, <1>11, WholeExists, Zenon
<1>13. parsed \in Result
  BY <1>10, Zenon DEF Found
<1>14. ASSUME parsed.result = "ok"
       PROVE  Handed(bs, q, list \o parsed.list, parsed.buffer) /\ Little(bs, V, q)
  <2>1. /\ parsed.list = Packets(bs, W, V) /\ parsed.buffer = SubSeq(S, EndOf(bs, V) + 1, q)
        /\ Little(bs, V, q)
    BY <1>1, <1>10, <1>11, <1>14, Zenon DEF Found
  <2>2. W <= V
    <3>1. SUFFICES ASSUME V < W PROVE FALSE
      BY <1>2, <1>3, <1>12
    <3>2. V < Len(bs) /\ V <= W
      BY <1>2, <1>3, <1>12, <3>1
    <3>3. EndOf(bs, V + 1) > q
      BY <1>12, <3>2, Zenon DEF IsWhole
    <3>4. EndOf(bs, V + 1) <= e
      BY <1>1, <1>3, <1>12, <3>1, <3>2, EndsGrow, Zenon
    <3>5. V + 1 \in 0 .. Len(bs)
      BY <1>2, <1>12, <3>2
    <3>6. PICK x : x = EndOf(bs, V + 1)
      BY Zenon
    <3>7. x \in Nat /\ x > q /\ x <= e
      BY <3>3, <3>4, <3>5, <3>6, StreamSteps, Zenon
    <3> QED
      BY <1>q, <1>5, <1>4, <3>7
  <2>3. list = Packets(bs, 0, W)
    BY <1>1, <1>3, PacketsFromFirst, Zenon DEF Handed
  <2>4. 0 \in Nat /\ 0 <= W
    BY <1>2, <1>3
  <2>5. Packets(bs, 0, W) \o Packets(bs, W, V) = Packets(bs, 0, V)
    BY <1>3, <1>12, <2>2, <2>4, PacketsConcat, Zenon
  <2>6. list \o parsed.list = [i \in 1 .. V |-> Bytes(i, bs[i])]
    BY <1>12, <2>1, <2>3, <2>5, PacketsFromFirst, Zenon
  <2> QED
    BY <1>1, <1>11, <2>1, <2>6, Zenon DEF Handed
<1>15. ASSUME parsed.result = "overrun" PROVE CutIn(bs, q)
  <2>1. V < Len(bs) /\ EndOf(bs, V) + HeadLen <= q
    BY <1>10, <1>11, <1>15, Zenon DEF Found
  <2>2. q < EndOf(bs, V + 1)
    <3>1. EndOf(bs, V + 1) > q
      BY <1>12, <2>1, Zenon DEF IsWhole
    <3>2. V + 1 \in 0 .. Len(bs)
      BY <1>2, <1>12, <2>1
    <3>3. EndOf(bs, V + 1) \in Nat
      BY <3>2, StreamSteps, Zenon
    <3> QED
      BY <1>q, <3>1, <3>3
  <2>3. V + 1 \in DOMAIN bs /\ (V + 1) - 1 = V
    BY <1>2, <1>12, <2>1
  <2> QED
    BY <2>1, <2>2, <2>3, Zenon DEF CutIn
<1>16. parsed.result = "bad" => IllegalIn(bs, q)
  BY <1>10, Zenon DEF Found
<1>17. ReadDone(bs, q, list, parsed)
  BY <1>11, <1>13, <1>14, <1>15, <1>16, Zenon DEF ReadDone
<1> QED
  BY <1>1, <1>6, <1>7, <1>9, <1>17, Zenon

\* Body lengths are numbers.
LEMMA BodiesAre ==
    ASSUME NEW bs \in Seq(Bodies)
    PROVE  bs \in Seq(Nat)
<1>1. Len(bs) \in Nat /\ bs = [i \in 1 .. Len(bs) |-> bs[i]]
      /\ \A i \in 1 .. Len(bs) : bs[i] \in Bodies
  OBVIOUS
<1>2. \A i \in 1 .. Len(bs) : bs[i] \in Nat
  BY <1>1, SizesOK, Zenon
<1>3. bs \in [1 .. Len(bs) -> Nat]
  BY <1>1, <1>2, Zenon
<1> QED
  BY <1>1, <1>3

\* What is left of a legal packet is less than the buffer.
LEMMA HandedRoom ==
    ASSUME NEW bs \in Seq(Bodies), NEW r \in 0 .. Len(Stream(bs)),
           NEW list, NEW buffer, Handed(bs, r, list, buffer),
           Little(bs, WholeOf(bs, r), r)
    PROVE  Len(buffer) < MaxBuff
<1>1. bs \in Seq(Nat) /\ Len(bs) \in Nat
  <2>1. bs \in Seq(Nat)
    BY BodiesAre, Zenon
  <2> QED
    BY <2>1
<1>2. PICK W, S, e : W = WholeOf(bs, r) /\ S = Stream(bs) /\ e = EndOf(bs, W)
  BY Zenon
<1>3. S \in Seq(Byte) /\ Len(S) \in Nat
  BY <1>1, <1>2, StreamIs, Zenon
<1>4. r \in Nat /\ r <= Len(S)
  BY <1>2, <1>3
<1>5. W \in 0 .. Len(bs) /\ IsWhole(bs, r, W)
  BY <1>1, <1>2, <1>4, WholeExists, Zenon
<1>6. e \in Nat /\ e <= r
  BY <1>1, <1>2, <1>5, StreamSteps, Zenon DEF IsWhole
<1>7. IsPart(buffer, Byte, S, e, r)
  <2>1. buffer = SubSeq(S, e + 1, r)
    BY <1>2, Zenon DEF Handed
  <2> QED
    BY <1>3, <1>4, <1>6, <2>1, SubSeqIs, Zenon
<1>8. Len(buffer) = r - e
  BY <1>7, Zenon DEF IsPart
<1>9. CASE r - e < HeadLen
  BY <1>4, <1>6, <1>8, <1>9, SizesOK
<1>10. CASE W < Len(bs) /\ bs[W + 1] < Limit /\ r - e < bs[W + 1]
  <2>1. bs[W + 1] \in Bodies
    BY <1>1, <1>5, <1>10
  <2>2. PICK b : b \in Bodies /\ b < Limit /\ r - e < b
    BY <1>10, <2>1, Zenon
  <2>3. b \in Nat /\ HeadLen + b <= MaxBuff
    BY <2>2, SizesOK, Zenon
  <2> QED
    BY <1>4, <1>6, <1>8, <2>2, <2>3, SizesOK
<1> QED
  BY <1>2, <1>9, <1>10, Zenon DEF Little
----------------------------------------------------------------------------
\* A datagram that the parser of datagrams takes to its end yields what it
\* holds, and moving by its length then empties the buffer.
SingleDone(d, parsed) ==
    /\ parsed \in Result
    /\ parsed.result # "overrun" => parsed.list = Yield(d)
    /\ Yield(d) \in Seq(Seq(Byte))
    /\ Move(parsed.buffer, Len(d)) = <<>>

\* parse_packet_from_recv_buffer_single on a datagram of its own.
LEMMA SingleYields ==
    ASSUME NEW d \in Seq(Byte), d # <<>>
    PROVE  SingleDone(d, ParseSingle(d))
<1>1. PICK l, b, p : l = Len(d) /\ b = d[1].body /\ p = SubSeq(d, 1, HeadLen + b)
  BY Zenon
<1>2. l \in Nat /\ b \in Nat
  <2>1. Len(d) \in Nat /\ d[1] \in Byte
    OBVIOUS
  <2>2. d[1].body \in Nat
    BY <2>1 DEF Byte
  <2> QED
    BY <1>1, <2>1, <2>2, Zenon
<1>3. <<>> \in Seq(Byte) /\ <<>> \in Seq(Seq(Byte)) /\ Len(<<>>) = 0
  OBVIOUS
<1>4. Move(<<>>, l) = <<>>
  <2>1. l >= 0
    BY <1>2
  <2> QED
    BY <1>3, <2>1, Zenon DEF Move
<1>5. PICK bad, over : /\ bad = [result |-> "bad", list |-> <<>>, buffer |-> <<>>]
                       /\ over = [result |-> "overrun", list |-> <<>>, buffer |-> <<>>]
  BY Zenon
<1>6. CASE l < HeadLen \/ b >= Limit \/ l < b
  <2>1. ParseSingle(d) = bad
    BY <1>1, <1>5, <1>6, Zenon DEF ParseSingle
  <2>2. ~(l >= HeadLen + b /\ b < Limit)
    BY <1>2, <1>6, SizesOK
  <2>3. Yield(d) = <<>>
    BY <1>1, <2>2, Zenon DEF Yield
  <2>4. bad \in Result /\ bad.list = <<>> /\ bad.buffer = <<>>
    BY <1>3, <1>5 DEF Result
  <2> QED
    BY <1>1, <1>3, <1>4, <2>1, <2>3, <2>4, Zenon DEF SingleDone
<1>7. CASE ~(l < HeadLen \/ b >= Limit \/ l < b) /\ EndsBeyond(l, b)
  <2>1. ParseSingle(d) = over
    BY <1>1, <1>5, <1>7, Zenon DEF ParseSingle
  <2>2. ~(l >= HeadLen + b /\ b < Limit)
    BY <1>2, <1>7, SizesOK DEF EndsBeyond
  <2>3. Yield(d) = <<>>
    BY <1>1, <2>2, Zenon DEF Yield
  <2>4. over \in Result /\ over.buffer = <<>> /\ over.result = "overrun"
    BY <1>3, <1>5 DEF Result
  <2> QED
    BY <1>1, <1>3, <1>4, <2>1, <2>3, <2>4, Zenon DEF SingleDone
<1>8. CASE ~(l < HeadLen \/ b >= Limit \/ l < b) /\ ~EndsBeyond(l, b)
  <2>1. l >= HeadLen + b /\ b < Limit /\ HeadLen + b \in Nat /\ HeadLen + b <= l /\ 0 \in Nat
        /\ 0 <= HeadLen + b
    BY <1>2, <1>8, SizesOK DEF EndsBeyond
  <2>2. Yield(d) = <<p>>
    BY <1>1, <2>1, Zenon DEF Yield
  <2>3. PICK rest : rest = Move(d, l - (HeadLen + b))
    BY Zenon
  <2>4. PICK ok : ok = [result |-> "ok", list |-> <<p>>, buffer |-> rest]
    BY Zenon
  <2>5. ParseSingle(d) = ok
    BY <1>1, <1>8, <2>3, <2>4, Zenon DEF ParseSingle
  <2>6. p \in Seq(Byte)
    BY <1>1, <2>1
  <2>7. rest \in Seq(Byte) /\ Len(rest) <= l /\ Len(rest) \in Nat
    <3>1. PICK m : m = l - (HeadLen + b)
      BY Zenon
    <3>2. m \in Nat /\ m <= l
      BY <1>2, <2>1, <3>1, SizesOK
    <3>3. CASE m >= l
      <4>1. rest = <<>>
        BY <1>1, <2>3, <3>1, <3>3, Zenon DEF Move
      <4> QED
        BY <1>2, <1>3, <4>1
    <3>4. CASE ~(m >= l)
      <4>1. rest = SubSeq(d, m + 1, l)
        BY <1>1, <2>3, <3>1, <3>4, Zenon DEF Move
      <4>2. l <= Len(d)
        BY <1>1, <1>2
      <4>3. IsPart(rest, Byte, d, m, l)
        BY <1>2, <3>2, <4>1, <4>2, SubSeqIs, Zenon
      <4>4. rest \in Seq(Byte) /\ Len(rest) = l - m
        BY <4>3, Zenon DEF IsPart
      <4> QED
        BY <1>2, <3>2, <4>4
    <3> QED
      BY <3>3, <3>4, Zenon
  <2>8. Move(rest, l) = <<>>
    <3>1. l >= Len(rest)
      BY <1>2, <2>7
    <3> QED
      BY <3>1, Zenon DEF Move
  <2>9. <<p>> \in Seq(Seq(Byte))
    BY <2>6
  <2>10. ok \in Result /\ ok.list = <<p>> /\ ok.buffer = rest
    <3>1. PICK L, B : L = Seq(Seq(Byte)) /\ B = Seq(Byte)
      BY Zenon
    <3>2. PICK q : q = <<p>>
      BY Zenon
    <3>3. q \in L /\ rest \in B /\ ok = [result |-> "ok", list |-> q, buffer |-> rest]
      BY <2>4, <2>7, <2>9, <3>1, <3>2, Zenon
    <3>4. /\ ok \in [result : {"ok", "bad", "overrun"}, list : L, buffer : B]
          /\ ok.list = q /\ ok.buffer = rest
      BY <3>3
    <3> QED
      BY <3>1, <3>2, <3>4, Zenon DEF Result
  <2> QED
    BY <1>1, <2>2, <2>5, <2>8, <2>9, <2>10, Zenon DEF SingleDone
<1> QED
  BY <1>6, <1>7, <1>8, Zenon

\* What DatagramsAreAlone says of the messages, of any datagrams.
Yields(ds, list) ==
    /\ [i \in DOMAIN ds |-> Yield(ds[i])] \in Seq(Seq(Seq(Byte)))
    /\ list = Concat([i \in DOMAIN ds |-> Yield(ds[i])])

\* One datagram more.
LEMMA YieldsMore ==
    ASSUME NEW ds \in Seq(Seq(Byte)), NEW list, Yields(ds, list),
           NEW d \in Seq(Byte), Yield(d) \in Seq(Seq(Byte))
    PROVE  Yields(Append(ds, d), list \o Yield(d))
<1>1. PICK f, y, more, g : /\ f = [i \in DOMAIN ds |-> Yield(ds[i])] /\ y = Yield(d)
                           /\ more = Append(ds, d)
                           /\ g = [i \in DOMAIN more |-> Yield(more[i])]
  BY Zenon
<1>2. PICK L : L = Seq(Seq(Byte))
  BY Zenon
<1>3. f \in Seq(L) /\ y \in L /\ list = Concat(f)
  BY <1>1, <1>2, Zenon DEF Yields
<1>4. /\ Len(ds) \in Nat /\ DOMAIN ds = 1 .. Len(ds) /\ DOMAIN more = 1 .. Len(ds) + 1
      /\ more[Len(ds) + 1] = d /\ \A i \in 1 .. Len(ds) : more[i] = ds[i]
  BY <1>1
<1>5. Len(f) = Len(ds)
  <2>1. DOMAIN f = 1 .. Len(ds)
    BY <1>1, <1>4, Zenon
  <2> QED
    BY <1>3, <1>4, <2>1
<1>6. g = Append(f, y)
  <2>1. PICK h : h = Append(f, y)
    BY Zenon
  <2>2. /\ h \in Seq(L) /\ Len(h) = Len(f) + 1 /\ h[Len(f) + 1] = y
        /\ \A i \in 1 .. Len(f) : h[i] = f[i]
    BY <1>3, <2>1
  <2>3. \A i \in 1 .. Len(ds) + 1 : i \in 1 .. Len(ds) \/ i = Len(ds) + 1
    BY <1>4
  <2>4. g = [i \in 1 .. Len(ds) + 1 |-> Yield(more[i])]
    BY <1>1, <1>4, Zenon
  <2>5. ASSUME NEW i \in 1 .. Len(ds) + 1 PROVE Yield(more[i]) = h[i]
    <3>1. CASE i = Len(ds) + 1
      BY <1>1, <1>4, <1>5, <2>2, <3>1, Zenon
    <3>2. CASE i \in 1 .. Len(ds)
      <4>1. f[i] = Yield(ds[i])
        BY <1>1, <1>4, <3>2, Zenon
      <4> QED
        BY <1>4, <1>5, <2>2, <3>2, <4>1, Zenon
    <3> QED
      BY <2>3, <3>1, <3>2, Zenon
  <2>6. h = [i \in 1 .. Len(ds) + 1 |-> h[i]]
    BY <1>5, <2>2
  <2>7. g = [i \in 1 .. Len(ds) + 1 |-> h[i]]
    BY <2>4, <2>5, Zenon
  <2> QED
    BY <2>1, <2>6, <2>7, Zenon
<1>7. g \in Seq(L)
  BY <1>3, <1>6
<1>8. Concat(g) = list \o y
  BY <1>2, <1>3, <1>6, ConcatAppend, Zenon
<1> QED
  BY <1>1, <1>2, <1>7, <1>8, Zenon DEF Yields

\* A function on 1 .. n is a sequence.
LEMMA FunctionIsSeq ==
    ASSUME NEW X, NEW n \in Nat, NEW f \in [1 .. n -> X]
    PROVE  f \in Seq(X)
OBVIOUS

\* Datagrams are not empty, and so have a first packet to speak of.
LEMMA YieldsAre ==
    ASSUME NEW ds \in Seq(Seq(Byte) \ {<<>>})
    PROVE  /\ ds \in Seq(Seq(Byte))
           /\ [i \in DOMAIN ds |-> Yield(ds[i])] \in Seq(Seq(Seq(Byte)))
<1>1. PICK B, L : B = Seq(Byte) /\ L = Seq(Seq(Byte))
  BY Zenon
<1>2. /\ Len(ds) \in Nat /\ DOMAIN ds = 1 .. Len(ds) /\ ds = [i \in 1 .. Len(ds) |-> ds[i]]
      /\ \A i \in 1 .. Len(ds) : ds[i] \in B /\ ds[i] # <<>>
  BY <1>1
<1>3. ASSUME NEW i \in 1 .. Len(ds) PROVE Yield(ds[i]) \in L
  <2>1. SingleDone(ds[i], ParseSingle(ds[i]))
    BY <1>1, <1>2, SingleYields, Zenon
  <2> QED
    BY <1>1, <2>1, Zenon DEF SingleDone
<1>4. PICK f : f = [i \in 1 .. Len(ds) |-> Yield(ds[i])]
  BY Zenon
<1>5. f \in [1 .. Len(ds) -> L] /\ ds \in [1 .. Len(ds) -> B]
  BY <1>2, <1>3, <1>4, Zenon
<1>6. f \in Seq(L) /\ ds \in Seq(B)
  BY <1>2, <1>5, FunctionIsSeq, Zenon
<1> QED
  BY <1>1, <1>2, <1>4, <1>6, Zenon
----------------------------------------------------------------------------
\* The inductive invariant: what the two parsers promise together.
ParseInv ==
    /\ ParseTypeOK
    /\ CutsDoNotMatter /\ StopsForCause /\ RoomForMore
    /\ DatagramsAreAlone

\* Nothing has been sent.
LEMMA ParseInitInv == ParseInit => ParseInv
<1> SUFFICES ASSUME ParseInit PROVE ParseInv
  OBVIOUS
<1> USE DEF ParseInit
<1>1. <<>> \in Seq(Byte) /\ <<>> \in Seq(Seq(Byte)) /\ <<>> \in Seq(Bodies)
      /\ <<>> \in Seq(Seq(Byte) \ {<<>>}) /\ <<>> \in Seq(Nat) /\ Len(<<>>) = 0 /\ 0 \in 0 .. 0
      /\ 0 \in Nat /\ 0 <= 0 /\ ~(0 < 0) /\ 0 .. 0 = {0} /\ 1 .. 0 = {}
  OBVIOUS
<1>2. Stream(<<>>) = <<>>
  BY StreamEmpty
<1>3. ParseTypeOK
  BY <1>1, <1>2, Zenon DEF ParseTypeOK
<1>4. CutsDoNotMatter
  <2>1. EndOf(<<>>, 0) = 0
    BY <1>1, StreamSteps, Zenon
  <2>2. IsWhole(<<>>, 0, 0)
    BY <1>1, <2>1, Zenon DEF IsWhole
  <2>3. WholeOf(<<>>, 0) = 0
    BY <1>1, <2>2, WholeUnique, Zenon
  <2>4. PICK s : s = <<>>
    BY Zenon
  <2>5. <<>> = [n \in 1 .. 0 |-> Bytes(n, s[n])]
    OBVIOUS
  <2>6. <<>> = SubSeq(<<>>, 0 + 1, 0)
    OBVIOUS
  <2>7. Handed(<<>>, 0, <<>>, <<>>)
    BY <1>2, <2>1, <2>3, <2>4, <2>5, <2>6, Zenon DEF Handed
  <2> QED
    BY <2>7, Zenon DEF CutsDoNotMatter, Handed, Whole, WholeOf, IsWhole, Ends, EndOf
<1>5. StopsForCause
  <2>1. state # "overrun" /\ state # "closing"
    OBVIOUS
  <2> QED
    BY <2>1, Zenon DEF StopsForCause
<1>6. RoomForMore
  <2>1. 0 < MaxBuff
    BY SizesOK
  <2> QED
    BY <1>1, <2>1, Zenon DEF RoomForMore
<1>7. DatagramsAreAlone
  <2>1. PICK s : s = <<>>
    BY Zenon
  <2>2. PICK f : f = [i \in DOMAIN s |-> Yield(s[i])]
    BY Zenon
  <2>3. f = <<>>
    BY <2>1, <2>2
  <2>4. Concat(f) = <<>>
    BY <2>3, ConcatEmpty, Zenon
  <2> QED
    BY <2>1, <2>2, <2>4, Zenon DEF DatagramsAreAlone
<1> QED
  BY <1>3, <1>4, <1>5, <1>6, <1>7, Zenon DEF ParseInv

\* A packet is sent.
LEMMA SendInv ==
    ASSUME ParseInv, NEW b \in Bodies, Send(b)
    PROVE  ParseInv'
<1>1. /\ io_type = "tcp" /\ sent' = Append(sent, b) /\ io_type' = io_type /\ received' = received
      /\ session_recv_buffer' = session_recv_buffer /\ messages' = messages /\ state' = state
  BY Zenon DEF Send
<1>2. ParseTypeOK /\ CutsDoNotMatter /\ StopsForCause /\ RoomForMore /\ DatagramsAreAlone
  BY Zenon DEF ParseInv
<1>3. sent \in Seq(Bodies) /\ received \in 0 .. Len(Stream(sent))
  BY <1>1, <1>2, Zenon DEF ParseTypeOK
<1>4. sent \in Seq(Nat) /\ b \in Nat
  BY <1>3, BodiesAre, SizesOK, Zenon
<1>5. ParseTypeOK'
  <2>1. sent' \in Seq(Bodies)
    BY <1>1, <1>3
  <2>2. received' \in 0 .. Len(Stream(sent'))
    <3>1. SentMore(sent, sent')
      BY <1>1, <1>4, SendMore, Zenon
    <3>2. PICK x, y : x = Len(Stream(sent)) /\ y = Len(Stream(sent'))
      BY Zenon
    <3>3. x <= y /\ received \in 0 .. x /\ sent' \in Seq(Nat)
      BY <1>3, <3>1, <3>2, Zenon DEF SentMore
    <3>4. x \in Nat /\ y \in Nat
      BY <1>4, <3>2, <3>3, StreamIs, Zenon
    <3>5. received \in 0 .. y
      BY <3>3, <3>4
    <3> QED
      BY <1>1, <3>2, <3>5, Zenon
  <2>3. io_type' # "udp"
    BY <1>1
  <2> QED
    BY <1>1, <1>2, <2>1, <2>2, <2>3, Zenon DEF ParseTypeOK
<1>6. CutsDoNotMatter'
  <2>1. SUFFICES ASSUME state = "open"
                 PROVE  Handed(sent', received, messages, session_recv_buffer)
    BY <1>1, Zenon DEF CutsDoNotMatter, Handed, Whole, WholeOf, IsWhole, Ends, EndOf
  <2>2. Handed(sent, received, messages, session_recv_buffer)
    BY <1>1, <1>2, <2>1, Zenon DEF CutsDoNotMatter, Handed, Whole, WholeOf, IsWhole, Ends, EndOf
  <2> QED
    BY <1>1, <1>3, <1>4, <2>2, HandedMore, Zenon
<1>7. StopsForCause'
  <2>1. Caused(sent, received, state)
    BY <1>1, <1>2, Zenon DEF StopsForCause, Caused, CutIn, IllegalIn, Ends, EndOf
  <2>2. Caused(sent', received', state')
    BY <1>1, <1>4, <2>1, CausedMore, Zenon
  <2> QED
    BY <2>2, Zenon DEF StopsForCause, Caused, CutIn, IllegalIn, Ends, EndOf
<1>8. RoomForMore'
  BY <1>1, <1>2, Zenon DEF RoomForMore
<1>9. DatagramsAreAlone'
  <2>1. io_type' # "udp"
    BY <1>1
  <2> QED
    BY <2>1, Zenon DEF DatagramsAreAlone
<1> QED
  BY <1>5, <1>6, <1>7, <1>8, <1>9, Zenon DEF ParseInv

\* Bytes are read.
LEMMA ReadInv ==
    ASSUME ParseInv, NEW n \in 1 .. MaxBuff, DoReadSome(n)
    PROVE  ParseInv'
<1>1. PICK parsed : parsed = ParseStream(session_recv_buffer
                                   \o SubSeq(Stream(sent), received + 1, received + n))
  BY Zenon
<1>2. /\ io_type = "tcp" /\ state = "open" /\ n <= Len(Stream(sent)) - received
      /\ session_recv_buffer' = parsed.buffer /\ received' = received + n
      /\ \/ /\ parsed.result = "ok" /\ messages' = messages \o parsed.list /\ state' = state
         \/ /\ parsed.result # "ok" /\ messages' = messages
            /\ state' = IF parsed.result = "bad" THEN "closing" ELSE "overrun"
      /\ io_type' = io_type /\ sent' = sent
  BY <1>1, Zenon DEF DoReadSome, Read
<1>3. ParseTypeOK /\ CutsDoNotMatter
  BY Zenon DEF ParseInv
<1>4. /\ sent \in Seq(Bodies) /\ received \in 0 .. Len(Stream(sent))
      /\ messages \in Seq(Seq(Byte))
  BY <1>2, <1>3, Zenon DEF ParseTypeOK
<1>5. sent \in Seq(Nat)
  BY <1>4, BodiesAre, Zenon
<1>6. PICK l : l = Len(Stream(sent))
  BY Zenon
<1>7. l \in Nat /\ n \in Nat
  <2>1. n \in Nat
    BY SizesOK
  <2> QED
    BY <1>5, <1>6, <2>1, StreamIs, Zenon
<1>8. received \in Nat /\ received + n <= l /\ received + n \in 0 .. l
  BY <1>2, <1>4, <1>6, <1>7
<1>9. ReadDone(sent, received + n, messages, parsed)
  <2>1. Handed(sent, received, messages, session_recv_buffer)
    BY <1>2, <1>3, Zenon DEF CutsDoNotMatter, Handed, Whole, WholeOf, IsWhole, Ends, EndOf
  <2> QED
    BY <1>1, <1>5, <1>6, <1>7, <1>8, <2>1, HandedRead, Zenon
<1>10. parsed \in Result
  BY <1>9, Zenon DEF ReadDone
<1>11. /\ parsed.buffer \in Seq(Byte) /\ parsed.list \in Seq(Seq(Byte))
       /\ parsed.result \in {"ok", "bad", "overrun"}
  <2>1. PICK L, B : L = Seq(Seq(Byte)) /\ B = Seq(Byte)
    BY Zenon
  <2>2. parsed \in [result : {"ok", "bad", "overrun"}, list : L, buffer : B]
    BY <1>10, <2>1, Zenon DEF Result
  <2>3. parsed.buffer \in B /\ parsed.list \in L /\ parsed.result \in {"ok", "bad", "overrun"}
    BY <2>2
  <2> QED
    BY <2>1, <2>3, Zenon
<1>12. ParseTypeOK'
  <2>1. messages' \in Seq(Seq(Byte))
    <3>1. messages \o parsed.list \in Seq(Seq(Byte))
      BY <1>4, <1>11, ConcatIs, Zenon
    <3> QED
      BY <1>2, <1>4, <3>1, Zenon
  <2>2. state' \in {"open", "closing", "overrun"}
    BY <1>2
  <2>3. io_type' # "udp" /\ io_type' \in {"tcp", "udp"}
    BY <1>2
  <2>4. received' \in 0 .. Len(Stream(sent'))
    BY <1>2, <1>6, <1>8, Zenon
  <2> QED
    BY <1>2, <1>4, <1>11, <2>1, <2>2, <2>3, <2>4, Zenon DEF ParseTypeOK
<1>13. state' = "open" => parsed.result = "ok"
  BY <1>2
<1>14. /\ state' = "overrun" => parsed.result = "overrun"
       /\ state' = "closing" => parsed.result = "bad"
  BY <1>2, <1>11
<1>15. ASSUME state' = "open"
       PROVE  /\ Handed(sent', received', messages', session_recv_buffer')
              /\ Little(sent', WholeOf(sent', received'), received')
  BY <1>2, <1>9, <1>13, <1>15, Zenon DEF ReadDone
<1>16. CutsDoNotMatter'
  BY <1>15, Zenon DEF CutsDoNotMatter, Handed, Whole, WholeOf, IsWhole, Ends, EndOf
<1>17. StopsForCause'
  <2>1. Caused(sent', received', state')
    BY <1>2, <1>9, <1>14, Zenon DEF ReadDone, Caused
  <2> QED
    BY <2>1, Zenon DEF StopsForCause, Caused, CutIn, IllegalIn, Ends, EndOf
<1>18. RoomForMore'
  <2>1. sent' \in Seq(Bodies) /\ received' \in 0 .. Len(Stream(sent'))
    BY <1>2, <1>4, <1>6, <1>8, Zenon
  <2>2. state' = "open" => Len(session_recv_buffer') < MaxBuff
    BY <1>15, <2>1, HandedRoom, Zenon
  <2> QED
    BY <2>2, Zenon DEF RoomForMore
<1>19. DatagramsAreAlone'
  <2>1. io_type' # "udp"
    BY <1>2
  <2> QED
    BY <2>1, Zenon DEF DatagramsAreAlone
<1> QED
  BY <1>12, <1>16, <1>17, <1>18, <1>19, Zenon DEF ParseInv

\* A datagram arrives.
LEMMA ReceiveInv ==
    ASSUME ParseInv, NEW bs \in Datagrams, NEW cut \in 1 .. MaxBuff, cut <= Len(Stream(bs)),
           DoReceiveFrom(bs, cut)
    PROVE  ParseInv'
<1>1. PICK d : d = SubSeq(Stream(bs), 1, cut)
  BY Zenon
<1>2. PICK parsed : parsed = ParseSingle(session_recv_buffer \o d)
  BY Zenon
<1>3. /\ io_type = "udp" /\ state = "open"
      /\ received' = Append(received, d)
      /\ session_recv_buffer' = Move(parsed.buffer, cut)
      /\ messages' = messages \o parsed.list
      /\ state' = IF parsed.result = "overrun" THEN "overrun" ELSE "open"
      /\ io_type' = io_type /\ sent' = sent
  BY <1>1, <1>2, Zenon DEF DoReceiveFrom, Datagram
<1>4. ParseTypeOK /\ DatagramsAreAlone
  BY Zenon DEF ParseInv
<1>5. /\ sent \in Seq(Bodies) /\ received \in Seq(Seq(Byte) \ {<<>>})
      /\ messages \in Seq(Seq(Byte)) /\ io_type # "tcp" /\ io_type' # "tcp"
  <2>1. io_type # "tcp" /\ io_type' # "tcp"
    BY <1>3
  <2> QED
    BY <1>3, <1>4, <2>1, Zenon DEF ParseTypeOK
<1>6. /\ session_recv_buffer = <<>>
      /\ messages = Concat([i \in DOMAIN received |-> Yield(received[i])])
  BY <1>3, <1>4, Zenon DEF DatagramsAreAlone
<1>7. d \in Seq(Byte) /\ Len(d) = cut /\ d # <<>>
  <2>1. bs \in Seq(Nat)
    <3>1. ASSUME NEW b \in Bodies, NEW c \in Bodies
          PROVE  <<b>> \in Seq(Bodies) /\ <<b, c>> \in Seq(Bodies)
      OBVIOUS
    <3>2. \/ \E b \in Bodies : bs = <<b>>
          \/ \E b \in Bodies, c \in Bodies : bs = <<b, c>>
      BY DEF Datagrams
    <3>3. bs \in Seq(Bodies)
      BY <3>1, <3>2, Zenon
    <3> QED
      BY <3>3, BodiesAre, Zenon
  <2>2. PICK S : S = Stream(bs) /\ S \in Seq(Byte)
    BY <2>1, StreamIs, Zenon
  <2>3. cut \in Nat /\ cut >= 1
    BY SizesOK
  <2>4. cut <= Len(S) /\ d = SubSeq(S, 1, cut)
    BY <1>1, <2>2, Zenon
  <2>5. d \in Seq(Byte) /\ Len(d) = cut
    BY <2>2, <2>3, <2>4
  <2> QED
    BY <2>3, <2>5
<1>8. session_recv_buffer \o d = d
  BY <1>6, <1>7, EmptyConcat, Zenon
<1>9. SingleDone(d, parsed)
  BY <1>2, <1>7, <1>8, SingleYields, Zenon
<1>10. /\ parsed \in Result /\ session_recv_buffer' = <<>> /\ Yield(d) \in Seq(Seq(Byte))
       /\ parsed.result # "overrun" => parsed.list = Yield(d)
  BY <1>3, <1>7, <1>9, Zenon DEF SingleDone
<1>11. parsed.list \in Seq(Seq(Byte))
  <2>1. PICK L, B : L = Seq(Seq(Byte)) /\ B = Seq(Byte)
    BY Zenon
  <2>2. parsed \in [result : {"ok", "bad", "overrun"}, list : L, buffer : B]
    BY <1>10, <2>1, Zenon DEF Result
  <2>3. parsed.list \in L
    BY <2>2
  <2> QED
    BY <2>1, <2>3, Zenon
<1>12. ParseTypeOK'
  <2>1. PICK B : B = Seq(Byte) \ {<<>>}
    BY Zenon
  <2>2. received \in Seq(B) /\ d \in B
    BY <1>5, <1>7, <2>1, Zenon
  <2>3. Append(received, d) \in Seq(B)
    BY <2>2
  <2>4. messages \o parsed.list \in Seq(Seq(Byte))
    BY <1>5, <1>11, ConcatIs, Zenon
  <2>5. state' \in {"open", "closing", "overrun"} /\ <<>> \in Seq(Byte) /\ io_type' \in {"tcp", "udp"}
    BY <1>3
  <2> QED
    BY <1>3, <1>5, <1>10, <2>1, <2>3, <2>4, <2>5, Zenon DEF ParseTypeOK
<1>13. CutsDoNotMatter' /\ StopsForCause' /\ RoomForMore'
  BY <1>5, Zenon DEF CutsDoNotMatter, StopsForCause, RoomForMore
<1>14. DatagramsAreAlone'
  <2>1. SUFFICES ASSUME state' = "open"
                 PROVE  messages' = Concat([i \in DOMAIN received' |-> Yield(received'[i])])
    BY <1>10, Zenon DEF DatagramsAreAlone
  <2>2. parsed.result # "overrun"
    BY <1>3, <2>1
  <2>3. received \in Seq(Seq(Byte)) /\ Yields(received, messages)
    BY <1>5, <1>6, YieldsAre, Zenon DEF Yields
  <2>4. Yields(Append(received, d), messages \o Yield(d))
    BY <1>7, <1>10, <2>3, YieldsMore, Zenon
  <2> QED
    BY <1>3, <1>10, <2>2, <2>4, Zenon DEF Yields
<1> QED
  BY <1>12, <1>13, <1>14, Zenon DEF ParseInv

\* Every step keeps the invariant.
LEMMA ParseStepInv == ParseInv /\ [ParseNext]_parseVars => ParseInv'
<1> SUFFICES ASSUME ParseInv, [ParseNext]_parseVars PROVE ParseInv'
  BY Zenon
<1>1. CASE \E b \in Bodies : Send(b)
  BY <1>1, SendInv, Zenon
<1>2. CASE \E n \in 1 .. MaxBuff : DoReadSome(n)
  BY <1>2, ReadInv, Zenon
<1>3. CASE \E bs \in Datagrams, cut \in 1 .. MaxBuff :
              cut <= Len(Stream(bs)) /\ DoReceiveFrom(bs, cut)
  BY <1>3, ReceiveInv, Zenon
<1>4. CASE UNCHANGED parseVars
  BY <1>4, Zenon DEF ParseInv, ParseTypeOK, CutsDoNotMatter, StopsForCause, RoomForMore,
     DatagramsAreAlone, Whole, Ends, parseVars
<1> QED
  BY <1>1, <1>2, <1>3, <1>4, Zenon DEF ParseNext

\* The invariant holds in every reachable state.
THEOREM ParseInvariant == ParseSpec => []ParseInv
BY ParseInitInv, ParseStepInv, PTL DEF ParseSpec

\* However do_read_some cuts the stream, the packets handed on are the ones that
\* have arrived whole, in order and once, and the receive buffer holds the rest.
THEOREM CutsDoNotMatterHolds == ParseSpec => []CutsDoNotMatter
<1>1. ParseInv => CutsDoNotMatter
  BY DEF ParseInv
<1> QED
  BY <1>1, ParseInvariant, PTL

\* The parser copies bytes that were not received only after a read that ends
\* inside a packet whose header is there, and refuses the data only if a header
\* that arrived names an illegal length.
THEOREM StopsForCauseHolds == ParseSpec => []StopsForCause
<1>1. ParseInv => StopsForCause
  BY DEF ParseInv
<1> QED
  BY <1>1, ParseInvariant, PTL

\* A session that reads on reads into a range that is not empty, provided that
\* recv_buff_size holds every legal packet that is sent.
THEOREM RoomForMoreHolds == ParseSpec => []RoomForMore
<1>1. ParseInv => RoomForMore
  BY DEF ParseInv
<1> QED
  BY <1>1, ParseInvariant, PTL

\* do_receive_from parses each datagram on its own.
THEOREM DatagramsAreAloneHolds == ParseSpec => []DatagramsAreAlone
<1>1. ParseInv => DatagramsAreAlone
  BY DEF ParseInv
<1> QED
  BY <1>1, ParseInvariant, PTL
=============================================================================

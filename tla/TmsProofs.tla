----------------------------- MODULE TmsProofs -----------------------------
(***************************************************************************)
(* Proofs about the worker-thread library (Tms), for any set of logic      *)
(* threads and any set of tasks.                                           *)
(*                                                                         *)
(* The inductive invariant has four parts: the types; LogInv, which ties   *)
(* the queue of a thread, the message it is running and its history to     *)
(* what was pushed; OnceInv, which says where a task that was added can    *)
(* be; CloseInv, which says how far Close has come.  SignalInv, at the     *)
(* end, says that the thread Close joins was told to end.                  *)
(***************************************************************************)
EXTENDS Tms, TLAPS

\* A leaf that names no prover is left to the SMT solver.
USE SMTT(20)

\* 1 while svc holds a popped task it has not finished.
Busy(id) == IF svc[id] = "run" THEN 1 ELSE 0

\* q is what p holds behind its first k elements.
IsRest(q, p, k) ==
    /\ Len(p) = k + Len(q)
    /\ \A i \in 1..Len(q) : q[i] = p[k + i]

LogOf(id) ==
    /\ Len(done[id]) <= Len(put[id])
    /\ \A i \in 1..Len(done[id]) : done[id][i] = put[id][i]
    /\ svc[id] = "run" => msg[id] # CLOSE /\ msg[id] = put[id][Len(done[id]) + 1]
    /\ svc[id] # "end" => IsRest(m_thread_queue[id], put[id], Len(done[id]) + Busy(id))

LogInv == \A id \in LogicIds : LogOf(id)

InPut(m) == \E id \in LogicIds : \E i \in 1..Len(put[id]) : put[id][i] = m

\* The tasks of the events in q were added, are pushed nowhere, are in no
\* unfinished call and occur in q once.
Waiting(q) ==
    \A i \in 1..Len(q) :
        /\ q[i].msg \in added
        /\ ~InPut(q[i].msg)
        /\ \A e \in adding : e.msg # q[i].msg
        /\ \A j \in 1..Len(q) : q[i].msg = q[j].msg => i = j

PutOnce ==
    \A s, t \in LogicIds : \A i \in 1..Len(put[s]), j \in 1..Len(put[t]) :
        put[s][i] # CLOSE /\ put[s][i] = put[t][j] => s = t /\ i = j

PutAdded ==
    \A s \in LogicIds : \A i \in 1..Len(put[s]) : put[s][i] # CLOSE => put[s][i] \in added

AddingOnce ==
    /\ \A e \in adding : e.msg \in added /\ ~InPut(e.msg)
    /\ \A e, f \in adding : e.msg = f.msg => e = f

OnceInv ==
    /\ PutOnce
    /\ PutAdded
    /\ AddingOnce
    /\ Waiting(replay)
    /\ owner = "init" => Waiting(m_tmsEvents) /\ ~tms_is_start

CloseInv ==
    /\ toClose \subseteq m_mapLogicList
    /\ \A id \in LogicIds \ m_mapLogicList : svc[id] = "none"
    /\ owner \in {"stop", "push", "join", "closed"} =>
          \A id \in m_mapLogicList \ toClose : svc[id] = "end"
    /\ owner = "closed" => toClose = {}

IInv == TypeOK /\ LogInv /\ OnceInv /\ CloseInv

----------------------------------------------------------------------------
\* Initially the invariant holds.
LEMMA InitIInv == Init => IInv
<1> SUFFICES ASSUME Init PROVE IInv
  OBVIOUS
<1> USE DEF Init
<1>1. TypeOK
  <2>1. CLOSE \in Message
    BY DEF Message
  <2>2. <<>> \in Seq(Message) /\ <<>> \in Seq(Msgs) /\ <<>> \in Seq(Event)
    OBVIOUS
  <2> QED BY <2>1, <2>2, Zenon DEF TypeOK
<1>2. LogInv
  <2> SUFFICES ASSUME NEW id \in LogicIds PROVE LogOf(id)
    BY Zenon DEF LogInv
  <2>1. put[id] = <<>> /\ done[id] = <<>> /\ m_thread_queue[id] = <<>> /\ svc[id] = "none"
    OBVIOUS
  <2>2. Len(<<>>) = 0
    OBVIOUS
  <2> QED BY <2>1, <2>2 DEF LogOf, IsRest, Busy
<1>3. OnceInv
  BY DEF OnceInv, PutOnce, PutAdded, AddingOnce, Waiting
<1>4. CloseInv
  BY DEF CloseInv
<1> QED BY <1>1, <1>2, <1>3, <1>4 DEF IInv

\* A push keeps the types of the queue and of the history.
LEMMA PushType ==
    ASSUME TypeOK, NEW id \in LogicIds, NEW m \in Message, Push(id, m)
    PROVE  /\ m_thread_queue' \in [LogicIds -> Seq(Message)]
           /\ put' \in [LogicIds -> Seq(Message)]
<1>1. \A q \in Seq(Message) : Append(q, m) \in Seq(Message)
  OBVIOUS
<1> QED BY <1>1 DEF TypeOK, Push

\* So does AddMessage on a started library, refused or not.
LEMMA DeliverType ==
    ASSUME TypeOK, NEW id \in LogicIds, NEW m \in Msgs, Deliver(id, m)
    PROVE  /\ m_thread_queue' \in [LogicIds -> Seq(Message)]
           /\ put' \in [LogicIds -> Seq(Message)]
<1>1. m \in Message
  BY DEF Message
<1> QED BY <1>1, PushType DEF TypeOK, Deliver, queueVars

\* The loop of Start takes an event.
LEMMA HeadOfReplay ==
    ASSUME TypeOK, replay # <<>>
    PROVE  /\ Head(replay).logic \in LogicIds
           /\ Head(replay).msg \in Msgs
           /\ Tail(replay) \in Seq(Event)
<1>1. Head(replay) \in Event /\ Tail(replay) \in Seq(Event)
  BY DEF TypeOK
<1> QED BY <1>1 DEF Event

\* Every step of tms.hpp keeps the types.
LEMMA StepTypeOK == TypeOK /\ LogInv /\ [Next]_vars => TypeOK'
<1> SUFFICES ASSUME TypeOK, LogInv, [Next]_vars PROVE TypeOK'
  OBVIOUS
<1> USE DEF TypeOK, tmsVars, queueVars, threadVars, ownerVars, callVars
<1>1. ASSUME NEW id \in LogicIds, NEW m \in Msgs, AddMessage(id, m) PROVE TypeOK'
  BY <1>1, DeliverType DEF AddMessage
<1>2. ASSUME NEW id \in LogicIds, NEW m \in Msgs, AddMessageEarly(id, m) PROVE TypeOK'
  BY <1>2 DEF AddMessageEarly, Event
<1>3. ASSUME NEW e \in adding, AddMessageBuffer(e) PROVE TypeOK'
  <2>1. Append(m_tmsEvents, e) \in Seq(Event)
    OBVIOUS
  <2> QED BY <1>3, <2>1 DEF AddMessageBuffer
<1>4. ASSUME NEW id \in LogicIds, CreateLogic(id) PROVE TypeOK'
  BY <1>4 DEF CreateLogic
<1>5. CASE Start
  BY <1>5 DEF Start
<1>6. CASE Replay
  <2>1. CASE replay # <<>>
    <3>1. Deliver(Head(replay).logic, Head(replay).msg)
      BY <1>6, <2>1 DEF Replay
    <3> QED BY <1>6, <2>1, <3>1, HeadOfReplay, DeliverType, Zenon DEF Replay
  <2>2. CASE replay = <<>>
    BY <1>6, <2>2 DEF Replay
  <2> QED BY <2>1, <2>2
<1>7. CASE Close
  BY <1>7 DEF Close
<1>8. CASE CloseEnd
  BY <1>8, Zenon DEF CloseEnd
<1>9. ASSUME NEW id \in LogicIds, CloseStop(id) PROVE TypeOK'
  BY <1>9 DEF CloseStop
<1>10. ASSUME NEW id \in LogicIds, ClosePush(id) PROVE TypeOK'
  <2>1. CLOSE \in Message
    BY DEF Message
  <2> QED BY <1>10, <2>1, PushType DEF ClosePush
<1>11. ASSUME NEW id \in LogicIds, CloseJoin(id) PROVE TypeOK'
  BY <1>11 DEF CloseJoin
<1>12. ASSUME NEW id \in LogicIds, SvcTest(id) PROVE TypeOK'
  BY <1>12 DEF SvcTest
<1>13. ASSUME NEW id \in LogicIds, SvcPop(id) PROVE TypeOK'
  <2>1. /\ Head(m_thread_queue[id]) \in Message
        /\ Tail(m_thread_queue[id]) \in Seq(Message)
    BY <1>13 DEF SvcPop
  <2> QED BY <1>13, <2>1 DEF SvcPop
<1>14. ASSUME NEW id \in LogicIds, SvcRun(id) PROVE TypeOK'
  <2>1. msg[id] \in Msgs
    BY <1>14 DEF SvcRun, LogInv, LogOf, Message
  <2>2. Append(done[id], msg[id]) \in Seq(Msgs)
    BY <2>1
  <2> QED BY <1>14, <2>2 DEF SvcRun
<1>15. CASE UNCHANGED vars
  BY <1>15 DEF vars
<1> QED
  BY <1>1, <1>2, <1>3, <1>4, <1>5, <1>6, <1>7, <1>8, <1>9, <1>10, <1>11,
     <1>12, <1>13, <1>14, <1>15 DEF Next, Call, Owner, Svc

----------------------------------------------------------------------------
\* Appending the same element keeps q the rest of p.
LEMMA RestAppend ==
    ASSUME NEW S, NEW p \in Seq(S), NEW q \in Seq(S), NEW k \in Nat, NEW m \in S,
           IsRest(q, p, k)
    PROVE  IsRest(Append(q, m), Append(p, m), k)
<1>1. /\ Len(p) \in Nat /\ Len(q) \in Nat
      /\ Len(Append(p, m)) = Len(p) + 1
      /\ Len(Append(q, m)) = Len(q) + 1
  OBVIOUS
<1>2. /\ \A i \in 1..Len(p) : Append(p, m)[i] = p[i]
      /\ \A i \in 1..Len(q) : Append(q, m)[i] = q[i]
      /\ Append(p, m)[Len(p) + 1] = m
      /\ Append(q, m)[Len(q) + 1] = m
  OBVIOUS
<1>3. ASSUME NEW i \in 1..Len(q) + 1
      PROVE  Append(q, m)[i] = Append(p, m)[k + i]
  <2>1. CASE i \in 1..Len(q)
    <3>1. k + i \in 1..Len(p)
      BY <1>1, <2>1 DEF IsRest
    <3> QED BY <1>2, <2>1, <3>1 DEF IsRest
  <2>2. CASE i = Len(q) + 1
    <3>1. k + i = Len(p) + 1
      BY <1>1, <2>2 DEF IsRest
    <3> QED BY <1>2, <2>2, <3>1
  <2>3. ASSUME NEW n \in Nat, i \in 1..n + 1 PROVE i \in 1..n \/ i = n + 1
    BY <2>3
  <2> QED BY <1>1, <2>1, <2>2, <2>3, Zenon
<1> QED BY <1>1, <1>3 DEF IsRest

\* Dropping the head of q makes its tail the rest behind one more element.
LEMMA RestTail ==
    ASSUME NEW S, NEW p \in Seq(S), NEW q \in Seq(S), NEW k \in Nat,
           q # <<>>, IsRest(q, p, k)
    PROVE  IsRest(Tail(q), p, k + 1) /\ Head(q) = p[k + 1]
<1>1. /\ Len(p) \in Nat /\ Len(q) \in Nat \ {0}
      /\ Len(Tail(q)) = Len(q) - 1
      /\ \A i \in 1..Len(Tail(q)) : Tail(q)[i] = q[i + 1]
  OBVIOUS
<1>2. Head(q) = q[1]
  OBVIOUS
<1>3. ASSUME NEW i \in 1..Len(Tail(q)) PROVE Tail(q)[i] = p[k + 1 + i]
  <2>1. i + 1 \in 1..Len(q) /\ k + (i + 1) = k + 1 + i
    BY <1>1
  <2> QED BY <1>1, <2>1 DEF IsRest
<1>4. Len(p) = k + 1 + Len(Tail(q))
  <2>1. ASSUME NEW a \in Nat, NEW b \in Nat, NEW c \in Nat, a = k + b, c = b - 1
        PROVE  a = k + 1 + c
    BY <2>1
  <2>2. Len(Tail(q)) \in Nat
    BY <1>1
  <2> QED BY <1>1, <2>1, <2>2 DEF IsRest
<1>5. Head(q) = p[k + 1]
  <2>1. 1 \in 1..Len(q)
    BY <1>1
  <2> QED BY <1>2, <2>1 DEF IsRest
<1> QED BY <1>3, <1>4, <1>5 DEF IsRest

\* LogInv depends on the queues, the threads and the history only.
LEMMA SameLog == ASSUME LogInv, UNCHANGED <<queueVars, svc, msg, done>> PROVE LogInv'
<1> SUFFICES ASSUME NEW t \in LogicIds PROVE LogOf(t)'
  BY DEF LogInv
<1>1. LogOf(t)
  BY DEF LogInv
<1> QED BY <1>1, Zenon DEF LogOf, Busy, queueVars

\* A push extends the history of the thread and its queue alike.
LEMMA PushLog ==
    ASSUME TypeOK, LogInv, NEW id \in LogicIds, NEW m \in Message, Push(id, m),
           UNCHANGED <<svc, msg, done>>
    PROVE  LogInv'
<1> SUFFICES ASSUME NEW t \in LogicIds PROVE LogOf(t)'
  BY DEF LogInv
<1> USE DEF TypeOK
<1>1. LogOf(t)
  BY DEF LogInv
<1>2. Busy(t)' = Busy(t) /\ Busy(t) \in {0, 1}
  BY DEF Busy
<1>3. Len(done[t]) \in Nat /\ Len(put[t]) \in Nat /\ Len(m_thread_queue[t]) \in Nat
  OBVIOUS
<1>4. CASE t # id
  BY <1>1, <1>2, <1>4 DEF LogOf, Push
<1>5. CASE t = id
  <2>1. /\ put'[t] = Append(put[t], m)
        /\ m_thread_queue'[t] = Append(m_thread_queue[t], m)
    BY <1>5 DEF Push
  <2>2. /\ Len(put'[t]) = Len(put[t]) + 1
        /\ \A i \in 1..Len(put[t]) : put'[t][i] = put[t][i]
        /\ put'[t][Len(put[t]) + 1] = m
    BY <2>1
  <2>4. svc[t] = "run" => Len(done[t]) + 1 <= Len(put[t])
    <3>1. CASE svc[t] = "run"
      <4>1. Len(put[t]) = Len(done[t]) + 1 + Len(m_thread_queue[t])
        BY <1>1, <3>1 DEF LogOf, Busy, IsRest
      <4> QED BY <1>3, <4>1
    <3> QED BY <3>1
  <2>5. Len(done'[t]) <= Len(put'[t])
    BY <1>1, <1>3, <2>2 DEF LogOf
  <2>6. \A i \in 1..Len(done'[t]) : done'[t][i] = put'[t][i]
    BY <1>1, <1>3, <2>2 DEF LogOf
  <2>7. svc'[t] = "run" => msg'[t] # CLOSE /\ msg'[t] = put'[t][Len(done'[t]) + 1]
    BY <1>1, <1>3, <2>2, <2>4 DEF LogOf
  <2>8. svc[t] # "end" => IsRest(m_thread_queue'[t], put'[t], Len(done[t]) + Busy(t))
    BY <1>1, <1>2, <1>3, <2>1, RestAppend DEF LogOf
  <2> QED BY <1>2, <2>5, <2>6, <2>7, <2>8 DEF LogOf
<1> QED BY <1>4, <1>5

\* So does AddMessage on a started library, refused or not.
LEMMA DeliverLog ==
    ASSUME TypeOK, LogInv, NEW id \in LogicIds, NEW m \in Msgs, Deliver(id, m),
           UNCHANGED <<svc, msg, done>>
    PROVE  LogInv'
<1>1. m \in Message
  BY DEF Message
<1>2. CASE id \in m_mapLogicList
  BY <1>1, <1>2, PushLog DEF Deliver
<1>3. CASE id \notin m_mapLogicList
  BY <1>3, SameLog DEF Deliver
<1> QED BY <1>2, <1>3

\* Every step keeps the history of each thread in line with its queue.
LEMMA StepLogInv == TypeOK /\ LogInv /\ CloseInv /\ [Next]_vars => LogInv'
<1> SUFFICES ASSUME TypeOK, LogInv, CloseInv, [Next]_vars PROVE LogInv'
  OBVIOUS
<1> USE DEF tmsVars, threadVars, ownerVars, callVars
<1>1. ASSUME NEW id \in LogicIds, NEW m \in Msgs, AddMessage(id, m) PROVE LogInv'
  BY <1>1, DeliverLog DEF AddMessage
<1>2. ASSUME NEW id \in LogicIds, NEW m \in Msgs, AddMessageEarly(id, m) PROVE LogInv'
  BY <1>2, SameLog DEF AddMessageEarly
<1>3. ASSUME NEW e \in adding, AddMessageBuffer(e) PROVE LogInv'
  BY <1>3, SameLog DEF AddMessageBuffer
<1>4. ASSUME NEW id \in LogicIds, CreateLogic(id) PROVE LogInv'
  <2> SUFFICES ASSUME NEW t \in LogicIds PROVE LogOf(t)'
    BY DEF LogInv
  <2>1. LogOf(t)
    BY DEF LogInv
  <2>2. t # id => svc'[t] = svc[t]
    BY <1>4 DEF CreateLogic, TypeOK
  <2>3. t = id => svc[t] = "none" /\ svc'[t] = "test"
    BY <1>4 DEF CreateLogic, TypeOK, CloseInv
  <2> QED BY <1>4, <2>1, <2>2, <2>3, Zenon DEF CreateLogic, LogOf, Busy, queueVars
<1>5. CASE Start
  BY <1>5, SameLog DEF Start
<1>6. CASE Replay
  <2>1. CASE replay # <<>>
    <3>1. Head(replay).logic \in LogicIds /\ Head(replay).msg \in Msgs
      BY <2>1, HeadOfReplay
    <3> QED BY <1>6, <2>1, <3>1, DeliverLog DEF Replay
  <2>2. CASE replay = <<>>
    BY <1>6, <2>2, SameLog DEF Replay
  <2> QED BY <2>1, <2>2
<1>7. CASE Close
  BY <1>7, SameLog DEF Close
<1>8. CASE CloseEnd
  BY <1>8, SameLog DEF CloseEnd
<1>9. ASSUME NEW id \in LogicIds, CloseStop(id) PROVE LogInv'
  BY <1>9, SameLog DEF CloseStop
<1>10. ASSUME NEW id \in LogicIds, ClosePush(id) PROVE LogInv'
  <2>1. CLOSE \in Message
    BY DEF Message
  <2> QED BY <1>10, <2>1, PushLog DEF ClosePush
<1>11. ASSUME NEW id \in LogicIds, CloseJoin(id) PROVE LogInv'
  BY <1>11, SameLog DEF CloseJoin
<1>12. ASSUME NEW id \in LogicIds, SvcTest(id) PROVE LogInv'
  <2> SUFFICES ASSUME NEW t \in LogicIds PROVE LogOf(t)'
    BY DEF LogInv
  <2>1. LogOf(t)
    BY DEF LogInv
  <2>2. t # id => svc'[t] = svc[t]
    BY <1>12 DEF SvcTest, TypeOK
  <2>3. t = id => svc[t] = "test" /\ svc'[t] \in {"pop", "end"}
    BY <1>12 DEF SvcTest, TypeOK
  <2> QED BY <1>12, <2>1, <2>2, <2>3, Zenon DEF SvcTest, LogOf, Busy, queueVars
<1>13. ASSUME NEW id \in LogicIds, SvcPop(id) PROVE LogInv'
  <2> SUFFICES ASSUME NEW t \in LogicIds PROVE LogOf(t)'
    BY DEF LogInv
  <2>1. LogOf(t)
    BY DEF LogInv
  <2>2. CASE t # id
    <3>1. svc'[t] = svc[t] /\ m_thread_queue'[t] = m_thread_queue[t] /\ msg'[t] = msg[t]
      BY <1>13, <2>2 DEF SvcPop, TypeOK
    <3> QED BY <1>13, <2>1, <3>1, Zenon DEF SvcPop, LogOf, Busy
  <2>3. CASE t = id
    <3>1. /\ svc[t] = "pop" /\ m_thread_queue[t] # <<>>
          /\ msg'[t] = Head(m_thread_queue[t])
          /\ m_thread_queue'[t] = Tail(m_thread_queue[t])
          /\ svc'[t] = IF msg'[t] = CLOSE THEN "end" ELSE "run"
          /\ put' = put /\ done' = done
      BY <1>13, <2>3 DEF SvcPop, TypeOK
    <3>2. /\ put[t] \in Seq(Message) /\ m_thread_queue[t] \in Seq(Message)
          /\ Len(done[t]) \in Nat
      BY DEF TypeOK
    <3>3. IsRest(m_thread_queue[t], put[t], Len(done[t]))
      BY <2>1, <3>1, <3>2 DEF LogOf, Busy
    <3>4. /\ IsRest(Tail(m_thread_queue[t]), put[t], Len(done[t]) + 1)
          /\ Head(m_thread_queue[t]) = put[t][Len(done[t]) + 1]
      BY <3>1, <3>2, <3>3, RestTail
    <3> QED BY <2>1, <3>1, <3>4 DEF LogOf, Busy
  <2> QED BY <2>2, <2>3
<1>14. ASSUME NEW id \in LogicIds, SvcRun(id) PROVE LogInv'
  <2> SUFFICES ASSUME NEW t \in LogicIds PROVE LogOf(t)'
    BY DEF LogInv
  <2>1. LogOf(t)
    BY DEF LogInv
  <2>2. CASE t # id
    <3>1. svc'[t] = svc[t] /\ done'[t] = done[t]
      BY <1>14, <2>2 DEF SvcRun, TypeOK
    <3> QED BY <1>14, <2>1, <3>1, Zenon DEF SvcRun, LogOf, Busy, queueVars
  <2>3. CASE t = id
    <3>1. /\ svc[t] = "run" /\ svc'[t] = "test"
          /\ done'[t] = Append(done[t], msg[t])
          /\ UNCHANGED <<put, m_thread_queue>>
      BY <1>14, <2>3 DEF SvcRun, TypeOK, queueVars
    <3>2. /\ msg[t] \in Msgs /\ msg[t] = put[t][Len(done[t]) + 1]
          /\ IsRest(m_thread_queue[t], put[t], Len(done[t]) + 1)
      BY <2>1, <3>1 DEF LogOf, Busy, TypeOK, Message
    <3>3. /\ Len(done[t]) \in Nat /\ Len(put[t]) \in Nat /\ Len(m_thread_queue[t]) \in Nat
          /\ Len(done'[t]) = Len(done[t]) + 1
          /\ \A i \in 1..Len(done[t]) : done'[t][i] = done[t][i]
          /\ done'[t][Len(done[t]) + 1] = msg[t]
      BY <3>1, <3>2 DEF TypeOK
    <3>4. Len(done'[t]) <= Len(put'[t])
      <4>1. Len(put[t]) = Len(done[t]) + 1 + Len(m_thread_queue[t])
        BY <3>2 DEF IsRest
      <4>2. Len(put'[t]) = Len(put[t])
        BY <3>1
      <4>3. Len(done[t]) + 1 <= Len(put[t])
        <5>1. \A a, b, c \in Nat : a = b + 1 + c => b + 1 <= a
          OBVIOUS
        <5>2. Len(put[t]) \in Nat /\ Len(done[t]) \in Nat /\ Len(m_thread_queue[t]) \in Nat
          BY <3>3
        <5> QED BY <4>1, <5>1, <5>2, Zenon
      <4> QED BY <3>3, <4>2, <4>3
    <3>5. ASSUME NEW i \in 1..Len(done'[t]) PROVE done'[t][i] = put'[t][i]
      <4>1. CASE i \in 1..Len(done[t])
        BY <2>1, <3>1, <3>3, <4>1 DEF LogOf
      <4>2. CASE i = Len(done[t]) + 1
        BY <3>1, <3>2, <3>3, <4>2
      <4> QED BY <3>3, <4>1, <4>2
    <3>6. IsRest(m_thread_queue'[t], put'[t], Len(done'[t]) + Busy(t)')
      BY <3>1, <3>2, <3>3 DEF Busy
    <3> QED BY <3>1, <3>4, <3>5, <3>6 DEF LogOf
  <2> QED BY <2>2, <2>3
<1>15. CASE UNCHANGED vars
  BY <1>15, SameLog DEF vars
<1> QED
  BY <1>1, <1>2, <1>3, <1>4, <1>5, <1>6, <1>7, <1>8, <1>9, <1>10, <1>11,
     <1>12, <1>13, <1>14, <1>15 DEF Next, Call, Owner, Svc

\* Every step keeps the account of how far Close has come.
LEMMA StepCloseInv == TypeOK /\ CloseInv /\ [Next]_vars => CloseInv'
<1> SUFFICES ASSUME TypeOK, CloseInv, [Next]_vars PROVE CloseInv'
  OBVIOUS
<1> USE DEF tmsVars, threadVars, ownerVars, callVars, CloseInv, TypeOK
<1>1. ASSUME NEW id \in LogicIds, NEW m \in Msgs, AddMessage(id, m) PROVE CloseInv'
  BY <1>1 DEF AddMessage
<1>2. ASSUME NEW id \in LogicIds, NEW m \in Msgs, AddMessageEarly(id, m) PROVE CloseInv'
  BY <1>2 DEF AddMessageEarly
<1>3. ASSUME NEW e \in adding, AddMessageBuffer(e) PROVE CloseInv'
  BY <1>3 DEF AddMessageBuffer
<1>4. ASSUME NEW id \in LogicIds, CreateLogic(id) PROVE CloseInv'
  BY <1>4 DEF CreateLogic
<1>5. CASE Start
  BY <1>5 DEF Start
<1>6. CASE Replay
  BY <1>6, Zenon DEF Replay
<1>7. CASE Close
  BY <1>7 DEF Close
<1>8. CASE CloseEnd
  BY <1>8 DEF CloseEnd
<1>9. ASSUME NEW id \in LogicIds, CloseStop(id) PROVE CloseInv'
  BY <1>9 DEF CloseStop
<1>10. ASSUME NEW id \in LogicIds, ClosePush(id) PROVE CloseInv'
  BY <1>10 DEF ClosePush
<1>11. ASSUME NEW id \in LogicIds, CloseJoin(id) PROVE CloseInv'
  BY <1>11 DEF CloseJoin
<1>12. ASSUME NEW id \in LogicIds, SvcTest(id) PROVE CloseInv'
  BY <1>12 DEF SvcTest
<1>13. ASSUME NEW id \in LogicIds, SvcPop(id) PROVE CloseInv'
  BY <1>13 DEF SvcPop
<1>14. ASSUME NEW id \in LogicIds, SvcRun(id) PROVE CloseInv'
  BY <1>14 DEF SvcRun
<1>15. CASE UNCHANGED vars
  BY <1>15 DEF vars
<1> QED
  BY <1>1, <1>2, <1>3, <1>4, <1>5, <1>6, <1>7, <1>8, <1>9, <1>10, <1>11,
     <1>12, <1>13, <1>14, <1>15, Zenon DEF Next, Call, Owner, Svc

----------------------------------------------------------------------------
\* What a push adds to the history.
LEMMA PushedElements ==
    ASSUME TypeOK, NEW id \in LogicIds, NEW m \in Message, Push(id, m),
           NEW s \in LogicIds, NEW i \in 1..Len(put'[s])
    PROVE  \/ i \in 1..Len(put[s]) /\ put'[s][i] = put[s][i]
           \/ s = id /\ i = Len(put[s]) + 1 /\ put'[s][i] = m
<1>1. CASE s # id
  BY <1>1 DEF Push, TypeOK
<1>2. CASE s = id
  <2>1. put'[s] = Append(put[s], m) /\ put[s] \in Seq(Message)
    BY <1>2 DEF Push, TypeOK
  <2>2. /\ Len(put[s]) \in Nat
        /\ Len(put'[s]) = Len(put[s]) + 1
        /\ \A k \in 1..Len(put[s]) : put'[s][k] = put[s][k]
        /\ put'[s][Len(put[s]) + 1] = m
    BY <2>1
  <2>3. \A n \in Nat : \A k \in 1..n + 1 : k \in 1..n \/ k = n + 1
    OBVIOUS
  <2>4. i \in 1..Len(put[s]) \/ i = Len(put[s]) + 1
    BY <2>2, <2>3
  <2> QED BY <1>2, <2>2, <2>4
<1> QED BY <1>1, <1>2

\* A push makes one message pushed.
LEMMA InPutAfterPush ==
    ASSUME TypeOK, NEW id \in LogicIds, NEW m \in Message, Push(id, m),
           NEW x, InPut(x)'
    PROVE  InPut(x) \/ x = m
<1>1. PICK s \in LogicIds : \E i \in 1..Len(put'[s]) : put'[s][i] = x
  BY DEF InPut
<1>2. PICK i \in 1..Len(put'[s]) : put'[s][i] = x
  BY <1>1
<1>3. \/ i \in 1..Len(put[s]) /\ put'[s][i] = put[s][i]
      \/ put'[s][i] = m
  BY PushedElements
<1> QED BY <1>2, <1>3 DEF InPut

\* A task that is pushed nowhere yet, or CLOSE, can be pushed.
LEMMA PushOnce ==
    ASSUME TypeOK, PutOnce, NEW id \in LogicIds, NEW m \in Message, Push(id, m),
           m = CLOSE \/ ~InPut(m)
    PROVE  PutOnce'
<1> SUFFICES ASSUME NEW s \in LogicIds, NEW t \in LogicIds,
                    NEW i \in 1..Len(put'[s]), NEW j \in 1..Len(put'[t]),
                    put'[s][i] # CLOSE, put'[s][i] = put'[t][j]
             PROVE  s = t /\ i = j
  BY DEF PutOnce
<1>1. \/ i \in 1..Len(put[s]) /\ put'[s][i] = put[s][i]
      \/ s = id /\ i = Len(put[s]) + 1 /\ put'[s][i] = m
  BY PushedElements
<1>2. \/ j \in 1..Len(put[t]) /\ put'[t][j] = put[t][j]
      \/ t = id /\ j = Len(put[t]) + 1 /\ put'[t][j] = m
  BY PushedElements
<1> QED BY <1>1, <1>2 DEF PutOnce, InPut

\* What is pushed was added.
LEMMA PushAdded ==
    ASSUME TypeOK, PutAdded, NEW id \in LogicIds, NEW m \in Message, Push(id, m),
           m = CLOSE \/ m \in added', added \subseteq added'
    PROVE  PutAdded'
<1> SUFFICES ASSUME NEW s \in LogicIds, NEW i \in 1..Len(put'[s]), put'[s][i] # CLOSE
             PROVE  put'[s][i] \in added'
  BY DEF PutAdded
<1>1. \/ i \in 1..Len(put[s]) /\ put'[s][i] = put[s][i]
      \/ put'[s][i] = m
  BY PushedElements
<1> QED BY <1>1 DEF PutAdded

\* AddMessage of a task that is pushed nowhere yet.
LEMMA DeliverOnce ==
    ASSUME TypeOK, PutOnce, PutAdded, NEW id \in LogicIds, NEW m \in Msgs,
           Deliver(id, m), ~InPut(m), m \in added', added \subseteq added'
    PROVE  /\ PutOnce'
           /\ PutAdded'
           /\ \A x : InPut(x)' => InPut(x) \/ x = m
<1>1. m \in Message
  BY DEF Message
<1>2. CASE id \in m_mapLogicList
  <2>1. Push(id, m)
    BY <1>2 DEF Deliver
  <2> QED BY <1>1, <2>1, PushOnce, PushAdded, InPutAfterPush
<1>3. CASE id \notin m_mapLogicList
  <2>1. put' = put
    BY <1>3 DEF Deliver, queueVars
  <2> QED BY <2>1 DEF PutOnce, PutAdded, InPut
<1> QED BY <1>2, <1>3

\* OnceInv depends on what was pushed, added and is waiting only.
LEMMA SameOnce ==
    ASSUME OnceInv, UNCHANGED <<put, added, adding, replay>>,
           owner' = "init" => owner = "init" /\ UNCHANGED <<m_tmsEvents, tms_is_start>>
    PROVE  OnceInv'
<1>1. \A x : InPut(x)' <=> InPut(x)
  BY DEF InPut
<1>2. PutOnce' /\ PutAdded' /\ AddingOnce'
  BY <1>1 DEF OnceInv, PutOnce, PutAdded, AddingOnce
<1>3. Waiting(replay)'
  BY <1>1 DEF OnceInv, Waiting
<1>4. owner' = "init" => Waiting(m_tmsEvents)' /\ ~tms_is_start'
  BY <1>1 DEF OnceInv, Waiting
<1> QED BY <1>2, <1>3, <1>4 DEF OnceInv

\* Every step keeps a task in one place: in an unfinished call, in the events
\* still to be replayed, or pushed on one thread.
LEMMA StepOnceInv == TypeOK /\ OnceInv /\ [Next]_vars => OnceInv'
<1> SUFFICES ASSUME TypeOK, OnceInv, [Next]_vars PROVE OnceInv'
  OBVIOUS
<1> USE DEF tmsVars, queueVars, threadVars, ownerVars, callVars
<1>1. ASSUME NEW id \in LogicIds, NEW m \in Msgs, AddMessage(id, m) PROVE OnceInv'
  <2>1. /\ owner # "init" /\ m \notin added /\ added' = added \cup {m}
        /\ Deliver(id, m) /\ UNCHANGED <<owner, adding, replay>>
    BY <1>1 DEF AddMessage, OnceInv
  <2>2. ~InPut(m)
    BY <2>1, CloseIsNoTask DEF OnceInv, PutAdded, InPut
  <2>3. PutOnce' /\ PutAdded' /\ \A x : InPut(x)' => InPut(x) \/ x = m
    BY <2>1, <2>2, DeliverOnce DEF OnceInv
  <2>4. AddingOnce'
    BY <2>1, <2>3 DEF OnceInv, AddingOnce
  <2>5. Waiting(replay)'
    BY <2>1, <2>3 DEF OnceInv, Waiting
  <2> QED BY <2>1, <2>3, <2>4, <2>5 DEF OnceInv
<1>2. ASSUME NEW id \in LogicIds, NEW m \in Msgs, AddMessageEarly(id, m) PROVE OnceInv'
  <2>1. /\ m \notin added /\ added' = added \cup {m}
        /\ adding' = adding \cup {[logic |-> id, msg |-> m]}
        /\ UNCHANGED <<put, replay, m_tmsEvents, tms_is_start, owner>>
    BY <1>2 DEF AddMessageEarly
  <2>2. \A x : InPut(x)' <=> InPut(x)
    BY <2>1 DEF InPut
  <2>3. ~InPut(m)
    BY <2>1, CloseIsNoTask DEF OnceInv, PutAdded, InPut
  <2>4. PutOnce' /\ PutAdded'
    BY <2>1 DEF OnceInv, PutOnce, PutAdded
  <2>5. AddingOnce'
    BY <2>1, <2>2, <2>3 DEF OnceInv, AddingOnce
  <2>6. Waiting(replay)'
    BY <2>1, <2>2 DEF OnceInv, Waiting
  <2>7. owner' = "init" => Waiting(m_tmsEvents)' /\ ~tms_is_start'
    BY <2>1, <2>2 DEF OnceInv, Waiting
  <2> QED BY <2>4, <2>5, <2>6, <2>7 DEF OnceInv
<1>3. ASSUME NEW e \in adding, AddMessageBuffer(e) PROVE OnceInv'
  <2>1. /\ adding' = adding \ {e} /\ m_tmsEvents' = Append(m_tmsEvents, e)
        /\ UNCHANGED <<put, added, replay, tms_is_start, owner>>
    BY <1>3 DEF AddMessageBuffer
  <2>2. \A x : InPut(x)' <=> InPut(x)
    BY <2>1 DEF InPut
  <2>3. PutOnce' /\ PutAdded' /\ AddingOnce'
    BY <2>1, <2>2 DEF OnceInv, PutOnce, PutAdded, AddingOnce
  <2>4. Waiting(replay)'
    BY <2>1, <2>2 DEF OnceInv, Waiting
  <2>5. ASSUME owner = "init" PROVE Waiting(m_tmsEvents)'
    <3>1. /\ Len(m_tmsEvents) \in Nat
          /\ Len(m_tmsEvents') = Len(m_tmsEvents) + 1
          /\ \A k \in 1..Len(m_tmsEvents) : m_tmsEvents'[k] = m_tmsEvents[k]
          /\ m_tmsEvents'[Len(m_tmsEvents) + 1] = e
      BY <2>1 DEF TypeOK
    <3>2. \A n \in Nat : \A k \in 1..n + 1 : k \in 1..n \/ k = n + 1
      OBVIOUS
    <3>3. \A k \in 1..Len(m_tmsEvents') :
             \/ k \in 1..Len(m_tmsEvents) /\ m_tmsEvents'[k] = m_tmsEvents[k]
             \/ k = Len(m_tmsEvents) + 1 /\ m_tmsEvents'[k] = e
      BY <3>1, <3>2
    <3>4. Waiting(m_tmsEvents) /\ AddingOnce
      BY <2>5 DEF OnceInv
    <3> QED BY <2>1, <2>2, <3>3, <3>4 DEF Waiting, AddingOnce
  <2> QED BY <2>1, <2>3, <2>4, <2>5 DEF OnceInv
<1>4. ASSUME NEW id \in LogicIds, CreateLogic(id) PROVE OnceInv'
  BY <1>4, SameOnce DEF CreateLogic
<1>5. CASE Start
  <2>1. /\ owner = "init" /\ owner' = "replay" /\ replay' = m_tmsEvents
        /\ UNCHANGED <<put, added, adding>>
    BY <1>5 DEF Start
  <2>2. \A x : InPut(x)' <=> InPut(x)
    BY <2>1 DEF InPut
  <2>3. PutOnce' /\ PutAdded' /\ AddingOnce'
    BY <2>1, <2>2 DEF OnceInv, PutOnce, PutAdded, AddingOnce
  <2>4. Waiting(replay)'
    BY <2>1, <2>2 DEF OnceInv, Waiting
  <2> QED BY <2>1, <2>3, <2>4 DEF OnceInv
<1>6. CASE Replay
  <2>1. CASE replay # <<>>
    <3> DEFINE m == Head(replay).msg
    <3>1. /\ Deliver(Head(replay).logic, m) /\ replay' = Tail(replay)
          /\ owner' = "replay" /\ UNCHANGED <<added, adding>>
      BY <1>6, <2>1 DEF Replay
    <3>2. Head(replay).logic \in LogicIds /\ m \in Msgs
      BY <2>1, HeadOfReplay
    <3>3. /\ Len(replay) \in Nat \ {0}
          /\ Len(replay') = Len(replay) - 1
          /\ \A i \in 1..Len(replay') : replay'[i] = replay[i + 1]
      BY <2>1, <3>1 DEF TypeOK
    <3>4. 1 \in 1..Len(replay) /\ Head(replay) = replay[1]
      BY <3>3
    <3>5. m \in added /\ ~InPut(m) /\ \A e \in adding : e.msg # m
      BY <3>4 DEF OnceInv, Waiting
    <3>6. PutOnce' /\ PutAdded' /\ \A x : InPut(x)' => InPut(x) \/ x = m
      BY <3>1, <3>2, <3>5, DeliverOnce DEF OnceInv
    <3>7. AddingOnce'
      BY <3>1, <3>5, <3>6 DEF OnceInv, AddingOnce
    <3>8. Waiting(replay)'
      <4>1. \A i \in 1..Len(replay') : i + 1 \in 1..Len(replay) /\ i + 1 # 1
        BY <3>3
      <4>2. \A i, j \in 1..Len(replay') : i + 1 = j + 1 => i = j
        BY <3>3
      <4>3. Waiting(replay)
        BY DEF OnceInv
      <4>4. \A i \in 1..Len(replay') : replay'[i].msg # m
        BY <3>3, <3>4, <4>1, <4>3 DEF Waiting
      <4>5. \A i \in 1..Len(replay') :
              /\ replay'[i].msg \in added
              /\ ~InPut(replay'[i].msg)
              /\ \A e \in adding : e.msg # replay'[i].msg
        BY <3>3, <4>1, <4>3 DEF Waiting
      <4>6. ASSUME NEW i \in 1..Len(replay'), NEW j \in 1..Len(replay'),
                   replay'[i].msg = replay'[j].msg
            PROVE  i = j
        <5>1. replay[i + 1].msg = replay[j + 1].msg
          BY <3>3, <4>6, Zenon
        <5>2. i + 1 = j + 1
          BY <4>1, <4>3, <5>1, Zenon DEF Waiting
        <5> QED BY <4>2, <5>2, Zenon
      <4> QED BY <3>1, <3>6, <4>4, <4>5, <4>6, Zenon DEF Waiting
    <3> QED BY <3>1, <3>6, <3>7, <3>8 DEF OnceInv
  <2>2. CASE replay = <<>>
    BY <1>6, <2>2, SameOnce DEF Replay
  <2> QED BY <2>1, <2>2
<1>7. CASE Close
  BY <1>7, SameOnce DEF Close
<1>8. CASE CloseEnd
  BY <1>8, SameOnce DEF CloseEnd
<1>9. ASSUME NEW id \in LogicIds, CloseStop(id) PROVE OnceInv'
  BY <1>9, SameOnce DEF CloseStop
<1>10. ASSUME NEW id \in LogicIds, ClosePush(id) PROVE OnceInv'
  <2>1. /\ Push(id, CLOSE) /\ owner' = "join" /\ UNCHANGED <<added, adding, replay>>
    BY <1>10 DEF ClosePush
  <2>2. CLOSE \in Message
    BY DEF Message
  <2>3. PutOnce' /\ PutAdded' /\ \A x : InPut(x)' => InPut(x) \/ x = CLOSE
    BY <2>1, <2>2, PushOnce, PushAdded, InPutAfterPush DEF OnceInv
  <2>4. \A x \in added : x # CLOSE
    BY CloseIsNoTask DEF TypeOK
  <2>5. AddingOnce'
    BY <2>1, <2>3, <2>4 DEF OnceInv, AddingOnce
  <2>6. Waiting(replay)'
    BY <2>1, <2>3, <2>4 DEF OnceInv, Waiting
  <2> QED BY <2>1, <2>3, <2>5, <2>6 DEF OnceInv
<1>11. ASSUME NEW id \in LogicIds, CloseJoin(id) PROVE OnceInv'
  BY <1>11, SameOnce DEF CloseJoin
<1>12. ASSUME NEW id \in LogicIds, SvcTest(id) PROVE OnceInv'
  BY <1>12, SameOnce DEF SvcTest
<1>13. ASSUME NEW id \in LogicIds, SvcPop(id) PROVE OnceInv'
  BY <1>13, SameOnce DEF SvcPop
<1>14. ASSUME NEW id \in LogicIds, SvcRun(id) PROVE OnceInv'
  BY <1>14, SameOnce DEF SvcRun
<1>15. CASE UNCHANGED vars
  BY <1>15, SameOnce DEF vars
<1> QED
  BY <1>1, <1>2, <1>3, <1>4, <1>5, <1>6, <1>7, <1>8, <1>9, <1>10, <1>11,
     <1>12, <1>13, <1>14, <1>15 DEF Next, Call, Owner, Svc

----------------------------------------------------------------------------
\* The inductive invariant holds in every reachable state of tms.hpp.
THEOREM Invariant == Spec => []IInv
<1>1. IInv /\ [Next]_vars => IInv'
  BY StepTypeOK, StepLogInv, StepOnceInv, StepCloseInv DEF IInv
<1> QED BY InitIInv, <1>1, PTL DEF Spec

\* The types: in particular done holds tasks only, never CLOSE.
THEOREM TypeCorrect == Spec => []TypeOK
<1>1. IInv => TypeOK
  BY DEF IInv
<1> QED BY Invariant, <1>1, PTL

\* No task is run twice (AddMessage, Start and svc of tms.hpp).
THEOREM RunOnceHolds == Spec => []RunOnce
<1>1. IInv => RunOnce
  <2> SUFFICES ASSUME IInv, NEW s \in LogicIds, NEW t \in LogicIds,
                      NEW i \in DOMAIN done[s], NEW j \in DOMAIN done[t],
                      done[s][i] = done[t][j]
               PROVE  s = t /\ i = j
    BY DEF RunOnce
  <2>1. ASSUME NEW x \in LogicIds, NEW k \in DOMAIN done[x]
        PROVE  k \in 1..Len(put[x]) /\ done[x][k] = put[x][k] /\ put[x][k] # CLOSE
    <3>1. /\ done[x] \in Seq(Msgs) /\ put[x] \in Seq(Message) /\ LogOf(x)
      BY DEF IInv, TypeOK, LogInv
    <3>2. Len(done[x]) \in Nat /\ Len(put[x]) \in Nat /\ k \in 1..Len(done[x])
      BY <2>1, <3>1
    <3>3. done[x][k] \in Msgs
      BY <3>1, <3>2
    <3>4. k \in 1..Len(put[x])
      BY <3>1, <3>2 DEF LogOf
    <3> QED BY <3>1, <3>2, <3>3, <3>4, CloseIsNoTask DEF LogOf
  <2> QED BY <2>1 DEF IInv, OnceInv, PutOnce
<1> QED BY Invariant, <1>1, PTL

\* When TMS::Close has returned, no logic thread is inside svc.
THEOREM ClosedIsQuietHolds == Spec => []ClosedIsQuiet
<1>1. IInv => ClosedIsQuiet
  BY Zenon DEF IInv, CloseInv, ClosedIsQuiet
<1> QED BY Invariant, <1>1, PTL

\* A push is a Submit of the executor.
LEMMA PushIsSubmit ==
    ASSUME NEW id \in LogicIds, NEW m \in Message, Push(id, m),
           UNCHANGED done, owner # "closed", owner' # "closed"
    PROVE  Executor!Submit(id)
BY Zenon DEF Push, Message, Executor!Submit

\* AddMessage on a started library is a Submit, or refused.
LEMMA DeliverIsSubmit ==
    ASSUME NEW id \in LogicIds, NEW m \in Msgs, Deliver(id, m),
           UNCHANGED <<done, owner>>
    PROVE  [Executor!ExecNext]_(Executor!execVars)
<1>1. CASE id \in m_mapLogicList
  <2>1. Push(id, m)
    BY <1>1 DEF Deliver
  <2>2. Executor!Submit(id)
    BY <2>1, Zenon DEF Push, Executor!Submit
  <2> QED BY <2>2 DEF Executor!ExecNext
<1>2. CASE id \notin m_mapLogicList
  BY <1>2 DEF Deliver, queueVars, Executor!execVars
<1> QED BY <1>1, <1>2

\* tms.hpp implements the serial executor: Spec refines ExecSpec.
THEOREM ImplementsExecutorHolds == Spec => ImplementsExecutor
<1>1. Init => Executor!ExecInit
  BY DEF Init, Executor!ExecInit
<1>2. IInv /\ [Next]_vars => [Executor!ExecNext]_(Executor!execVars)
  <2> SUFFICES ASSUME IInv, [Next]_vars PROVE [Executor!ExecNext]_(Executor!execVars)
    OBVIOUS
  <2> USE DEF tmsVars, queueVars, threadVars, ownerVars, callVars, Executor!execVars
  <2>1. ASSUME NEW id \in LogicIds, NEW m \in Msgs, AddMessage(id, m)
        PROVE  [Executor!ExecNext]_(Executor!execVars)
    <3>1. Deliver(id, m) /\ UNCHANGED <<done, owner>>
      BY <2>1 DEF AddMessage
    <3> QED BY <3>1, DeliverIsSubmit
  <2>2. ASSUME NEW id \in LogicIds, NEW m \in Msgs, AddMessageEarly(id, m)
        PROVE  UNCHANGED Executor!execVars
    BY <2>2 DEF AddMessageEarly
  <2>3. ASSUME NEW e \in adding, AddMessageBuffer(e)
        PROVE  UNCHANGED Executor!execVars
    BY <2>3 DEF AddMessageBuffer
  <2>4. ASSUME NEW id \in LogicIds, CreateLogic(id)
        PROVE  UNCHANGED Executor!execVars
    BY <2>4 DEF CreateLogic
  <2>5. CASE Start
    <3>1. UNCHANGED Executor!execVars
      BY <2>5 DEF Start
    <3> QED BY <3>1
  <2>6. CASE Replay
    <3>1. CASE replay # <<>>
      <4>1. Deliver(Head(replay).logic, Head(replay).msg) /\ UNCHANGED <<done, owner>>
        BY <2>6, <3>1 DEF Replay
      <4> QED BY <3>1, <4>1, HeadOfReplay, DeliverIsSubmit DEF IInv
    <3>2. CASE replay = <<>>
      <4>1. UNCHANGED Executor!execVars
        BY <2>6, <3>2 DEF Replay
      <4> QED BY <4>1
    <3> QED BY <3>1, <3>2
  <2>7. CASE Close
    <3>1. UNCHANGED Executor!execVars
      BY <2>7 DEF Close
    <3> QED BY <3>1
  <2>8. CASE CloseEnd
    <3>1. Executor!Shutdown
      BY <2>8 DEF CloseEnd, Executor!Shutdown
    <3> QED BY <3>1 DEF Executor!ExecNext
  <2>9. ASSUME NEW id \in LogicIds, CloseStop(id)
        PROVE  UNCHANGED Executor!execVars
    BY <2>9 DEF CloseStop
  <2>10. ASSUME NEW id \in LogicIds, ClosePush(id)
         PROVE  [Executor!ExecNext]_(Executor!execVars)
    <3>1. /\ Push(id, CLOSE) /\ CLOSE \in Message /\ UNCHANGED done
          /\ owner # "closed" /\ owner' # "closed"
      BY <2>10 DEF ClosePush, Message
    <3>2. Executor!Submit(id)
      BY <3>1, PushIsSubmit
    <3> QED BY <3>2 DEF Executor!ExecNext
  <2>11. ASSUME NEW id \in LogicIds, CloseJoin(id)
         PROVE  UNCHANGED Executor!execVars
    BY <2>11 DEF CloseJoin
  <2>12. ASSUME NEW id \in LogicIds, SvcTest(id)
         PROVE  UNCHANGED Executor!execVars
    BY <2>12 DEF SvcTest
  <2>13. ASSUME NEW id \in LogicIds, SvcPop(id)
         PROVE  UNCHANGED Executor!execVars
    BY <2>13 DEF SvcPop
  <2>14. ASSUME NEW id \in LogicIds, SvcRun(id)
         PROVE  Executor!RunNext(id)
    <3>1. /\ svc[id] = "run" /\ UNCHANGED <<put, owner>>
          /\ done' = [done EXCEPT ![id] = Append(@, msg[id])]
      BY <2>14 DEF SvcRun
    <3>2. owner # "closed"
      BY <3>1 DEF IInv, CloseInv
    <3>3. LogOf(id) /\ put[id] \in Seq(Message) /\ done[id] \in Seq(Msgs)
          /\ m_thread_queue[id] \in Seq(Message)
      BY DEF IInv, LogInv, TypeOK
    <3>4. /\ msg[id] = put[id][Len(done[id]) + 1] /\ msg[id] # CLOSE
          /\ Len(put[id]) = Len(done[id]) + 1 + Len(m_thread_queue[id])
      BY <3>1, <3>3, Zenon DEF LogOf, Busy, IsRest
    <3>5. /\ Len(done[id]) \in Nat /\ Len(put[id]) \in Nat
          /\ Len(m_thread_queue[id]) \in Nat
      BY <3>3
    <3>6. \A a, b, c \in Nat : a = b + 1 + c => b < a
      OBVIOUS
    <3>7. Len(done[id]) < Len(put[id])
      BY <3>4, <3>5, <3>6, Zenon
    <3> QED BY <3>1, <3>2, <3>4, <3>7, Zenon DEF Executor!RunNext
  <2>15. CASE UNCHANGED vars
    BY <2>15 DEF vars
  <2> QED
    BY <2>1, <2>2, <2>3, <2>4, <2>5, <2>6, <2>7, <2>8, <2>9, <2>10, <2>11,
       <2>12, <2>13, <2>14, <2>15 DEF Next, Call, Owner, Svc, Executor!ExecNext
<1> QED BY Invariant, <1>1, <1>2, PTL DEF Spec, ImplementsExecutor, Executor!ExecSpec
----------------------------------------------------------------------------
HasClose(q) == \E i \in 1..Len(q) : q[i] = CLOSE

\* The thread TMS::Close stops or joins has been told to: m_run is false, and
\* while it is joined it has left svc or CLOSE is still in its queue.
Signalled(id) ==
    /\ owner \in {"push", "join"} /\ IsNext(id) => ~m_run[id]
    /\ owner = "join" /\ IsNext(id) => svc[id] = "end" \/ HasClose(m_thread_queue[id])

SignalInv == \A id \in LogicIds : Signalled(id)

\* The join of CLogicTasK::Close never waits for a thread that sleeps on an
\* empty queue, nor for one that will turn to another task after the one it
\* runs.
JoinIsAnswered ==
    owner = "join" => \A id \in LogicIds : IsNext(id) =>
        /\ svc[id] = "pop" => m_thread_queue[id] # <<>>
        /\ ~m_run[id]

\* A push leaves a CLOSE where it is.
LEMMA CloseAppend ==
    ASSUME NEW q \in Seq(Message), NEW m \in Message, HasClose(q) \/ m = CLOSE
    PROVE  HasClose(Append(q, m))
<1>1. Len(Append(q, m)) = Len(q) + 1 /\ Append(q, m)[Len(q) + 1] = m /\ Len(q) \in Nat
  OBVIOUS
<1>2. \A i \in 1..Len(q) : Append(q, m)[i] = q[i] /\ i \in 1..Len(q) + 1
  BY <1>1
<1>3. CASE m = CLOSE
  <2>1. Len(q) + 1 \in 1..Len(Append(q, m))
    BY <1>1
  <2> QED BY <2>1, <1>1, <1>3 DEF HasClose
<1>4. CASE HasClose(q)
  BY <1>1, <1>2, <1>4 DEF HasClose
<1> QED BY <1>3, <1>4

\* Taking another message from the front leaves it as well.
LEMMA CloseTail ==
    ASSUME NEW q \in Seq(Message), HasClose(q), Head(q) # CLOSE
    PROVE  HasClose(Tail(q))
<1>1. PICK i \in 1..Len(q) : q[i] = CLOSE
  BY DEF HasClose
<1>2. Len(q) \in Nat /\ q # <<>> /\ i # 1
  BY <1>1
<1>3. Len(Tail(q)) = Len(q) - 1 /\ i - 1 \in 1..Len(q) - 1
  BY <1>1, <1>2
<1>4. Tail(q)[i - 1] = q[i]
  BY <1>2, <1>3
<1> QED BY <1>1, <1>3, <1>4 DEF HasClose

\* AddMessage and Start only append to the queues.
LEMMA DeliverKeepsClose ==
    ASSUME TypeOK, NEW id \in LogicIds, NEW m \in Msgs, Deliver(id, m),
           NEW t \in LogicIds, HasClose(m_thread_queue[t])
    PROVE  HasClose(m_thread_queue'[t])
<1>1. m_thread_queue \in [LogicIds -> Seq(Message)] /\ m \in Message
  BY DEF TypeOK, Message
<1>2. CASE id \in m_mapLogicList /\ t = id
  <2>1. m_thread_queue'[t] = Append(m_thread_queue[t], m)
    BY <1>1, <1>2 DEF Deliver, Push
  <2>2. m_thread_queue[t] \in Seq(Message)
    BY <1>1
  <2> QED BY <1>1, <2>1, <2>2, CloseAppend
<1>3. CASE ~(id \in m_mapLogicList /\ t = id)
  <2>1. m_thread_queue'[t] = m_thread_queue[t]
    BY <1>1, <1>3 DEF Deliver, Push, queueVars
  <2> QED BY <2>1
<1> QED BY <1>2, <1>3

\* The map has one next key.
LEMMA NextIsOne ==
    ASSUME TypeOK, NEW s \in LogicIds, NEW t \in LogicIds, IsNext(s), IsNext(t)
    PROVE  s = t
<1>1. s \in Nat /\ t \in Nat /\ s <= t /\ t <= s
  BY LogicIdsAreNumbers DEF IsNext
<1> QED BY <1>1

\* Every step keeps the signal.
LEMMA StepSignalInv == TypeOK /\ SignalInv /\ [Next]_vars => SignalInv'
<1> SUFFICES ASSUME TypeOK, SignalInv, [Next]_vars, NEW t \in LogicIds
             PROVE  Signalled(t)'
  BY DEF SignalInv
<1>0. Signalled(t)
  BY DEF SignalInv
<1> USE DEF Signalled, IsNext
<1>1. ASSUME NEW id \in LogicIds, NEW m \in Msgs, AddMessage(id, m) PROVE Signalled(t)'
  <2>1. Deliver(id, m) /\ UNCHANGED <<owner, toClose, m_run, svc>>
    BY <1>1 DEF AddMessage, threadVars, ownerVars
  <2>2. HasClose(m_thread_queue[t]) => HasClose(m_thread_queue'[t])
    BY <2>1, DeliverKeepsClose
  <2> QED BY <1>0, <2>1, <2>2 DEF HasClose
<1>2. ASSUME NEW id \in LogicIds, NEW m \in Msgs, AddMessageEarly(id, m) PROVE Signalled(t)'
  BY <1>0, <1>2 DEF AddMessageEarly, threadVars, ownerVars, queueVars, HasClose
<1>3. ASSUME NEW e \in adding, AddMessageBuffer(e) PROVE Signalled(t)'
  BY <1>0, <1>3 DEF AddMessageBuffer, threadVars, ownerVars, queueVars, HasClose
<1>4. ASSUME NEW id \in LogicIds, CreateLogic(id) PROVE Signalled(t)'
  BY <1>4 DEF CreateLogic, ownerVars
<1>5. CASE Start
  BY <1>5 DEF Start
<1>6. CASE Replay
  BY <1>6 DEF Replay
<1>7. CASE Close
  BY <1>7 DEF Close
<1>8. CASE CloseEnd
  BY <1>8 DEF CloseEnd
<1>9. ASSUME NEW id \in LogicIds, CloseStop(id) PROVE Signalled(t)'
  <2>1. IsNext(t) => t = id
    BY <1>9, NextIsOne DEF CloseStop
  <2>2. m_run'[id] = FALSE /\ owner' = "push" /\ toClose' = toClose
    BY <1>9 DEF CloseStop, TypeOK
  <2> QED BY <2>1, <2>2
<1>10. ASSUME NEW id \in LogicIds, ClosePush(id) PROVE Signalled(t)'
  <2>1. IsNext(t) => t = id
    BY <1>10, NextIsOne DEF ClosePush
  <2>2. owner = "push" /\ m_run' = m_run /\ toClose' = toClose
    BY <1>10 DEF ClosePush, threadVars
  <2>3. m_thread_queue[id] \in Seq(Message) /\ CLOSE \in Message
    BY DEF TypeOK, Message
  <2>4. m_thread_queue'[id] = Append(m_thread_queue[id], CLOSE)
    BY <1>10 DEF ClosePush, Push, TypeOK
  <2>5. HasClose(m_thread_queue'[id])
    BY <2>3, <2>4, CloseAppend
  <2> QED BY <1>0, <2>1, <2>2, <2>5 DEF HasClose
<1>11. ASSUME NEW id \in LogicIds, CloseJoin(id) PROVE Signalled(t)'
  BY <1>11 DEF CloseJoin
<1>12. ASSUME NEW id \in LogicIds, SvcTest(id) PROVE Signalled(t)'
  BY <1>0, <1>12 DEF SvcTest, ownerVars, queueVars, HasClose, TypeOK
<1>13. ASSUME NEW id \in LogicIds, SvcPop(id) PROVE Signalled(t)'
  <2>1. UNCHANGED <<owner, toClose, m_run>> /\ svc[id] = "pop"
    BY <1>13 DEF SvcPop, ownerVars
  <2>2. CASE t # id
    <3>1. svc'[t] = svc[t] /\ m_thread_queue'[t] = m_thread_queue[t]
      BY <1>13, <2>2 DEF SvcPop, TypeOK
    <3> QED BY <1>0, <2>1, <3>1 DEF HasClose
  <2>3. CASE t = id /\ Head(m_thread_queue[id]) = CLOSE
    <3>1. svc'[t] = "end"
      BY <1>13, <2>3 DEF SvcPop, TypeOK
    <3> QED BY <1>0, <2>1, <3>1
  <2>4. CASE t = id /\ Head(m_thread_queue[id]) # CLOSE
    <3>1. m_thread_queue'[t] = Tail(m_thread_queue[t]) /\ m_thread_queue[t] \in Seq(Message)
      BY <1>13, <2>4 DEF SvcPop, TypeOK
    <3>2. HasClose(m_thread_queue[t]) => HasClose(m_thread_queue'[t])
      BY <2>4, <3>1, CloseTail
    <3> QED BY <1>0, <2>1, <2>4, <3>2 DEF HasClose
  <2> QED BY <2>2, <2>3, <2>4
<1>14. ASSUME NEW id \in LogicIds, SvcRun(id) PROVE Signalled(t)'
  BY <1>0, <1>14 DEF SvcRun, ownerVars, queueVars, HasClose, TypeOK
<1>15. CASE UNCHANGED vars
  BY <1>0, <1>15 DEF vars, threadVars, ownerVars, queueVars, HasClose
<1> QED
  BY <1>1, <1>2, <1>3, <1>4, <1>5, <1>6, <1>7, <1>8, <1>9, <1>10, <1>11,
     <1>12, <1>13, <1>14, <1>15, Zenon DEF Next, Call, Owner, Svc

\* While TMS::Close joins a thread (CLogicTasK::Close of tms.hpp), m_run is
\* false and the thread, if it is about to pop, finds a message: no wakeup is
\* lost, whatever was added before and meanwhile.
THEOREM JoinIsAnsweredHolds == Spec => []JoinIsAnswered
<1>1. Init => SignalInv
  <2>1. Init => owner = "init"
    BY DEF Init
  <2>2. owner = "init" => SignalInv
    BY DEF SignalInv, Signalled
  <2> QED BY <2>1, <2>2
<1>2. TypeOK /\ SignalInv => JoinIsAnswered
  <2> SUFFICES ASSUME TypeOK, SignalInv, owner = "join", NEW id \in LogicIds, IsNext(id)
               PROVE  (svc[id] = "pop" => m_thread_queue[id] # <<>>) /\ ~m_run[id]
    BY DEF JoinIsAnswered
  <2>1. Signalled(id)
    BY DEF SignalInv
  <2>2. HasClose(m_thread_queue[id]) => m_thread_queue[id] # <<>>
    BY DEF HasClose
  <2> QED BY <2>1, <2>2 DEF Signalled
<1> QED BY TypeCorrect, StepSignalInv, <1>1, <1>2, PTL DEF Spec

=============================================================================

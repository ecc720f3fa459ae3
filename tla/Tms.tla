-------------------------------- MODULE Tms --------------------------------
(***************************************************************************)
(* The worker-thread library of PSS_ASIO: Common/tms.hpp on top of the     *)
(* blocking queue of Common/ThreadQueue.h.                                 *)
(*                                                                         *)
(* One owner thread creates the logic threads, starts the library, replays *)
(* what was added before the start and finally closes it.  Other threads   *)
(* (IO threads, the framework timer, the workers themselves) add messages  *)
(* while that goes on.  A logic thread runs svc: test m_run, pop a         *)
(* message, run it, test again.                                            *)
(*                                                                         *)
(* A message stands for the task_function it carries and is added by one   *)
(* call, so Msgs bounds the number of AddMessage calls.  added, put and    *)
(* done are history: the messages some call was given, what was pushed on  *)
(* a thread's queue and what the thread finished running.                  *)
(***************************************************************************)
EXTENDS Naturals, Sequences

CONSTANTS LogicIds,   \* u4LogicID values
          WorkIds,    \* the configured work threads, 0 .. thread_count - 1
          Msgs,       \* the tasks that can be added
          CLOSE       \* LOGIC_TYPE_CLOSE, the message that ends svc

ASSUME LogicIdsAreNumbers == LogicIds \subseteq Nat /\ WorkIds \subseteq LogicIds
ASSUME CloseIsNoTask == CLOSE \notin Msgs

VARIABLES tms_is_start,     \* TMS::tms_is_start_
          m_mapLogicList,   \* the keys of TMS::m_mapLogicList
          m_tmsEvents,      \* TMS::m_tmsEvents, added before Start
          m_thread_queue,   \* CLogicTasK::m_thread_queue of each thread
          m_run,            \* CLogicTasK::m_run
          svc,              \* where each logic thread stands in svc()
          msg,              \* the message svc() popped last
          adding,           \* AddMessage calls that read tms_is_start_ = false
          owner,            \* where the owner thread stands
          replay,           \* the events the loop of Start has left
          toClose,          \* the threads the loop of Close has left
          added, put, done  \* history

tmsVars == <<tms_is_start, m_mapLogicList, m_tmsEvents>>
queueVars == <<m_thread_queue, put>>
threadVars == <<m_run, svc, msg>>
ownerVars == <<owner, replay, toClose>>
callVars == <<adding, added>>
vars == <<tmsVars, queueVars, threadVars, ownerVars, callVars, done>>

Message == Msgs \cup {CLOSE}
Event == [logic : LogicIds, msg : Msgs]

Init ==
    /\ tms_is_start = FALSE
    /\ m_mapLogicList = {}
    /\ m_tmsEvents = <<>>
    /\ m_thread_queue = [id \in LogicIds |-> <<>>]
    /\ m_run = [id \in LogicIds |-> FALSE]
    /\ svc = [id \in LogicIds |-> "none"]
    /\ msg = [id \in LogicIds |-> CLOSE]
    /\ adding = {}
    /\ owner = "init"
    /\ replay = <<>>
    /\ toClose = {}
    /\ added = {}
    /\ put = [id \in LogicIds |-> <<>>]
    /\ done = [id \in LogicIds |-> <<>>]

----------------------------------------------------------------------------
\* Variant for the mutation tests: a stack for a queue.
PushInFront(id, m) ==
    /\ m_thread_queue' = [m_thread_queue EXCEPT ![id] = <<m>> \o @]
    /\ put' = [put EXCEPT ![id] = Append(@, m)]

\* CMessageQueue::Push of m on the queue of thread id.
Push(id, m) ==
    /\ m_thread_queue' = [m_thread_queue EXCEPT ![id] = Append(@, m)]
    /\ put' = [put EXCEPT ![id] = Append(@, m)]

\* AddMessage once tms_is_start_ is true: a message for a logic thread that
\* does not exist is refused.
Deliver(id, m) ==
    IF id \in m_mapLogicList THEN Push(id, m) ELSE UNCHANGED queueVars

\* AddMessage on a started library.
AddMessage(id, m) ==
    /\ tms_is_start
    /\ m \notin added
    /\ added' = added \cup {m}
    /\ Deliver(id, m)
    /\ UNCHANGED <<tmsVars, threadVars, ownerVars, adding, done>>

\* AddMessage before the start, as far as reading tms_is_start_ ...
AddMessageEarly(id, m) ==
    /\ ~tms_is_start
    /\ m \notin added
    /\ added' = added \cup {m}
    /\ adding' = adding \cup {[logic |-> id, msg |-> m]}
    /\ UNCHANGED <<tmsVars, queueVars, threadVars, ownerVars, done>>

\* Variant: the early return behind the emplace_back is missing.
AddMessageBufferGoesOn(e) ==
    /\ e \in adding
    /\ adding' = adding \ {e}
    /\ m_tmsEvents' = Append(m_tmsEvents, e)
    /\ Deliver(e.logic, e.msg)
    /\ UNCHANGED <<tms_is_start, m_mapLogicList, threadVars, ownerVars, added, done>>

\* ... and from there to the emplace_back, for which nothing is locked.
AddMessageBuffer(e) ==
    /\ e \in adding
    /\ adding' = adding \ {e}
    /\ m_tmsEvents' = Append(m_tmsEvents, e)
    /\ UNCHANGED <<tms_is_start, m_mapLogicList, queueVars, threadVars,
                   ownerVars, added, done>>

----------------------------------------------------------------------------
\* CreateLogic, from init_work_thread_logic and, for a plugin's own thread,
\* from create_frame_work_thread, then or later.  A second call for the same
\* id changes nothing.
CreateLogic(id) ==
    /\ owner \in {"init", "up"}
    /\ id \notin m_mapLogicList
    /\ m_run' = [m_run EXCEPT ![id] = TRUE]
    /\ svc' = [svc EXCEPT ![id] = "test"]
    /\ m_mapLogicList' = m_mapLogicList \cup {id}
    /\ UNCHANGED <<tms_is_start, m_tmsEvents, queueVars, msg, ownerVars,
                   callVars, done>>

\* Start as far as its loop, whose range is the vector at that moment.
\* init_work_thread_logic has created the work threads before.
Start ==
    /\ owner = "init"
    /\ WorkIds \subseteq m_mapLogicList
    /\ tms_is_start' = TRUE
    /\ replay' = m_tmsEvents
    /\ owner' = "replay"
    /\ UNCHANGED <<m_mapLogicList, m_tmsEvents, queueVars, threadVars,
                   toClose, callVars, done>>

\* One round of the loop of Start, or its end.
Replay ==
    /\ owner = "replay"
    /\ IF replay # <<>>
       THEN /\ Deliver(Head(replay).logic, Head(replay).msg)
            /\ replay' = Tail(replay)
            /\ owner' = owner
       ELSE /\ owner' = "up"
            /\ UNCHANGED <<replay, queueVars>>
    /\ UNCHANGED <<tmsVars, threadVars, toClose, callVars, done>>

\* TMS::Close enters its loop over m_mapLogicList.
Close ==
    /\ owner = "up"
    /\ owner' = "stop"
    /\ toClose' = m_mapLogicList
    /\ UNCHANGED <<tmsVars, queueVars, threadVars, replay, callVars, done>>

\* The map is walked in key order.
IsNext(id) == id \in toClose /\ \A other \in toClose : id <= other

\* CLogicTasK::Close: m_run = false, then the CLOSE message, then join.
CloseStop(id) ==
    /\ owner = "stop"
    /\ IsNext(id)
    /\ m_run' = [m_run EXCEPT ![id] = FALSE]
    /\ owner' = "push"
    /\ UNCHANGED <<tmsVars, queueVars, svc, msg, replay, toClose, callVars,
                   done>>

\* Variant: no message wakes the thread.
ClosePushNothing(id) ==
    /\ owner = "push"
    /\ IsNext(id)
    /\ owner' = "join"
    /\ UNCHANGED <<tmsVars, queueVars, threadVars, replay, toClose, callVars, done>>

ClosePush(id) ==
    /\ owner = "push"
    /\ IsNext(id)
    /\ Push(id, CLOSE)
    /\ owner' = "join"
    /\ UNCHANGED <<tmsVars, threadVars, replay, toClose, callVars, done>>

\* Variant: the thread is detached.
CloseDetach(id) ==
    /\ owner = "join"
    /\ IsNext(id)
    /\ toClose' = toClose \ {id}
    /\ owner' = "stop"
    /\ UNCHANGED <<tmsVars, queueVars, threadVars, replay, callVars, done>>

CloseJoin(id) ==
    /\ owner = "join"
    /\ IsNext(id)
    /\ svc[id] = "end"
    /\ toClose' = toClose \ {id}
    /\ owner' = "stop"
    /\ UNCHANGED <<tmsVars, queueVars, threadVars, replay, callVars, done>>

\* The end of TMS::Close: the timer thread is joined, tms_is_start_ = false.
CloseEnd ==
    /\ owner = "stop"
    /\ toClose = {}
    /\ tms_is_start' = FALSE
    /\ owner' = "closed"
    /\ UNCHANGED <<m_mapLogicList, m_tmsEvents, queueVars, threadVars, replay,
                   toClose, callVars, done>>

----------------------------------------------------------------------------
\* svc: while (m_run)
SvcTest(id) ==
    /\ svc[id] = "test"
    /\ svc' = [svc EXCEPT ![id] = IF m_run[id] THEN "pop" ELSE "end"]
    /\ UNCHANGED <<tmsVars, queueVars, m_run, msg, ownerVars, callVars, done>>

\* svc: Pop blocks on an empty queue; CLOSE leaves the loop.
SvcPop(id) ==
    /\ svc[id] = "pop"
    /\ m_thread_queue[id] # <<>>
    /\ msg' = [msg EXCEPT ![id] = Head(m_thread_queue[id])]
    /\ m_thread_queue' = [m_thread_queue EXCEPT ![id] = Tail(@)]
    /\ svc' = [svc EXCEPT ![id] =
                  IF Head(m_thread_queue[id]) = CLOSE THEN "end" ELSE "run"]
    /\ UNCHANGED <<tmsVars, put, m_run, ownerVars, callVars, done>>

\* Variant: svc runs one task and returns.
SvcRunOne(id) ==
    /\ svc[id] = "run"
    /\ done' = [done EXCEPT ![id] = Append(@, msg[id])]
    /\ svc' = [svc EXCEPT ![id] = "end"]
    /\ UNCHANGED <<tmsVars, queueVars, m_run, msg, ownerVars, callVars>>

\* svc: m_func returns.
SvcRun(id) ==
    /\ svc[id] = "run"
    /\ done' = [done EXCEPT ![id] = Append(@, msg[id])]
    /\ svc' = [svc EXCEPT ![id] = "test"]
    /\ UNCHANGED <<tmsVars, queueVars, m_run, msg, ownerVars, callVars>>

Call == \E id \in LogicIds, m \in Msgs : AddMessage(id, m) \/ AddMessageEarly(id, m)

Owner ==
    \/ Start
    \/ Replay
    \/ Close
    \/ CloseEnd
    \/ \E id \in LogicIds : CloseStop(id) \/ ClosePush(id) \/ CloseJoin(id)

Svc(id) == SvcTest(id) \/ SvcPop(id) \/ SvcRun(id)

Next ==
    \/ Call
    \/ \E e \in adding : AddMessageBuffer(e)
    \/ \E id \in LogicIds : CreateLogic(id)
    \/ Owner
    \/ \E id \in LogicIds : Svc(id)

\* The operating system schedules every logic thread, a task returns, and
\* the owner thread goes on inside Start and Close; nobody has to call
\* AddMessage, CreateLogic, Start or Close.
Fairness ==
    /\ \A id \in LogicIds : WF_vars(Svc(id))
    /\ WF_vars(Replay \/ CloseEnd
               \/ \E id \in LogicIds : CloseStop(id) \/ ClosePush(id) \/ CloseJoin(id))

Spec == Init /\ [][Next]_vars
FairSpec == Spec /\ Fairness
----------------------------------------------------------------------------
\* Type correctness of the library's state.
TypeOK ==
    /\ tms_is_start \in BOOLEAN
    /\ m_mapLogicList \subseteq LogicIds
    /\ m_tmsEvents \in Seq(Event)
    /\ m_thread_queue \in [LogicIds -> Seq(Message)]
    /\ m_run \in [LogicIds -> BOOLEAN]
    /\ svc \in [LogicIds -> {"none", "test", "pop", "run", "end"}]
    /\ msg \in [LogicIds -> Message]
    /\ adding \subseteq Event
    /\ owner \in {"init", "replay", "up", "stop", "push", "join", "closed"}
    /\ replay \in Seq(Event)
    /\ toClose \subseteq LogicIds
    /\ added \subseteq Msgs
    /\ put \in [LogicIds -> Seq(Message)]
    /\ done \in [LogicIds -> Seq(Msgs)]

\* No task runs twice, on one thread or on two: the replay of m_tmsEvents by
\* Start (tms.hpp:197), which leaves the vector as it is, and the direct path
\* of AddMessage never both push the same task.
RunOnce ==
    \A s, t \in LogicIds : \A i \in DOMAIN done[s], j \in DOMAIN done[t] :
        done[s][i] = done[t][j] => s = t /\ i = j

\* When TMS::Close (tms.hpp:320) has returned, every logic thread has left
\* svc: CWorkThreadLogic::close goes on to close the modules and unload the
\* plugins whose code the tasks call.
ClosedIsQuiet ==
    owner = "closed" => \A id \in LogicIds : svc[id] \in {"none", "end"}

\* The logic threads implement the executor the callers rely on.
Executor == INSTANCE SerialExecutor
    WITH Threads <- LogicIds, Tasks <- Msgs, Stop <- CLOSE,
         pushed <- put, ran <- done, closed <- (owner = "closed")

\* Every step of tms.hpp is a step of the serial executor, or none: no task
\* is skipped or reordered, and nothing runs once Close has returned.
ImplementsExecutor == Executor!ExecSpec

\* TMS::Close (tms.hpp:320) returns: m_run = false and the CLOSE message
\* together get every thread out of svc, wherever it stands and however many
\* messages are added meanwhile.
CloseReturns == owner = "stop" ~> owner = "closed"

\* A message pushed on a logic thread is run, unless Close begins first.
PushedIsRun ==
    \A id \in LogicIds, m \in Msgs :
        (\E i \in DOMAIN put[id] : put[id][i] = m)
            ~> \/ \E i \in DOMAIN done[id] : done[id][i] = m
               \/ owner \in {"stop", "push", "join", "closed"}

=============================================================================

------------------------------ MODULE TimerMgr ------------------------------
(***************************************************************************)
(* The timer of PSS_ASIO: brynet::TimerMgr of Common/TimerManager.hpp and  *)
(* the thread that PSS_Timer_Manager (Common/CoreTimer.hpp) runs it on.    *)
(*                                                                         *)
(* schedule() runs timer_run() round after round on the timer thread, with *)
(* mtx held except inside cv.wait_for.  Other threads add timers: addTimer *)
(* takes mtx_queue for the push only, and then sets timer_wakeup_state and *)
(* notifies with no lock at all, so its steps are actions of their own.    *)
(*                                                                         *)
(* Time is relative: rel[t] is mStartTime + mLastTime - now, the order of  *)
(* the priority queue and, but for mDelayTime, what getLeftTime returns.   *)
(* It does not fall below -Late; Late bounds by how much two overdue       *)
(* timers can be told apart, and nothing bounds how long the system runs.  *)
(***************************************************************************)
EXTENDS Integers, Sequences

CONSTANTS Timers,        \* the timers that can be added, by one call each
          Kinds,         \* type, timeout or period, and first delay of a timer
          DefaultWait,   \* timer_default_wait
          Late,          \* how far behind its time a timer is followed
          Spurious       \* whether a wait may end for no reason

ASSUME KindsOK ==
    /\ Kinds \subseteq [type : {"once", "loop"}, last : Nat, delay : Nat]
    /\ \A k \in Kinds : k.type = "once" => k.delay = 0
    /\ \A k \in Kinds : k.type = "loop" => k.last > 0
ASSUME TimersOK == Timers # {}
ASSUME Times == DefaultWait \in Nat \ {0} /\ Late \in Nat /\ Spurious \in BOOLEAN

VARIABLES mTimers,              \* the priority queue, next timer first
          kind,                 \* Timer: mTimerType, mLastTime, the delay given
          rel, mDelayTime,      \* Timer: time left until it is due; the delay
          mCallback,            \* Timer::mCallback is not null
          call,                 \* where the addTimer call of each timer is
          timer_wakeup_state,
          timer_run,            \* TimerMgr::timer_run_
          thread,               \* where the timer thread is
          tmp,                  \* the local of timer_run()
          until,                \* time left of the wait the thread is in
          closed,               \* Close() was called
          cancelled,            \* history: timers cancelled in time
          ran,                  \* history: how often a once-timer ran
          window,               \* history: pushed since top(), unseen by this round
          lost                  \* history: popped in place of another timer

timerVars == <<kind, rel, mDelayTime, mCallback>>
history == <<cancelled, ran, window, lost>>
vars == <<mTimers, timerVars, call, timer_wakeup_state, timer_run, thread,
          tmp, until, closed, history>>

Init ==
    /\ mTimers = <<>>
    /\ kind \in [Timers -> Kinds]
    /\ rel = [t \in Timers |-> kind[t].last]
    /\ mDelayTime = [t \in Timers |-> kind[t].delay]
    /\ mCallback = [t \in Timers |-> TRUE]
    /\ call = [t \in Timers |-> "none"]
    /\ timer_wakeup_state = "EXECUTE"
    /\ timer_run = FALSE
    /\ thread = "start"
    /\ tmp = CHOOSE t \in Timers : TRUE
    /\ until = 0
    /\ closed = FALSE
    /\ cancelled = {}
    /\ ran = [t \in Timers |-> 0]
    /\ window = {}
    /\ lost = {}

----------------------------------------------------------------------------
\* std::priority_queue::push with CompareTimer: before the timers that are
\* due later, behind those due earlier, in any order with those due at the
\* same time except that an equal timer does not displace the top.
Pushed(q, q2, r, t) ==
    \E i \in 1 .. Len(q) + 1 :
        /\ \A j \in 1 .. i - 1 : r[q[j]] <= r[t]
        /\ i <= Len(q) => r[q[i]] >= r[t] /\ (i = 1 => r[q[i]] > r[t])
        /\ q2 = SubSeq(q, 1, i - 1) \o <<t>> \o SubSeq(q, i, Len(q))

\* The timer thread holds mtx_queue from the pop to the end of the callback.
QueueIsFree == thread # "run"

\* addTimer and addTimer_loop: the Timer is made, with the time of now ...
AddMake(t) ==
    /\ call[t] = "none"
    /\ call' = [call EXCEPT ![t] = "made"]
    /\ UNCHANGED <<mTimers, timerVars, timer_wakeup_state, timer_run, thread,
                   tmp, until, closed, history>>

\* ... pushed under mtx_queue ...
AddPush(t) ==
    /\ call[t] = "made"
    /\ QueueIsFree
    /\ call' = [call EXCEPT ![t] = "pushed"]
    /\ Pushed(mTimers, mTimers', rel, t)
    /\ window' = IF thread \in {"left", "pop"} THEN window \cup {t} ELSE window
    /\ UNCHANGED <<timerVars, timer_wakeup_state, timer_run, thread, tmp,
                   until, closed, cancelled, ran, lost>>

\* ... the wake-up state is set ...
AddFlag(t) ==
    /\ call[t] = "pushed"
    /\ call' = [call EXCEPT ![t] = "flagged"]
    /\ timer_wakeup_state' = "ADD"
    /\ UNCHANGED <<mTimers, timerVars, timer_run, thread, tmp, until, closed,
                   history>>

\* cv.notify_one: ends the wait of the timer thread, if it is in one.
Notified ==
    CASE thread = "sleep" -> thread' = "look"
      [] thread = "wait" -> thread' = "woken"
      [] OTHER -> thread' = thread

\* ... and the thread notified.
AddNotify(t) ==
    /\ call[t] = "flagged"
    /\ call' = [call EXCEPT ![t] = "done"]
    /\ Notified
    /\ UNCHANGED <<mTimers, timerVars, timer_wakeup_state, timer_run, tmp,
                   until, closed, history>>

\* Timer::cancel, on a timer of addTimer: delete_frame_message_timer is its
\* only caller.  call_once has no effect after the callback was taken.
Cancel(t) ==
    /\ call[t] = "done"
    /\ kind[t].type = "once"
    /\ mCallback[t]
    /\ mCallback' = [mCallback EXCEPT ![t] = FALSE]
    /\ cancelled' = cancelled \cup {t}
    /\ UNCHANGED <<mTimers, kind, rel, mDelayTime, call, timer_wakeup_state,
                   timer_run, thread, tmp, until, closed, ran, window, lost>>

\* The timer thread has given mtx back.
MtxIsFree == thread \in {"start", "test", "sleep", "wait", "end"}

\* TimerMgr::Close.
Close ==
    /\ ~closed
    /\ MtxIsFree
    /\ closed' = TRUE
    /\ timer_run' = FALSE
    /\ timer_wakeup_state' = "ADD"
    /\ Notified
    /\ UNCHANGED <<mTimers, timerVars, call, tmp, until, history>>
----------------------------------------------------------------------------
\* schedule: timer_run_ = true, on the timer thread.
Schedule ==
    /\ thread = "start"
    /\ timer_run' = TRUE
    /\ thread' = "test"
    /\ UNCHANGED <<mTimers, timerVars, call, timer_wakeup_state, tmp, until,
                   closed, history>>

\* Variant: every round sets timer_run_.
TestSets ==
    /\ thread = "test"
    /\ timer_run' = TRUE
    /\ thread' = IF mTimers = <<>> THEN "doze" ELSE "look"
    /\ UNCHANGED <<mTimers, timerVars, call, timer_wakeup_state, tmp, until,
                   closed, history>>

\* schedule: while (timer_run_); timer_run takes mtx and looks for timers.
Test ==
    /\ thread = "test"
    /\ thread' = IF ~timer_run THEN "end"
                 ELSE IF mTimers = <<>> THEN "doze" ELSE "look"
    /\ UNCHANGED <<mTimers, timerVars, call, timer_wakeup_state, timer_run,
                   tmp, until, closed, history>>

\* timer_run: cv.wait_for(lck, timer_default_wait) begins.  A notification
\* between the look at the queue and this step is lost.
Sleep ==
    /\ thread = "doze"
    /\ thread' = "sleep"
    /\ until' = DefaultWait
    /\ UNCHANGED <<mTimers, timerVars, call, timer_wakeup_state, timer_run,
                   tmp, closed, history>>

\* A wait ends: that for a timer to be added, or that for tmp to be due.
Wake ==
    /\ thread' = IF thread = "sleep" THEN "look" ELSE "woken"
    /\ UNCHANGED <<mTimers, timerVars, call, timer_wakeup_state, timer_run,
                   tmp, until, closed, history>>

\* Variant: with no timer, only a notification ends the wait.
TimeOutOfWait == thread = "wait" /\ until = 0 /\ Wake

\* A wait_for whose time is over.
TimeOut == thread \in {"sleep", "wait"} /\ until = 0 /\ Wake

\* The wait_for of the standard may end for no reason.
WakeSpuriously == Spurious /\ thread \in {"sleep", "wait"} /\ until > 0 /\ Wake

\* Variant: the top is remembered from round to round.
LookAgain ==
    /\ thread = "look"
    /\ IF timer_run /\ mTimers # <<>>
       THEN /\ thread' = "left"
            /\ tmp' = IF \E i \in DOMAIN mTimers : mTimers[i] = tmp
                      THEN tmp ELSE Head(mTimers)
       ELSE thread' = (IF timer_run THEN "test" ELSE "end") /\ tmp' = tmp
    /\ until' = 0
    /\ window' = {}
    /\ UNCHANGED <<mTimers, timerVars, call, timer_wakeup_state, timer_run,
                   closed, cancelled, ran, lost>>

\* timer_run: stop, go round again, or take the top.
Look ==
    /\ thread = "look"
    /\ IF timer_run /\ mTimers # <<>>
       THEN thread' = "left" /\ tmp' = Head(mTimers)
       ELSE thread' = (IF timer_run THEN "test" ELSE "end") /\ tmp' = tmp
    /\ until' = 0
    /\ window' = {}
    /\ UNCHANGED <<mTimers, timerVars, call, timer_wakeup_state, timer_run,
                   closed, cancelled, ran, lost>>

\* getLeftTime, which uses mDelayTime up, and the wait for that long.
Left ==
    /\ thread = "left"
    /\ mDelayTime' = [mDelayTime EXCEPT ![tmp] = 0]
    /\ LET timer_wait == rel[tmp] + mDelayTime[tmp] IN
       IF timer_wait > 0
       THEN thread' = "wait" /\ until' = timer_wait
       ELSE thread' = "pop" /\ until' = until
    /\ UNCHANGED <<mTimers, kind, rel, mCallback, call, timer_wakeup_state,
                   timer_run, tmp, closed, history>>

\* timer_run behind the wait.
Woken ==
    /\ thread = "woken"
    /\ thread' = IF timer_wakeup_state = "ADD" THEN "test"
                 ELSE IF timer_run THEN "pop" ELSE "end"
    /\ until' = 0
    /\ window' = window \cup {t \in Timers : call[t] = "pushed"}
    /\ UNCHANGED <<mTimers, timerVars, call, timer_wakeup_state, timer_run,
                   tmp, closed, cancelled, ran, lost>>

\* mTimers.pop() removes what is on top now.
Pop ==
    /\ thread = "pop"
    /\ mTimers' = Tail(mTimers)
    /\ lost' = IF Head(mTimers) = tmp THEN lost ELSE lost \cup {Head(mTimers)}
    /\ thread' = "run"
    /\ UNCHANGED <<timerVars, call, timer_wakeup_state, timer_run, tmp, until,
                   closed, cancelled, ran, window>>

\* How often the callback of a once-timer ran.
CountRun ==
    ran' = IF kind[tmp].type = "once" /\ mCallback[tmp]
           THEN [ran EXCEPT ![tmp] = @ + 1] ELSE ran

\* Variant: the callback is not taken out of a once-timer.
RunKeeps ==
    /\ thread = "run"
    /\ CountRun
    /\ IF kind[tmp].type = "loop"
       THEN /\ rel' = [rel EXCEPT ![tmp] = kind[tmp].last]
            /\ Pushed(mTimers, mTimers', rel', tmp)
       ELSE UNCHANGED <<rel, mTimers>>
    /\ thread' = "mark"
    /\ UNCHANGED <<kind, mDelayTime, mCallback, call, timer_wakeup_state, timer_run,
                   tmp, until, closed, cancelled, window, lost>>

\* (*tmp)(): the callback of a once-timer is taken under call_once and run,
\* if it is still there; that of a loop-timer is run, its time starts anew
\* and it is pushed again.
Run ==
    /\ thread = "run"
    /\ mCallback' = [mCallback EXCEPT ![tmp] = @ /\ kind[tmp].type = "loop"]
    /\ CountRun
    /\ IF kind[tmp].type = "loop"
       THEN /\ rel' = [rel EXCEPT ![tmp] = kind[tmp].last]
            /\ Pushed(mTimers, mTimers', rel', tmp)
       ELSE UNCHANGED <<rel, mTimers>>
    /\ thread' = "mark"
    /\ UNCHANGED <<kind, mDelayTime, call, timer_wakeup_state, timer_run, tmp,
                   until, closed, cancelled, window, lost>>

\* timer_wakeup_state = TIMER_STATE_EXECUTE_TIMER, behind the unlock.
Mark ==
    /\ thread = "mark"
    /\ timer_wakeup_state' = "EXECUTE"
    /\ thread' = "test"
    /\ UNCHANGED <<mTimers, timerVars, call, timer_run, tmp, until, closed,
                   history>>

\* Time passes for the timers that were made and for a wait.
Tick ==
    /\ rel' = [t \in Timers |->
                  IF call[t] = "none" \/ rel[t] = -Late THEN rel[t]
                  ELSE rel[t] - 1]
    /\ until' = IF thread \in {"sleep", "wait"} /\ until > 0 THEN until - 1
                ELSE until
    /\ UNCHANGED <<mTimers, kind, mDelayTime, mCallback, call, timer_wakeup_state,
                   timer_run, thread, tmp, closed, history>>

Add(t) == AddMake(t) \/ AddPush(t) \/ AddFlag(t) \/ AddNotify(t)

TimerThread ==
    \/ Schedule \/ Test \/ Sleep \/ TimeOut \/ Look \/ Left \/ Woken \/ Pop
    \/ Run \/ Mark

Next ==
    \/ \E t \in Timers : Add(t) \/ Cancel(t)
    \/ Close
    \/ TimerThread
    \/ WakeSpuriously
    \/ Tick

\* The timer thread is scheduled and its callbacks return, a call of addTimer
\* that began goes on, and time passes.  Nobody has to add, cancel or close,
\* and no wait has to end before its time.
Fairness ==
    /\ WF_vars(TimerThread)
    /\ WF_vars(Tick)
    /\ \A t \in Timers : WF_vars(AddPush(t) \/ AddFlag(t) \/ AddNotify(t))

Spec == Init /\ [][Next]_vars
FairSpec == Spec /\ Fairness
----------------------------------------------------------------------------
\* Type correctness of the timer's state.
TypeOK ==
    /\ mTimers \in Seq(Timers)
    /\ kind \in [Timers -> Kinds]
    /\ rel \in [Timers -> Int] /\ \A t \in Timers : rel[t] >= -Late
    /\ mDelayTime \in [Timers -> Nat]
    /\ mCallback \in [Timers -> BOOLEAN]
    /\ call \in [Timers -> {"none", "made", "pushed", "flagged", "done"}]
    /\ timer_wakeup_state \in {"ADD", "EXECUTE"}
    /\ timer_run \in BOOLEAN
    /\ thread \in {"start", "test", "doze", "sleep", "look", "left", "wait",
                   "woken", "pop", "run", "mark", "end"}
    /\ tmp \in Timers
    /\ until \in Nat
    /\ closed \in BOOLEAN
    /\ ran \in [Timers -> Nat]
    /\ cancelled \cup window \cup lost \subseteq Timers

\* A once-timer runs once or is cancelled, never both and never twice,
\* although pop() may remove another timer than the one that is run and
\* leave that one in the queue, to be met again (TimerManager.hpp:242).
OnceOrCancelled ==
    \A t \in Timers : ran[t] + (IF t \in cancelled THEN 1 ELSE 0) <= 1

\* The pop of timer_run (TimerManager.hpp:242) removes another timer than the
\* one top() gave only if that timer was pushed in this very round: between
\* top() and a pop without a wait, or so late in the wait that its addTimer
\* had not set timer_wakeup_state when the thread tested it.
WrongPopIsLate ==
    thread = "pop" => mTimers # <<>> /\ Head(mTimers) \in window \cup {tmp}

\* A timer that was added runs, unless it is cancelled, the timer is closed
\* or it was popped in place of another one: a notification that comes
\* before the thread waits is made good by the end of the wait.
AddedRuns ==
    \A t \in Timers :
        call[t] = "done" /\ kind[t].type = "once"
            ~> ran[t] > 0 \/ t \in cancelled \cup lost \/ closed

\* After a Close that schedule() did not undo (TimerManager.hpp:264) the
\* timer thread ends, so that the join of PSS_Timer_Manager::Close returns.
CloseEnds == closed /\ ~timer_run /\ thread # "start" ~> thread = "end"

=============================================================================

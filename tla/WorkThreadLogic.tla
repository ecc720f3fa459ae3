-------------------------- MODULE WorkThreadLogic --------------------------
(***************************************************************************)
(* CWorkThreadLogic (PSS_ASIO/Message/ModuleLogic.cpp) as far as plugins   *)
(* use it for their own threads: create_frame_work_thread and              *)
(* close_frame_work_thread, send_frame_message and run_work_thread_logic   *)
(* with and without a delay, delete_frame_message_timer, the buffers that  *)
(* init_work_thread_logic replays, and close.                              *)
(*                                                                         *)
(* A frame is one call of send_frame_message or of run_work_thread_logic;  *)
(* the two differ in the list that buffers them and in that a message is   *)
(* run by the CModuleLogic it was sent to, a function by the thread alone. *)
(* The worker threads are the serial executor Tms implements, the timer    *)
(* thread fires a timer at any time after it was armed.  plugin_timer_     *)
(* mutex_ and the mtx_queue of the timer are modelled as locks; the lists  *)
(* are read without either where the code does so.                         *)
(***************************************************************************)
EXTENDS Naturals, Sequences

CONSTANTS PluginIds,     \* thread ids of plugins, not below thread_count_
          Frames,        \* the calls that can be made
          Kinds,         \* what a frame may be
          MaxInstances   \* how often a plugin thread is created

ASSUME KindsOK ==
    Kinds \subseteq [list : {"message", "func"}, tag : PluginIds,
                     delayed : BOOLEAN]
ASSUME FramesOK == Frames \cap {"free", "create"} = {}   \* they may hold the mutex
ASSUME InstancesOK == MaxInstances \in Nat \ {0}

VARIABLES main,                \* where init_service and close_service stand
          module_init_finish,
          plugin_work_thread_buffer_list,
          buffer,              \* the buffered messages and functions
          todo,                \* what a loop of the main thread has left
          plugin_work_thread_list,   \* instance of each thread, 0 if none
          instances,           \* instances of CModuleLogic made per thread
          closedModules,       \* instances whose functions were cleared
          logic,               \* the threads tms has created
          early,               \* m_tmsEvents: posted before tms started
          queue,               \* posted to each thread, not yet run
          plugin_timer_mutex,  \* who holds it between two steps
          creating,            \* the call of create_frame_work_thread in progress
          kind, call, instance,   \* of each frame: what, where, for whom
          timer,               \* the timer of each frame
          plgin_timer_list,    \* the timer ids (those of frames) it holds
          ran, dropped, deleted, closedIds   \* history

bufferVars == <<plugin_work_thread_buffer_list, buffer, todo>>
threadVars == <<plugin_work_thread_list, instances, closedModules, logic>>
taskVars == <<early, queue, dropped>>
lockVars == <<plugin_timer_mutex, creating>>
history == <<ran, deleted, closedIds>>
vars == <<main, module_init_finish, bufferVars, threadVars, taskVars,
          lockVars, kind, call, instance, timer, plgin_timer_list, history>>

Task == [frame : Frames, instance : 0 .. MaxInstances]

Init ==
    /\ main = "load"
    /\ module_init_finish = FALSE
    /\ plugin_work_thread_buffer_list = {}
    /\ buffer = [message |-> <<>>, func |-> <<>>]
    /\ todo = <<>>
    /\ plugin_work_thread_list = [id \in PluginIds |-> 0]
    /\ instances = [id \in PluginIds |-> 0]
    /\ closedModules = {}
    /\ logic = {}
    /\ early = <<>>
    /\ queue = [id \in PluginIds |-> <<>>]
    /\ plugin_timer_mutex = "free"
    /\ creating = {}
    /\ kind \in [Frames -> Kinds]
    /\ call = [f \in Frames |-> "none"]
    /\ instance = [f \in Frames |-> 0]
    /\ timer = [f \in Frames |-> "none"]
    /\ plgin_timer_list = {}
    /\ ran = {} /\ dropped = {}
    /\ deleted = {} /\ closedIds = {}

TmsIsStarted == main \in {"start", "messages", "funcs", "up", "timerClosed", "close"}
----------------------------------------------------------------------------
\* TMS::AddMessage once tms has started: a thread that does not exist refuses
\* the task.
Deliver(task) ==
    LET f == task.frame
        tag == kind[f].tag IN
    \/ /\ tag \in logic
       /\ queue' = [queue EXCEPT ![tag] = Append(@, task)]
       /\ UNCHANGED dropped
    \/ /\ tag \notin logic
       /\ dropped' = dropped \cup {f}
       /\ UNCHANGED queue

\* TMS::AddMessage: the task is kept before Start, and again after Close.
Post(f) ==
    LET task == [frame |-> f, instance |-> instance[f]] IN
    \/ TmsIsStarted /\ Deliver(task) /\ UNCHANGED early
    \/ ~TmsIsStarted /\ early' = Append(early, task) /\ UNCHANGED <<queue, dropped>>

\* A new CModuleLogic for a plugin thread.
NewInstance(id) ==
    /\ instances[id] < MaxInstances
    /\ instances' = [instances EXCEPT ![id] = @ + 1]
    /\ plugin_work_thread_list' =
           [plugin_work_thread_list EXCEPT ![id] = instances[id] + 1]

\* do_frame_message and do_work_thread_logic: no such thread, a task to post
\* now, or a timer to arm.
Find(f) ==
    LET found == plugin_work_thread_list[kind[f].tag] IN
    /\ instance' = [instance EXCEPT ![f] = found]
    /\ call' = [call EXCEPT ![f] =
                   IF found = 0 THEN "false"
                   ELSE IF kind[f].delayed THEN "found" ELSE "post"]
    /\ UNCHANGED <<taskVars, plgin_timer_list>>
----------------------------------------------------------------------------
\* send_frame_message and run_work_thread_logic, once loading is over.
Send(f) ==
    /\ call[f] = "none"
    /\ module_init_finish
    /\ Find(f)
    /\ UNCHANGED <<main, module_init_finish, bufferVars, threadVars, lockVars,
                   kind, timer, history>>

\* The same call when it reads module_init_finish_ as false ...
SendEarly(f) ==
    /\ call[f] = "none"
    /\ ~module_init_finish
    /\ call' = [call EXCEPT ![f] = "early"]
    /\ UNCHANGED <<main, module_init_finish, bufferVars, threadVars, taskVars,
                   lockVars, kind, instance, timer, plgin_timer_list,
                   history>>

\* ... and appends the frame to the buffer, perhaps too late.
SendBuffer(f) ==
    /\ call[f] = "early"
    /\ buffer' = [buffer EXCEPT ![kind[f].list] = Append(@, f)]
    /\ call' = [call EXCEPT ![f] = IF module_init_finish THEN "late" ELSE "buffered"]
    /\ UNCHANGED <<main, module_init_finish, plugin_work_thread_buffer_list,
                   todo, threadVars, taskVars, lockVars, kind, instance,
                   timer, plgin_timer_list, history>>

\* A frame without a delay is posted.
SendPost(f) ==
    /\ call[f] = "post"
    /\ Post(f)
    /\ call' = [call EXCEPT ![f] = "true"]
    /\ UNCHANGED <<main, module_init_finish, bufferVars, threadVars, lockVars,
                   kind, instance, timer, plgin_timer_list, history>>

\* A callback of the timer runs with mtx_queue held.
QueueIsFree == \A f \in Frames : timer[f] # "firing"

\* Variant: plugin_timer_mutex_ is taken before the timer is added.
SendArmLocked(f) ==
    /\ call[f] = "found"
    /\ plugin_timer_mutex \in {"free", f}
    /\ IF plugin_timer_mutex = "free"
       THEN /\ plugin_timer_mutex' = f
            /\ UNCHANGED <<timer, call>>
       ELSE /\ QueueIsFree
            /\ timer' = [timer EXCEPT ![f] = "armed"]
            /\ call' = [call EXCEPT ![f] = "armed"]
            /\ UNCHANGED plugin_timer_mutex
    /\ UNCHANGED <<main, module_init_finish, bufferVars, threadVars, taskVars,
                   creating, kind, instance, plgin_timer_list, history>>

\* A frame with a delay: addTimer ...
SendArm(f) ==
    /\ call[f] = "found"
    /\ QueueIsFree
    /\ timer' = [timer EXCEPT ![f] = "armed"]
    /\ call' = [call EXCEPT ![f] = "armed"]
    /\ UNCHANGED <<main, module_init_finish, bufferVars, threadVars, taskVars,
                   lockVars, kind, instance, plgin_timer_list, history>>

\* Variant: the timer is not remembered.
SendForget(f) ==
    /\ call[f] = "armed"
    /\ call' = [call EXCEPT ![f] = "true"]
    /\ UNCHANGED <<main, module_init_finish, bufferVars, threadVars, taskVars,
                   lockVars, kind, instance, timer, plgin_timer_list,
                   history>>

\* ... and its entry in plgin_timer_list_, perhaps after it fired.
SendStore(f) ==
    /\ call[f] = "armed"
    /\ plugin_timer_mutex \in {"free", f}
    /\ plugin_timer_mutex' = "free"
    /\ plgin_timer_list' = plgin_timer_list \cup {f}
    /\ call' = [call EXCEPT ![f] = "true"]
    /\ UNCHANGED <<main, module_init_finish, bufferVars, threadVars, taskVars,
                   creating, kind, instance, timer, history>>

----------------------------------------------------------------------------
\* Variant: the entry is erased, the timer goes on.
DeleteEntry(f) ==
    /\ plugin_timer_mutex = "free"
    /\ f \in plgin_timer_list
    /\ plgin_timer_list' = plgin_timer_list \ {f}
    /\ deleted' = IF timer[f] = "armed" THEN deleted \cup {f} ELSE deleted
    /\ UNCHANGED <<main, module_init_finish, bufferVars, threadVars, taskVars,
                   lockVars, kind, call, instance, timer, ran, closedIds>>

\* delete_frame_message_timer with the id of f, when it finds it: cancel has
\* no effect on a timer that fires, and there is none to lock once it is gone.
Delete(f) ==
    /\ plugin_timer_mutex = "free"
    /\ f \in plgin_timer_list
    /\ plgin_timer_list' = plgin_timer_list \ {f}
    /\ IF timer[f] = "armed"
       THEN timer' = [timer EXCEPT ![f] = "cancelled"] /\ deleted' = deleted \cup {f}
       ELSE UNCHANGED <<timer, deleted>>
    /\ UNCHANGED <<main, module_init_finish, bufferVars, threadVars, taskVars,
                   lockVars, kind, call, instance, ran, closedIds>>

\* The timer thread takes the callback of f; not after PSS_Timer_Manager::
\* Close, which has joined it.
Fire(f) ==
    /\ timer[f] = "armed"
    /\ QueueIsFree
    /\ main \notin {"timerClosed", "close", "over"}
    /\ timer' = [timer EXCEPT ![f] = "firing"]
    /\ UNCHANGED <<main, module_init_finish, bufferVars, threadVars, taskVars,
                   lockVars, kind, call, instance, plgin_timer_list, history>>

\* The callback erases the timer's id under plugin_timer_mutex_ and posts.
FireEnd(f) ==
    /\ timer[f] = "firing"
    /\ plugin_timer_mutex = "free"
    /\ plgin_timer_list' = plgin_timer_list \ {f}
    /\ Post(f)
    /\ timer' = [timer EXCEPT ![f] = "over"]
    /\ UNCHANGED <<main, module_init_finish, bufferVars, threadVars, lockVars,
                   kind, call, instance, history>>
----------------------------------------------------------------------------
\* create_frame_work_thread: buffers the id while plugins are loaded, and
\* otherwise enters a thread that is not there; plugin_timer_mutex_ is held ...
CreateBegin(id) ==
    /\ plugin_timer_mutex = "free"
    /\ module_init_finish => plugin_work_thread_list[id] = 0
    /\ plugin_timer_mutex' = "create"
    /\ IF module_init_finish
       THEN /\ NewInstance(id)
            /\ creating' = {[id |-> id, at |-> "logic"]}
       ELSE /\ creating' = {[id |-> id, at |-> "buffer"]}
            /\ UNCHANGED <<plugin_work_thread_list, instances>>
    /\ UNCHANGED <<main, module_init_finish, bufferVars, closedModules, logic,
                   taskVars, kind, call, instance, timer, plgin_timer_list,
                   history>>

\* ... until the id is in the buffer, or tms has the thread.
CreateEnd(c) ==
    /\ c \in creating
    /\ IF c.at = "logic"
       THEN logic' = logic \cup {c.id} /\ UNCHANGED plugin_work_thread_buffer_list
       ELSE /\ plugin_work_thread_buffer_list' =
                    plugin_work_thread_buffer_list \cup {c.id}
            /\ UNCHANGED logic
    /\ creating' = {}
    /\ plugin_timer_mutex' = "free"
    /\ UNCHANGED <<main, module_init_finish, buffer, todo,
                   plugin_work_thread_list, instances, closedModules, taskVars,
                   kind, call, instance, timer, plgin_timer_list, history>>

\* close_frame_work_thread: the module is closed and forgotten, the thread of
\* tms goes on.
CloseThread(id) ==
    /\ plugin_timer_mutex = "free"
    /\ plugin_work_thread_list[id] # 0
    /\ closedModules' = closedModules \cup {<<id, plugin_work_thread_list[id]>>}
    /\ plugin_work_thread_list' = [plugin_work_thread_list EXCEPT ![id] = 0]
    /\ closedIds' = closedIds \cup {id}
    /\ UNCHANGED <<main, module_init_finish, bufferVars, instances, logic,
                   taskVars, lockVars, kind, call, instance, timer,
                   plgin_timer_list, ran, deleted>>

\* Variant: the task stays in the queue.
WorkPeeks(id) ==
    /\ id \in logic
    /\ TmsIsStarted
    /\ queue[id] # <<>>
    /\ ran' = ran \cup {Head(queue[id]).frame}
    /\ UNCHANGED <<main, module_init_finish, bufferVars, threadVars, taskVars,
                   lockVars, kind, call, instance, timer, plgin_timer_list,
                   deleted, closedIds>>

\* A worker thread runs its next task: a function, or a message, which an
\* instance whose functions were cleared does not know.
Work(id) ==
    /\ id \in logic
    /\ TmsIsStarted
    /\ queue[id] # <<>>
    /\ queue' = [queue EXCEPT ![id] = Tail(@)]
    /\ LET f == Head(queue[id]).frame IN
       ran' = IF /\ kind[f].list = "message"
                 /\ <<id, Head(queue[id]).instance>> \in closedModules
              THEN ran ELSE ran \cup {f}
    /\ UNCHANGED <<main, module_init_finish, bufferVars, threadVars, early,
                   dropped, lockVars, kind, call, instance, timer,
                   plgin_timer_list, deleted, closedIds>>
----------------------------------------------------------------------------
\* init_work_thread_logic, when the plugins are loaded and the work threads
\* are there: module_init_finish_, then the loop over the buffered ids.
LoadEnd ==
    /\ main = "load"
    /\ main' = "threads"
    /\ module_init_finish' = TRUE
    /\ UNCHANGED <<bufferVars, threadVars, taskVars, lockVars, kind, call,
                   instance, timer, plgin_timer_list, history>>

\* Variant: tms is not told.
CreateListed(id) ==
    /\ main = "threads"
    /\ id \in plugin_work_thread_buffer_list
    /\ plugin_work_thread_buffer_list' = plugin_work_thread_buffer_list \ {id}
    /\ IF plugin_work_thread_list[id] = 0
       THEN NewInstance(id)
       ELSE UNCHANGED <<plugin_work_thread_list, instances>>
    /\ UNCHANGED <<main, module_init_finish, buffer, todo, closedModules, logic,
                   taskVars, lockVars, kind, call, instance, timer,
                   plgin_timer_list, history>>

\* One round of that loop; a thread that is there is passed over.
CreateBuffered(id) ==
    /\ main = "threads"
    /\ id \in plugin_work_thread_buffer_list
    /\ plugin_work_thread_buffer_list' = plugin_work_thread_buffer_list \ {id}
    /\ IF plugin_work_thread_list[id] = 0
       THEN NewInstance(id) /\ logic' = logic \cup {id}
       ELSE UNCHANGED <<plugin_work_thread_list, instances, logic>>
    /\ UNCHANGED <<main, module_init_finish, buffer, todo, closedModules,
                   taskVars, lockVars, kind, call, instance, timer,
                   plgin_timer_list, history>>

\* TMS::Start begins ...
Start ==
    /\ main = "threads"
    /\ plugin_work_thread_buffer_list = {}
    /\ main' = "start"
    /\ UNCHANGED <<module_init_finish, bufferVars, threadVars, taskVars,
                   lockVars, kind, call, instance, timer, plgin_timer_list,
                   history>>

\* ... and hands out what was posted early, one task after the other, while
\* others are posted; then the loop over the buffered messages begins.
StartNext ==
    /\ main = "start"
    /\ IF early # <<>>
       THEN /\ Deliver(Head(early))
            /\ early' = Tail(early)
            /\ UNCHANGED <<main, todo>>
       ELSE /\ main' = "messages"
            /\ todo' = buffer.message
            /\ UNCHANGED taskVars
    /\ UNCHANGED <<module_init_finish, plugin_work_thread_buffer_list, buffer,
                   threadVars, lockVars, kind, call, instance, timer,
                   plgin_timer_list, history>>

\* The loops call do_frame_message or do_work_thread_logic ...
Replay ==
    /\ main \in {"messages", "funcs"}
    /\ todo # <<>>
    /\ call[Head(todo)] \in {"buffered", "late"}
    /\ Find(Head(todo))
    /\ UNCHANGED <<main, module_init_finish, bufferVars, threadVars, lockVars,
                   kind, timer, history>>

\* Variant: no loop over the buffered functions.
ReplayMessages ==
    /\ main \in {"messages", "funcs"}
    /\ IF todo # <<>>
       THEN /\ call[Head(todo)] \in {"true", "false"}
            /\ todo' = Tail(todo)
            /\ UNCHANGED <<main, buffer>>
       ELSE main' = "up" /\ todo' = <<>>
            /\ buffer' = [message |-> <<>>, func |-> <<>>]
    /\ UNCHANGED <<module_init_finish, plugin_work_thread_buffer_list,
                   threadVars, taskVars, lockVars, kind, call, instance, timer,
                   plgin_timer_list, history>>

\* ... and go on when the call returned; at the end the buffer is cleared.
ReplayNext ==
    /\ main \in {"messages", "funcs"}
    /\ IF todo # <<>>
       THEN /\ call[Head(todo)] \in {"true", "false"}
            /\ todo' = Tail(todo)
            /\ UNCHANGED <<main, buffer>>
       ELSE IF main = "messages"
       THEN main' = "funcs" /\ todo' = buffer.func
            /\ buffer' = [buffer EXCEPT !.message = <<>>]
       ELSE main' = "up" /\ todo' = <<>> /\ buffer' = [buffer EXCEPT !.func = <<>>]
    /\ UNCHANGED <<module_init_finish, plugin_work_thread_buffer_list,
                   threadVars, taskVars, lockVars, kind, call, instance, timer,
                   plgin_timer_list, history>>

\* close_service: the timer thread is joined, in no callback ...
CloseTimer ==
    /\ main = "up"
    /\ QueueIsFree
    /\ main' = "timerClosed"
    /\ UNCHANGED <<module_init_finish, bufferVars, threadVars, taskVars,
                   lockVars, kind, call, instance, timer, plgin_timer_list,
                   history>>

\* ... CWorkThreadLogic::close closes the modules of the plugin threads ...
CloseModules ==
    /\ main = "timerClosed"
    /\ main' = "close"
    /\ closedModules' = closedModules \cup
           {<<id, plugin_work_thread_list[id]>> : id \in PluginIds}
    /\ UNCHANGED <<module_init_finish, bufferVars, plugin_work_thread_list,
                   instances, logic, taskVars, lockVars, kind, call, instance,
                   timer, plgin_timer_list, history>>

\* ... and TMS::Close ends their threads, with what they have left to run.
CloseTms ==
    /\ main = "close"
    /\ main' = "over"
    /\ UNCHANGED <<module_init_finish, bufferVars, threadVars, taskVars,
                   lockVars, kind, call, instance, timer, plgin_timer_list,
                   history>>

SendOn(f) == SendBuffer(f) \/ SendPost(f) \/ SendArm(f) \/ SendStore(f)
TimerThread(f) == Fire(f) \/ FireEnd(f)
InitMain ==
    \/ LoadEnd \/ Start \/ StartNext \/ Replay \/ ReplayNext
    \/ \E id \in PluginIds : CreateBuffered(id)

Next ==
    \/ \E f \in Frames : Send(f) \/ SendEarly(f) \/ SendOn(f) \/ Delete(f)
    \/ \E f \in Frames : TimerThread(f)
    \/ \E id \in PluginIds : CreateBegin(id) \/ CloseThread(id) \/ Work(id)
    \/ \E c \in creating : CreateEnd(c)
    \/ InitMain
    \/ CloseTimer \/ CloseModules \/ CloseTms

\* The threads are scheduled, a call that began returns, a timer that is
\* armed comes due, and init_work_thread_logic goes on to its end.  Nobody
\* has to call the service or to close it.
Fairness ==
    /\ \A f \in Frames : WF_vars(SendOn(f)) /\ WF_vars(TimerThread(f))
    /\ \A id \in PluginIds : WF_vars(Work(id))
    /\ WF_vars(\E c \in creating : CreateEnd(c))
    /\ WF_vars(InitMain)

Spec == Init /\ [][Next]_vars
FairSpec == Spec /\ Fairness
----------------------------------------------------------------------------
\* Type correctness; the list holds the newest instance or none, and
\* create_frame_work_thread holds plugin_timer_mutex_ while it is at work.
TypeOK ==
    /\ main \in {"load", "threads", "start", "messages", "funcs", "up",
                 "timerClosed", "close", "over"}
    /\ module_init_finish = (main # "load")
    /\ plugin_work_thread_buffer_list \cup logic \cup closedIds \subseteq PluginIds
    /\ buffer \in [message : Seq(Frames), func : Seq(Frames)]
    /\ todo \in Seq(Frames)
    /\ instances \in [PluginIds -> 0 .. MaxInstances]
    /\ \A id \in PluginIds : plugin_work_thread_list[id] \in {0, instances[id]}
    /\ early \in Seq(Task)
    /\ queue \in [PluginIds -> Seq(Task)]
    /\ plugin_timer_mutex \in {"free", "create"} \cup Frames
    /\ (plugin_timer_mutex = "create") = (creating # {})
    /\ kind \in [Frames -> Kinds]
    /\ call \in [Frames -> {"none", "early", "buffered", "late", "post", "found",
                            "armed", "true", "false"}]
    /\ timer \in [Frames -> {"none", "armed", "firing", "over", "cancelled"}]
    /\ plgin_timer_list \cup ran \cup dropped \cup deleted \subseteq Frames

\* A task of frame f is in s, and no frame has two.
Holds(s, f) == \E i \in DOMAIN s : s[i].frame = f
Once(s) == \A i, j \in DOMAIN s : s[i].frame = s[j].frame => i = j

Waiting(f) == Holds(early, f) \/ \E id \in PluginIds : Holds(queue[id], f)

\* A frame is posted at most once, although it passes through the buffer
\* (ModuleLogic.cpp:184), the timer and the vector of tms: it waits in one
\* place, not after it ran or was refused, and it is not both.
PostedOnce ==
    /\ Once(early) /\ \A id \in PluginIds : Once(queue[id])
    /\ \A f \in Frames, id, other \in PluginIds :
           Holds(queue[id], f) => ~Holds(early, f) /\ (Holds(queue[other], f) => id = other)
    /\ \A f \in Frames : Waiting(f) => f \notin ran \cup dropped
    /\ ran \cap dropped = {}

\* As long as a timer has neither fired nor been deleted, and once the call
\* that armed it has returned, its id is in plgin_timer_list_ (ModuleLogic.cpp:922) for
\* delete_frame_message_timer to find.
ArmedIsListed ==
    \A f \in Frames :
        timer[f] = "armed" /\ call[f] = "true"
        => f \in plgin_timer_list \cup deleted

\* A message whose timer delete_frame_message_timer cancelled before it
\* fired (ModuleLogic.cpp:691) is never posted.
DeletedIsNotPosted ==
    \A f \in deleted : ~Waiting(f) /\ f \notin ran \cup dropped

\* Tms refuses a task, although the call returned true, only while
\* create_frame_work_thread has entered the plugin's thread in its list and
\* not yet created it (ModuleLogic.cpp:647-650).
RefusedWhileCreated ==
    [][dropped' # dropped => \E c \in creating : c.at = "logic"]_vars

Closing == main \in {"timerClosed", "close", "over"}

\* A frame that was accepted runs, unless it is deleted or refused, its
\* thread is closed or the server closes; no two of the mutexes involved
\* (plugin_timer_mutex_ and the timer's mtx_queue) end in a deadlock.
AcceptedRuns ==
    \A f \in Frames :
        call[f] = "true" ~> \/ f \in ran \cup deleted \cup dropped
                           \/ kind[f].tag \in closedIds
                           \/ Closing

\* A frame buffered while the plugins were loaded, for a thread that was
\* asked for by then, runs after the start: "等模块全部加载完毕，启动"
\* (ModuleLogic.cpp:629).
BufferedRuns ==
    \A f \in Frames :
        /\ call[f] = "buffered"
        /\ ~module_init_finish
        /\ kind[f].tag \in plugin_work_thread_buffer_list
        ~> \/ f \in ran \cup deleted \cup dropped
           \/ kind[f].tag \in closedIds
           \/ Closing

=============================================================================

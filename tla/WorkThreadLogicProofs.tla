----------------------- MODULE WorkThreadLogicProofs -----------------------
(***************************************************************************)
(* What is proved of WorkThreadLogic for any number of plugin threads,     *)
(* frames and instances: its types, that a frame is posted once at most,   *)
(* that a deleted timer posts nothing, that a timer that is armed can be   *)
(* found and deleted, and that tms refuses a task only while its thread    *)
(* is being created.                                                       *)
(***************************************************************************)
EXTENDS WorkThreadLogic, TLAPS

\* A leaf that names no prover is left to the SMT solver.
USE SMTT(20)

Calls == {"none", "early", "buffered", "late", "post", "found", "armed", "true", "false"}
Timers == {"none", "armed", "firing", "over", "cancelled"}

\* The types of what the invariant speaks of.
Types ==
    /\ kind \in [Frames -> Kinds]
    /\ call \in [Frames -> Calls] /\ timer \in [Frames -> Timers]
    /\ instance \in [Frames -> 0 .. MaxInstances]
    /\ early \in Seq(Task)
    /\ todo \in Seq(Frames)
    /\ buffer \in [message : Seq(Frames), func : Seq(Frames)]
    /\ instances \in [PluginIds -> 0 .. MaxInstances]
    /\ plugin_work_thread_list \in [PluginIds -> 0 .. MaxInstances]
    /\ logic \subseteq PluginIds
    /\ plugin_work_thread_buffer_list \subseteq PluginIds
    /\ creating \subseteq [id : PluginIds, at : {"logic", "buffer"}]

\* A timer is armed before its call stores its id.
Stored ==
    \A f \in Frames : timer[f] = "armed" =>
        \/ call[f] = "armed"
        \/ call[f] = "true" /\ f \in plgin_timer_list

\* A thread that was ever in the list has been created in tms, or is being
\* created under plugin_timer_mutex_.
Created(id) == id \in logic \/ \E c \in creating : c.id = id /\ c.at = "logic"
Threads ==
    /\ \A id \in PluginIds : plugin_work_thread_list[id] # 0 => instances[id] > 0
    /\ \A id \in PluginIds : instances[id] > 0 => Created(id)
    /\ creating # {} => plugin_timer_mutex = "create"
    /\ \A c, d \in creating : c = d

\* What is on its way to tms found its thread in the list.
Known ==
    /\ \A f \in Frames :
           call[f] \in {"post", "found", "armed"} \/ timer[f] \in {"armed", "firing"}
           => instances[kind[f].tag] > 0
    /\ \A i \in 1 .. Len(early) : instances[kind[early[i].frame].tag] > 0

IInv == Types /\ Stored /\ Threads /\ Known

----------------------------------------------------------------------------
\* The first of the tasks that wait.
LEMMA FirstTask ==
    ASSUME NEW s \in Seq(Task), s # <<>>
    PROVE  /\ Head(s) = s[1] /\ Head(s) \in Task /\ Head(s).frame \in Frames
           /\ 1 \in DOMAIN s /\ DOMAIN s = 1 .. Len(s)
<1>1. Head(s) = s[1] /\ s[1] \in Task /\ 1 \in DOMAIN s /\ DOMAIN s = 1 .. Len(s)
    OBVIOUS
<1> QED  BY <1>1 DEF Task

\* The tasks that wait behind the first one.
LEMMA OtherTasks ==
    ASSUME NEW s \in Seq(Task), s # <<>>
    PROVE  /\ Tail(s) \in Seq(Task)
           /\ \A i \in DOMAIN Tail(s) : i + 1 \in DOMAIN s /\ Tail(s)[i] = s[i + 1]
           /\ \A i \in DOMAIN s : i # 1 => i - 1 \in DOMAIN Tail(s) /\ Tail(s)[i - 1] = s[i]
<1>1. /\ Tail(s) \in Seq(Task) /\ Len(Tail(s)) = Len(s) - 1 /\ Len(s) \in Nat
      /\ DOMAIN s = 1 .. Len(s) /\ DOMAIN Tail(s) = 1 .. Len(Tail(s))
    OBVIOUS
<1>2. \A i \in 1 .. Len(Tail(s)) : Tail(s)[i] = s[i + 1]
    OBVIOUS
<1> HIDE DEF Task
<1> QED  BY <1>1, <1>2

\* The invariant holds at the start.
LEMMA InitHolds == Init => IInv
<1> SUFFICES ASSUME Init PROVE IInv
    OBVIOUS
<1>1. Types
    BY InstancesOK DEF Init, Types, Calls, Timers
<1>2. Stored /\ Threads /\ Known
    BY DEF Init, Stored, Threads, Known
<1> QED  BY <1>1, <1>2 DEF IInv

\* A frame is for a plugin's thread.
LEMMA TagType ==
    ASSUME Types, NEW f \in Frames
    PROVE  kind[f].tag \in PluginIds
BY KindsOK DEF Types

\* TMS::AddMessage keeps the task for TMS::Start, or refuses it when the thread
\* is not there.
LEMMA PostEffect ==
    ASSUME Types, NEW f \in Frames, Post(f)
    PROVE  /\ \/ early' = early
              \/ early' = Append(early, [frame |-> f, instance |-> instance[f]])
           /\ dropped' # dropped => kind[f].tag \notin logic
BY Zenon DEF Post, Deliver

\* A task of a known thread may join those kept for TMS::Start.
LEMMA EarlyKept ==
    ASSUME Types, Known, NEW f \in Frames, instances[kind[f].tag] > 0,
           UNCHANGED <<kind, instances>>,
           \/ early' = early
           \/ early' = Append(early, [frame |-> f, instance |-> instance[f]])
    PROVE  /\ early' \in Seq(Task)
           /\ \A i \in 1 .. Len(early') : instances'[kind'[early'[i].frame].tag] > 0
<1>1. early \in Seq(Task)
    BY DEF Types
<1>2. CASE early' = early
    BY <1>1, <1>2 DEF Known
<1>3. CASE early' = Append(early, [frame |-> f, instance |-> instance[f]])
  <2> DEFINE e == [frame |-> f, instance |-> instance[f]]
  <2>1. e \in Task /\ e.frame = f
      BY DEF Types, Task
  <2> HIDE DEF e
  <2>2. /\ early' \in Seq(Task) /\ Len(early') = Len(early) + 1
        /\ \A i \in 1 .. Len(early) : early'[i] = early[i]
        /\ early'[Len(early) + 1] = e
      BY <1>1, <1>3, <2>1 DEF e
  <2>3. Len(early) \in Nat
      BY <1>1
  <2>4. ASSUME NEW i \in 1 .. Len(early')
        PROVE  instances'[kind'[early'[i].frame].tag] > 0
    <3>1. CASE i = Len(early) + 1
        BY <2>1, <2>2, <3>1
    <3>2. CASE i \in 1 .. Len(early)
        BY <2>2, <3>2 DEF Known
    <3> QED  BY <2>2, <2>3, <3>1, <3>2
  <2> QED  BY <2>2, <2>4
<1> QED  BY <1>2, <1>3

\* What the steps of a frame leave alone.
threads == <<threadVars, creating, kind>>

\* The threads do not change in the steps of a frame.
LEMMA ThreadsKept ==
    ASSUME Threads, UNCHANGED threads, creating # {} => plugin_timer_mutex' = plugin_timer_mutex
    PROVE  Threads'
BY DEF Threads, Created, threads, threadVars

\* do_frame_message and do_work_thread_logic, for a new or a buffered frame.
LEMMA FindKeeps ==
    ASSUME IInv, NEW f \in Frames, Find(f),
           call[f] \in {"none", "buffered", "late"},
           UNCHANGED <<bufferVars, threadVars, lockVars, kind, timer>>
    PROVE  IInv'
<1> USE DEF IInv, bufferVars, threadVars, lockVars, taskVars
<1> DEFINE id == kind[f].tag
<1>1. id \in PluginIds
    BY TagType
<1>2. PICK v \in {"false", "found", "post"} :
          /\ call' = [call EXCEPT ![f] = v]
          /\ v # "false" => plugin_work_thread_list[id] # 0
    BY Zenon DEF Find
<1>3. instance' = [instance EXCEPT ![f] = plugin_work_thread_list[id]] /\ early' = early
      /\ plgin_timer_list' = plgin_timer_list
    BY DEF Find
<1>4. v # "false" => instances[id] > 0
    BY <1>1, <1>2 DEF Threads
<1> HIDE DEF id
<1>5. Types'
  <2>1. plugin_work_thread_list[id] \in 0 .. MaxInstances
      BY <1>1 DEF Types
  <2>2. instance' \in [Frames -> 0 .. MaxInstances] /\ call' \in [Frames -> Calls]
      BY <1>2, <1>3, <2>1 DEF Types, Calls
  <2> QED  BY <1>3, <2>2, Zenon DEF Types
<1>6. Stored'
    BY <1>2, <1>3 DEF Stored, Types
<1>7. Threads'
    BY ThreadsKept DEF threads
<1>8. Known'
    BY <1>2, <1>3, <1>4 DEF Known, Types, id
<1> QED  BY <1>5, <1>6, <1>7, <1>8

\* A call made while the plugins are loaded.
LEMMA SendEarlyKeeps ==
    ASSUME IInv, NEW f \in Frames, SendEarly(f) \/ SendBuffer(f)
    PROVE  IInv'
<1> USE DEF IInv, bufferVars, threadVars, lockVars, taskVars
<1>1. /\ call[f] \in {"none", "early"}
      /\ UNCHANGED <<plugin_work_thread_buffer_list, todo, threadVars, early,
                     lockVars, kind, instance, timer, plgin_timer_list>>
    BY DEF SendEarly, SendBuffer
<1>2. PICK v \in {"early", "late", "buffered"} : call' = [call EXCEPT ![f] = v]
    BY DEF SendEarly, SendBuffer
<1>3. buffer' \in [message : Seq(Frames), func : Seq(Frames)]
  <2>1. CASE buffer' = buffer
      BY <2>1 DEF Types
  <2>2. CASE buffer' = [buffer EXCEPT ![kind[f].list] = Append(@, f)]
    <3>1. kind[f].list \in {"message", "func"}
        BY KindsOK DEF Types
    <3>2. /\ Append(buffer.message, f) \in Seq(Frames)
          /\ Append(buffer.func, f) \in Seq(Frames)
        BY DEF Types
    <3>3. CASE kind[f].list = "message"
        BY <2>2, <3>2, <3>3, Zenon DEF Types
    <3>4. CASE kind[f].list = "func"
        BY <2>2, <3>2, <3>4, Zenon DEF Types
    <3> QED  BY <3>1, <3>3, <3>4
  <2> QED  BY <2>1, <2>2 DEF SendEarly, SendBuffer
<1>4. Types'
  <2>1. call' \in [Frames -> Calls]
      BY <1>2 DEF Types, Calls
  <2> QED  BY <1>1, <1>3, <2>1 DEF Types
<1>5. Stored'
    BY <1>1, <1>2 DEF Stored, Types
<1>6. Threads'
    BY <1>1, ThreadsKept DEF threads
<1>7. Known'
    BY <1>1, <1>2 DEF Known, Types
<1> QED  BY <1>4, <1>5, <1>6, <1>7

\* A frame without a delay is posted.
LEMMA SendPostKeeps ==
    ASSUME IInv, NEW f \in Frames, SendPost(f)
    PROVE  IInv'
<1> USE DEF IInv, bufferVars, threadVars, lockVars
<1>1. /\ call[f] = "post" /\ call' = [call EXCEPT ![f] = "true"]
      /\ UNCHANGED <<bufferVars, threadVars, lockVars, kind, instance, timer,
                     plgin_timer_list>>
    BY DEF SendPost
<1>2. \/ early' = early
      \/ early' = Append(early, [frame |-> f, instance |-> instance[f]])
    BY PostEffect DEF SendPost
<1>3. instances[kind[f].tag] > 0
    BY <1>1 DEF Known
<1>4. /\ early' \in Seq(Task)
      /\ \A i \in 1 .. Len(early') : instances'[kind'[early'[i].frame].tag] > 0
    BY <1>1, <1>2, <1>3, EarlyKept
<1>5. Types'
  <2>1. call' \in [Frames -> Calls]
      BY <1>1 DEF Types, Calls
  <2> QED  BY <1>1, <1>4, <2>1 DEF Types
<1>6. Stored'
    BY <1>1 DEF Stored, Types
<1>7. Threads'
    BY <1>1, ThreadsKept DEF threads
<1>8. Known'
    BY <1>1, <1>4 DEF Known, Types
<1> QED  BY <1>5, <1>6, <1>7, <1>8

\* A frame with a delay: the timer is armed, then its id stored.
LEMMA SendDelayedKeeps ==
    ASSUME IInv, NEW f \in Frames, SendArm(f) \/ SendStore(f)
    PROVE  IInv'
<1> USE DEF IInv, bufferVars, threadVars, lockVars, taskVars
<1>1. UNCHANGED <<bufferVars, threadVars, creating, early, kind, instance>>
    BY DEF SendArm, SendStore
<1>2. \/ /\ call[f] = "found" /\ call' = [call EXCEPT ![f] = "armed"]
         /\ timer' = [timer EXCEPT ![f] = "armed"] /\ plgin_timer_list' = plgin_timer_list
      \/ /\ call[f] = "armed" /\ call' = [call EXCEPT ![f] = "true"]
         /\ timer' = timer /\ plgin_timer_list' = plgin_timer_list \cup {f}
    BY DEF SendArm, SendStore
<1>3. Types'
  <2>1. call' \in [Frames -> Calls] /\ timer' \in [Frames -> Timers]
      BY <1>2, Zenon DEF Types, Calls, Timers
  <2> QED  BY <1>1, <2>1 DEF Types
<1>4. Stored'
    BY <1>2, Zenon DEF Stored, Types
<1>5. Threads'
  <2>1. creating # {} => plugin_timer_mutex' = plugin_timer_mutex
      BY FramesOK DEF Threads, SendArm, SendStore
  <2> QED  BY <1>1, <2>1, ThreadsKept DEF threads
<1>6. Known'
    BY <1>1, <1>2 DEF Known, Types
<1> QED  BY <1>3, <1>4, <1>5, <1>6

\* The timer of a frame is deleted or fires.
LEMMA TimerKeeps ==
    ASSUME IInv, NEW f \in Frames, Delete(f) \/ Fire(f) \/ FireEnd(f)
    PROVE  IInv'
<1> USE DEF IInv, bufferVars, threadVars, lockVars, taskVars
<1>1. UNCHANGED <<bufferVars, threadVars, lockVars, kind, call, instance>>
    BY DEF Delete, Fire, FireEnd
<1>2. PICK w \in Timers \ {"armed", "none"} :
          /\ \/ timer' = [timer EXCEPT ![f] = w]
             \/ timer' = timer /\ timer[f] # "armed"
          /\ w = "firing" => timer[f] = "armed"
    BY DEF Delete, Fire, FireEnd, Timers
<1>3. plgin_timer_list \ {f} \subseteq plgin_timer_list' 
    BY DEF Delete, Fire, FireEnd
<1>4. /\ early' \in Seq(Task)
      /\ \A i \in 1 .. Len(early') : instances'[kind'[early'[i].frame].tag] > 0
  <2>1. CASE early' = early
      BY <1>1, <2>1 DEF Types, Known
  <2>2. CASE FireEnd(f)
    <3>1. instances[kind[f].tag] > 0
        BY <2>2 DEF Known, FireEnd
    <3>2. \/ early' = early
          \/ early' = Append(early, [frame |-> f, instance |-> instance[f]])
        BY <2>2, PostEffect DEF FireEnd
    <3> QED  BY <1>1, <3>1, <3>2, EarlyKept
  <2> QED  BY <2>1, <2>2 DEF Delete, Fire
<1>5. Types'
  <2>1. timer' \in [Frames -> Timers]
      BY <1>2, Zenon DEF Types
  <2> QED  BY <1>1, <1>4, <2>1, Zenon DEF Types
<1>6. Stored'
    BY <1>1, <1>2, <1>3 DEF Stored, Types
<1>7. Threads'
    BY <1>1, ThreadsKept DEF threads
<1>8. Known'
    BY <1>1, <1>2, <1>4 DEF Known, Types
<1> QED  BY <1>5, <1>6, <1>7, <1>8

\* The steps that create threads change nothing about the frames.
LEMMA FramesKept ==
    ASSUME Types, Stored, Known,
           UNCHANGED <<kind, call, timer, plgin_timer_list, early>>,
           instances' \in [PluginIds -> 0 .. MaxInstances],
           \A id \in PluginIds : instances'[id] >= instances[id]
    PROVE  Stored' /\ Known'
<1>1. Stored'
    BY Zenon DEF Stored
<1>2. ASSUME NEW f \in Frames, instances[kind[f].tag] > 0
      PROVE  instances'[kind[f].tag] > 0
  <2>1. PICK id \in PluginIds : id = kind[f].tag
      BY TagType, Zenon
  <2>2. instances'[id] >= instances[id] /\ instances[id] \in 0 .. MaxInstances
        /\ instances'[id] \in 0 .. MaxInstances
      BY Zenon DEF Types
  <2> QED  BY <1>2, <2>1, <2>2, InstancesOK
<1>3. \A i \in 1 .. Len(early) : early[i].frame \in Frames
  <2>1. \A i \in 1 .. Len(early) : early[i] \in Task
      BY DEF Types
  <2> QED  BY <2>1 DEF Task
<1>4. Known'
    BY <1>2, <1>3 DEF Known
<1> QED  BY <1>1, <1>4

\* The threads are created, by a plugin or from the buffer, and closed.
LEMMA ThreadKeeps ==
    ASSUME IInv, NEW id \in PluginIds,
           CreateBegin(id) \/ CreateBuffered(id) \/ CloseThread(id)
    PROVE  IInv'
<1> USE DEF IInv, bufferVars, threadVars, lockVars, taskVars
<1>1. UNCHANGED <<kind, call, timer, instance, plgin_timer_list, early, todo, buffer>>
    BY DEF CreateBegin, CreateBuffered, CloseThread
<1>2. /\ plugin_work_thread_buffer_list' \subseteq plugin_work_thread_buffer_list
      /\ creating' \subseteq [id : PluginIds, at : {"logic", "buffer"}]
      /\ logic \subseteq logic' /\ logic' \subseteq PluginIds
    BY DEF CreateBegin, CreateBuffered, CloseThread, Types
<1>3. \/ UNCHANGED instances
      \/ instances' = [instances EXCEPT ![id] = @ + 1] /\ instances[id] < MaxInstances
    BY DEF CreateBegin, CreateBuffered, CloseThread, NewInstance
<1>4. /\ instances' \in [PluginIds -> 0 .. MaxInstances]
      /\ \A i \in PluginIds : instances'[i] >= instances[i]
  <2>1. instances \in [PluginIds -> 0 .. MaxInstances]
      BY DEF Types
  <2>2. CASE UNCHANGED instances
      BY <2>1, <2>2
  <2>3. CASE instances' = [instances EXCEPT ![id] = @ + 1] /\ instances[id] < MaxInstances
      BY <2>1, <2>3, InstancesOK
  <2> QED  BY <1>3, <2>2, <2>3
<1>5. plugin_work_thread_list' \in [PluginIds -> 0 .. MaxInstances]
  <2>1. /\ plugin_work_thread_list \in [PluginIds -> 0 .. MaxInstances]
        /\ instances[id] \in 0 .. MaxInstances
      BY DEF Types
  <2>2. \/ plugin_work_thread_list' = plugin_work_thread_list
        \/ plugin_work_thread_list' = [plugin_work_thread_list EXCEPT ![id] = 0]
        \/ /\ plugin_work_thread_list' = [plugin_work_thread_list EXCEPT ![id] = instances[id] + 1]
           /\ instances[id] < MaxInstances
      BY DEF CreateBegin, CreateBuffered, CloseThread, NewInstance
  <2> QED  BY <2>1, <2>2, InstancesOK
<1>6. Types'
    BY <1>1, <1>2, <1>4, <1>5, Zenon DEF Types
<1>7. Stored' /\ Known'
    BY <1>1, <1>4, FramesKept
<1>8. Threads'
  <2>1. CASE CreateBegin(id)
    <3>1. creating = {} /\ plugin_timer_mutex' = "create" /\ logic' = logic
        BY <2>1 DEF CreateBegin, Threads
    <3>2. PICK c : creating' = {c}
        BY <2>1, Zenon DEF CreateBegin
    <3>3. CASE module_init_finish
      <4>1. c = [id |-> id, at |-> "logic"] /\ NewInstance(id)
          BY <2>1, <3>2, <3>3 DEF CreateBegin
      <4>2. \A i \in PluginIds : instances'[i] > 0 => Created(i)'
          BY <3>1, <3>2, <4>1 DEF NewInstance, Threads, Types, Created
      <4>3. \A i \in PluginIds : plugin_work_thread_list'[i] # 0 => instances'[i] > 0
          BY <4>1 DEF NewInstance, Threads, Types
      <4> QED  BY <3>1, <3>2, <4>2, <4>3 DEF Threads
    <3>4. CASE ~module_init_finish
        BY <2>1, <3>1, <3>2, <3>4, Zenon DEF CreateBegin, Threads, Created
    <3> QED  BY <3>3, <3>4
  <2>2. CASE CreateBuffered(id)
    <3>1. UNCHANGED lockVars
        BY <2>2 DEF CreateBuffered
    <3>2. CASE NewInstance(id) /\ logic' = logic \cup {id}
      <4>1. \A i \in PluginIds : instances'[i] > 0 => Created(i)'
          BY <3>1, <3>2 DEF NewInstance, Threads, Types, Created
      <4>2. \A i \in PluginIds : plugin_work_thread_list'[i] # 0 => instances'[i] > 0
          BY <3>2 DEF NewInstance, Threads, Types
      <4> QED  BY <3>1, <4>1, <4>2, Zenon DEF Threads
    <3>3. CASE UNCHANGED <<plugin_work_thread_list, instances, logic>>
        BY <3>1, <3>3, Zenon DEF Threads, Created
    <3> QED  BY <2>2, <3>2, <3>3 DEF CreateBuffered
  <2>3. CASE CloseThread(id)
      BY <2>3 DEF CloseThread, Threads, Types, Created
  <2> QED  BY <2>1, <2>2, <2>3
<1> QED  BY <1>6, <1>7, <1>8

\* A creation ends.
LEMMA CreateEndKeeps ==
    ASSUME IInv, NEW c \in creating, CreateEnd(c)
    PROVE  IInv'
<1> USE DEF IInv, bufferVars, threadVars, lockVars, taskVars
<1>1. c.id \in PluginIds
    BY DEF Types
<1>2. Types'
    BY <1>1, Zenon DEF CreateEnd, Types
<1>3. Stored' /\ Known'
    BY DEF CreateEnd, Stored, Known
<1>4. Threads'
  <2>1. /\ logic \subseteq logic' /\ creating' = {}
        /\ c.at = "logic" => c.id \in logic'
        /\ UNCHANGED <<plugin_work_thread_list, instances>>
      BY DEF CreateEnd
  <2>2. \A d \in creating : d = c
      BY DEF Threads
  <2> QED  BY <2>1, <2>2 DEF Threads, Created
<1> QED  BY <1>2, <1>3, <1>4

\* The other steps of the main thread and of the worker threads.
LEMMA MainKeeps ==
    ASSUME IInv,
           UNCHANGED <<kind, call, timer, instance, plgin_timer_list,
                       plugin_work_thread_buffer_list, plugin_work_thread_list,
                       instances, logic, lockVars>>,
           early' = early \/ (early # <<>> /\ early' = Tail(early)),
           todo' \in Seq(Frames), buffer' \in [message : Seq(Frames), func : Seq(Frames)]
    PROVE  IInv'
<1> USE DEF IInv, lockVars
<1>0. early \in Seq(Task)
    BY DEF Types
<1>1. /\ early' \in Seq(Task)
      /\ \A i \in 1 .. Len(early') : \E j \in 1 .. Len(early) : early'[i] = early[j]
  <2>1. CASE early' = early
      BY <1>0, <2>1, Zenon
  <2>2. CASE early # <<>> /\ early' = Tail(early)
    <3>1. /\ early' \in Seq(Task)
          /\ \A i \in DOMAIN early' : i + 1 \in DOMAIN early /\ early'[i] = early[i + 1]
        BY <1>0, <2>2, OtherTasks, Zenon
    <3>2. DOMAIN early = 1 .. Len(early) /\ DOMAIN early' = 1 .. Len(early')
        BY <1>0, <3>1
    <3> QED  BY <3>1, <3>2, Zenon
  <2> QED  BY <2>1, <2>2
<1>2. Types'
    BY <1>1 DEF Types
<1>3. Stored' /\ Threads'
    BY DEF Stored, Threads, Created
<1>4. Known'
    BY <1>1, Zenon DEF Known
<1> QED  BY <1>2, <1>3, <1>4

\* Every step keeps the invariant.
LEMMA NextKeeps == IInv /\ [Next]_vars => IInv'
<1> SUFFICES ASSUME IInv, [Next]_vars PROVE IInv'
    OBVIOUS
<1> USE DEF bufferVars, threadVars, lockVars, taskVars, history
<1>1. /\ todo \in Seq(Frames)
      /\ buffer \in [message : Seq(Frames), func : Seq(Frames)]
    BY DEF IInv, Types
<1>2. ASSUME NEW f \in Frames,
             Send(f) \/ SendEarly(f) \/ SendOn(f) \/ Delete(f) \/ TimerThread(f)
      PROVE  IInv'
  <2>1. CASE Send(f)
      BY <2>1, FindKeeps DEF Send
  <2>2. CASE SendEarly(f) \/ SendBuffer(f)
      BY <2>2, SendEarlyKeeps
  <2>3. CASE SendPost(f)
      BY <2>3, SendPostKeeps
  <2>4. CASE SendArm(f) \/ SendStore(f)
      BY <2>4, SendDelayedKeeps
  <2>5. CASE Delete(f) \/ Fire(f) \/ FireEnd(f)
      BY <2>5, TimerKeeps
  <2> QED  BY <1>2, <2>1, <2>2, <2>3, <2>4, <2>5 DEF SendOn, TimerThread
<1>3. ASSUME NEW id \in PluginIds,
             CreateBegin(id) \/ CloseThread(id) \/ CreateBuffered(id)
      PROVE  IInv'
    BY <1>3, ThreadKeeps
<1>4. ASSUME NEW id \in PluginIds, Work(id)
      PROVE  IInv'
    BY <1>1, <1>4, MainKeeps DEF Work
<1>5. ASSUME NEW c \in creating, CreateEnd(c)
      PROVE  IInv'
    BY <1>5, CreateEndKeeps
<1>6. CASE LoadEnd \/ CloseTimer \/ CloseModules \/ CloseTms
    BY <1>1, <1>6, MainKeeps, Zenon DEF LoadEnd, CloseTimer, CloseModules, CloseTms
<1>7. CASE Start \/ StartNext
  <2>1. CASE Start
      BY <1>1, <2>1, MainKeeps, Zenon DEF Start
  <2>2. CASE StartNext
    <3>1. todo' \in Seq(Frames)
        BY <1>1, <2>2, Zenon DEF StartNext
    <3> QED  BY <1>1, <2>2, <3>1, MainKeeps, Zenon DEF StartNext
  <2> QED  BY <1>7, <2>1, <2>2
<1>8. CASE Replay
  <2>1. Head(todo) \in Frames
      BY <1>1, <1>8 DEF Replay
  <2> QED  BY <1>8, <2>1, FindKeeps DEF Replay
<1>9. CASE ReplayNext
  <2>1. /\ todo' \in Seq(Frames)
        /\ buffer' \in [message : Seq(Frames), func : Seq(Frames)]
    <3>1. CASE todo # <<>>
        BY <1>1, <1>9, <3>1 DEF ReplayNext
    <3>2. CASE todo = <<>>
      <4>1. <<>> \in Seq(Frames)
          OBVIOUS
      <4> QED  BY <1>1, <1>9, <3>2, <4>1, Zenon DEF ReplayNext
    <3> QED  BY <3>1, <3>2
  <2> QED  BY <1>9, <2>1, MainKeeps DEF ReplayNext
<1>10. CASE UNCHANGED vars
    BY <1>1, <1>10, MainKeeps DEF vars
<1> QED  BY <1>2, <1>3, <1>4, <1>5, <1>6, <1>7, <1>8, <1>9, <1>10 DEF Next, InitMain

\* The invariant holds at all times.
LEMMA InvariantHolds == Spec => []IInv
<1>1. Init => IInv
    BY InitHolds
<1>2. IInv /\ [Next]_vars => IInv'
    BY NextKeeps
<1> QED  BY <1>1, <1>2, PTL DEF Spec

\* An armed timer whose call has returned is found by
\* delete_frame_message_timer, although its id is stored after it was armed.
THEOREM ArmedIsListedHolds == Spec => []ArmedIsListed
<1>1. IInv => ArmedIsListed
    BY DEF IInv, Stored, ArmedIsListed
<1> QED  BY <1>1, InvariantHolds, PTL

\* A step refuses a task only while the task's thread is being created.
LEMMA RefusedStep ==
    ASSUME IInv, [Next]_vars, dropped' # dropped
    PROVE  \E c \in creating : c.at = "logic"
<1> USE DEF bufferVars, threadVars, lockVars, taskVars, history
<1>1. ASSUME NEW f \in Frames, instances[kind[f].tag] > 0, kind[f].tag \notin logic
      PROVE  \E c \in creating : c.at = "logic"
    BY <1>1, TagType DEF IInv, Threads, Created
<1>2. ASSUME NEW f \in Frames, SendPost(f) \/ FireEnd(f)
      PROVE  \E c \in creating : c.at = "logic"
  <2>1. instances[kind[f].tag] > 0
      BY <1>2 DEF IInv, Known, SendPost, FireEnd
  <2>2. kind[f].tag \notin logic
      BY <1>2, PostEffect, Zenon DEF IInv, SendPost, FireEnd
  <2> QED  BY <1>1, <2>1, <2>2
<1>3. CASE StartNext
  <2>1. early # <<>> /\ Deliver(Head(early))
      BY <1>3, Zenon DEF StartNext
  <2>2. /\ Head(early) = early[1] /\ 1 \in 1 .. Len(early)
        /\ early[1].frame \in Frames
      BY <2>1, FirstTask, Zenon DEF IInv, Types
  <2>3. kind[early[1].frame].tag \notin logic
      BY <2>1, <2>2, Zenon DEF Deliver
  <2>4. instances[kind[early[1].frame].tag] > 0
      BY <2>2 DEF IInv, Known
  <2> QED  BY <1>1, <2>2, <2>3, <2>4
<1>4. ASSUME NEW f \in Frames,
             Send(f) \/ SendEarly(f) \/ SendBuffer(f) \/ SendArm(f) \/ SendStore(f)
               \/ Delete(f) \/ Fire(f)
      PROVE  dropped' = dropped
  <2>1. Send(f) => dropped' = dropped
      BY Zenon DEF Send, Find
  <2>2. SendEarly(f) => dropped' = dropped
      BY Zenon DEF SendEarly
  <2>3. SendBuffer(f) => dropped' = dropped
      BY Zenon DEF SendBuffer
  <2>4. SendArm(f) => dropped' = dropped
      BY Zenon DEF SendArm
  <2>5. SendStore(f) => dropped' = dropped
      BY Zenon DEF SendStore
  <2>6. Delete(f) => dropped' = dropped
      BY Zenon DEF Delete
  <2>7. Fire(f) => dropped' = dropped
      BY Zenon DEF Fire
  <2> QED  BY <1>4, <2>1, <2>2, <2>3, <2>4, <2>5, <2>6, <2>7, Zenon
<1>5. ASSUME NEW id \in PluginIds,
             CreateBegin(id) \/ CloseThread(id) \/ Work(id) \/ CreateBuffered(id)
      PROVE  dropped' = dropped
    BY <1>5, Zenon DEF CreateBegin, CloseThread, Work, CreateBuffered
<1>6. ASSUME NEW c \in creating, CreateEnd(c)
      PROVE  dropped' = dropped
    BY <1>6 DEF CreateEnd
<1>7. CASE LoadEnd \/ Start \/ Replay \/ ReplayNext \/ CloseTimer \/ CloseModules \/ CloseTms
    BY <1>7 DEF LoadEnd, Start, Replay, Find, ReplayNext, CloseTimer, CloseModules, CloseTms
<1>8. CASE UNCHANGED vars
    BY <1>8 DEF vars
<1> QED  BY <1>2, <1>3, <1>4, <1>5, <1>6, <1>7, <1>8
         DEF Next, SendOn, TimerThread, InitMain

\* Tms refuses a task only while create_frame_work_thread is between the entry
\* in plugin_work_thread_list_ and the thread.
THEOREM RefusedWhileCreatedHolds == Spec => RefusedWhileCreated
<1>1. IInv /\ [Next]_vars
      => [dropped' # dropped => \E c \in creating : c.at = "logic"]_vars
    BY RefusedStep
<1> QED  BY <1>1, InvariantHolds, PTL DEF Spec, RefusedWhileCreated

----------------------------------------------------------------------------
\* Where init_service stands, what the list of threads holds and who has the
\* mutex.
Phases == {"load", "threads", "start", "messages", "funcs", "up", "timerClosed",
           "close", "over"}
Control ==
    /\ main \in Phases
    /\ module_init_finish = (main # "load")
    /\ closedIds \subseteq PluginIds
    /\ \A id \in PluginIds : plugin_work_thread_list[id] \in {0, instances[id]}
    /\ plugin_timer_mutex \in {"free", "create"} \cup Frames
    /\ (plugin_timer_mutex = "create") = (creating # {})

\* What a frame went through before it was given to tms: a call without a
\* delay, or a timer, which fired or was deleted.
Flow ==
    \A f \in Frames :
        /\ call[f] = "post" => ~kind[f].delayed
        /\ call[f] \in {"found", "armed"} => kind[f].delayed
        /\ timer[f] # "none" => kind[f].delayed /\ call[f] \in {"armed", "true"}
        /\ f \in deleted => timer[f] = "cancelled"
Given(f) == timer[f] = "over" \/ (call[f] = "true" /\ ~kind[f].delayed)

\* Where a frame is that was given to tms: its tasks are in the queue of its
\* own thread.
Met(f) == Waiting(f) \/ f \in ran \cup dropped
Places ==
    /\ queue \in [PluginIds -> Seq(Task)]
    /\ plgin_timer_list \cup ran \cup dropped \cup deleted \subseteq Frames
    /\ Once(early) /\ \A id \in PluginIds : Once(queue[id])
    /\ \A f \in Frames, id \in PluginIds :
           Holds(queue[id], f) => kind[f].tag = id /\ ~Holds(early, f)
    /\ \A f \in Frames : Waiting(f) => f \notin ran \cup dropped
    /\ ran \cap dropped = {}
    /\ \A f \in Frames : Met(f) => Given(f)

HInv == Control /\ Flow /\ Places

\* It holds at the start.
LEMMA HInit == Init => HInv
<1> SUFFICES ASSUME Init PROVE HInv
    OBVIOUS
<1>1. Control
  <2>1. /\ main = "load" /\ module_init_finish = FALSE /\ closedIds = {}
        /\ plugin_work_thread_list = [id \in PluginIds |-> 0]
        /\ plugin_timer_mutex = "free" /\ creating = {}
      BY Zenon DEF Init
  <2>2. main \in Phases /\ ~(main # "load") /\ plugin_timer_mutex # "create"
      BY <2>1 DEF Phases
  <2> QED  BY <2>1, <2>2, Zenon DEF Control
<1>2. Flow
    BY DEF Init, Flow
<1>3. Places
  <2>1. \A f : ~Holds(<<>>, f)
      BY DEF Holds
  <2>2. Once(<<>>) /\ <<>> \in Seq(Task)
      BY DEF Once
  <2> QED  BY <2>1, <2>2 DEF Init, Places, Waiting, Met
<1> QED  BY <1>1, <1>2, <1>3 DEF HInv

\* The steps of a frame do not change what init_service and the threads do.
LEMMA ControlKept ==
    ASSUME Control,
           UNCHANGED <<main, module_init_finish, closedIds, plugin_work_thread_list,
                       instances, lockVars>>
    PROVE  Control'
BY Zenon DEF Control, lockVars

\* Every step keeps Control: a call that holds plugin_timer_mutex_ creates a
\* thread, and the list has the newest instance.
LEMMA ControlKeeps ==
    ASSUME IInv, Control, [Next]_vars
    PROVE  Control'
<1> USE DEF bufferVars, threadVars, lockVars, taskVars, history
<1>1. ASSUME NEW f \in Frames,
             Send(f) \/ SendEarly(f) \/ SendBuffer(f) \/ SendPost(f) \/ SendArm(f)
               \/ Delete(f) \/ Fire(f) \/ FireEnd(f)
      PROVE  Control'
  <2>1. Send(f) => Control'
      BY ControlKept, Zenon DEF Send
  <2>2. SendEarly(f) => Control'
      BY ControlKept, Zenon DEF SendEarly
  <2>3. SendBuffer(f) => Control'
      BY ControlKept, Zenon DEF SendBuffer
  <2>4. SendPost(f) => Control'
      BY ControlKept, Zenon DEF SendPost
  <2>5. SendArm(f) => Control'
      BY ControlKept, Zenon DEF SendArm
  <2>6. Delete(f) => Control'
      BY ControlKept, Zenon DEF Delete
  <2>7. Fire(f) => Control'
      BY ControlKept, Zenon DEF Fire
  <2>8. FireEnd(f) => Control'
      BY ControlKept, Zenon DEF FireEnd
  <2> QED  BY <1>1, <2>1, <2>2, <2>3, <2>4, <2>5, <2>6, <2>7, <2>8, Zenon
<1>2. ASSUME NEW f \in Frames, SendStore(f)
      PROVE  Control'
  <2>1. /\ UNCHANGED <<main, module_init_finish, closedIds, plugin_work_thread_list,
                       instances, creating>>
        /\ plugin_timer_mutex \in {"free", f} /\ plugin_timer_mutex' = "free"
      BY <1>2, Zenon DEF SendStore
  <2>2. plugin_timer_mutex # "create" /\ plugin_timer_mutex' # "create"
      BY <2>1, FramesOK
  <2>3. (plugin_timer_mutex' = "create") = (creating' # {})
      BY <2>1, <2>2, Zenon DEF Control
  <2> QED  BY <2>1, <2>3, Zenon DEF Control
<1>3. ASSUME NEW id \in PluginIds, CreateBegin(id) \/ CreateBuffered(id) \/ CloseThread(id)
      PROVE  Control'
  <2>1. UNCHANGED <<main, module_init_finish>> /\ closedIds' \subseteq closedIds \cup {id}
      BY <1>3 DEF CreateBegin, CreateBuffered, CloseThread
  <2>2. /\ (plugin_timer_mutex' = "create") = (creating' # {})
        /\ plugin_timer_mutex' \in {"free", "create"} \cup Frames
    <3>1. CASE CreateBegin(id)
      <4>1. PICK c : plugin_timer_mutex' = "create" /\ creating' = {c}
          BY <3>1, Zenon DEF CreateBegin
      <4>2. creating' # {}
          BY <4>1
      <4> QED  BY <4>1, <4>2, Zenon
    <3>2. CASE UNCHANGED lockVars
        BY <3>2, Zenon DEF Control
    <3> QED  BY <1>3, <3>1, <3>2, Zenon DEF CreateBuffered, CloseThread
  <2>3. \A i \in PluginIds : plugin_work_thread_list'[i] \in {0, instances'[i]}
    <3>1. /\ instances \in [PluginIds -> 0 .. MaxInstances]
          /\ plugin_work_thread_list \in [PluginIds -> 0 .. MaxInstances]
          /\ \A i \in PluginIds : plugin_work_thread_list[i] \in {0, instances[i]}
        BY Zenon DEF IInv, Types, Control
    <3>2. \/ UNCHANGED <<instances, plugin_work_thread_list>>
          \/ /\ instances' = [instances EXCEPT ![id] = @ + 1]
             /\ plugin_work_thread_list' = [plugin_work_thread_list EXCEPT ![id] = instances[id] + 1]
          \/ /\ instances' = instances
             /\ plugin_work_thread_list' = [plugin_work_thread_list EXCEPT ![id] = 0]
        BY <1>3, Zenon DEF CreateBegin, CreateBuffered, CloseThread, NewInstance
    <3> QED  BY <3>1, <3>2
  <2> QED  BY <2>1, <2>2, <2>3, Zenon DEF Control
<1>4. ASSUME NEW c \in creating, CreateEnd(c)
      PROVE  Control'
  <2>1. /\ UNCHANGED <<main, module_init_finish, closedIds, plugin_work_thread_list, instances>>
        /\ plugin_timer_mutex' = "free" /\ creating' = {}
      BY <1>4, Zenon DEF CreateEnd
  <2>2. plugin_timer_mutex' # "create" /\ ~(creating' # {})
      BY <2>1
  <2> QED  BY <2>1, <2>2, Zenon DEF Control
<1>5. ASSUME NEW id \in PluginIds, Work(id)
      PROVE  Control'
    BY <1>5, ControlKept, Zenon DEF Work
<1>6. CASE LoadEnd
  <2>1. main = "load" /\ main' = "threads" /\ module_init_finish' = TRUE
      BY <1>6, Zenon DEF LoadEnd
  <2>2. UNCHANGED <<closedIds, plugin_work_thread_list, instances, lockVars>>
      BY <1>6, Zenon DEF LoadEnd
  <2>3. main' \in Phases /\ main' # "load"
      BY <2>1 DEF Phases
  <2> QED  BY <2>1, <2>2, <2>3, Zenon DEF Control
<1>7. CASE Replay
    BY <1>7, ControlKept, Zenon DEF Replay
<1>8. CASE Start \/ StartNext \/ ReplayNext \/ CloseTimer \/ CloseModules \/ CloseTms
  <2>1. /\ main # "load" /\ main' # "load" /\ main' \in Phases
    <3>1. Start => main = "threads" /\ main' = "start"
        BY Zenon DEF Start
    <3>2. StartNext => main = "start" /\ main' \in {"start", "messages"}
        BY Zenon DEF StartNext
    <3>3. ReplayNext => main \in {"messages", "funcs"} /\ main' \in {"messages", "funcs", "up"}
        BY Zenon DEF ReplayNext
    <3>4. CloseTimer \/ CloseModules \/ CloseTms
          => main \in {"up", "timerClosed", "close"} /\ main' \in {"timerClosed", "close", "over"}
        BY Zenon DEF CloseTimer, CloseModules, CloseTms
    <3> QED  BY <1>8, <3>1, <3>2, <3>3, <3>4 DEF Phases
  <2>2. UNCHANGED <<module_init_finish, closedIds, plugin_work_thread_list, instances, lockVars>>
      BY <1>8, Zenon DEF Start, StartNext, ReplayNext, CloseTimer, CloseModules, CloseTms
  <2>3. module_init_finish' = (main' # "load")
      BY <2>1, <2>2, Zenon DEF Control
  <2> QED  BY <2>1, <2>2, <2>3, Zenon DEF Control
<1>9. CASE UNCHANGED vars
    BY <1>9, ControlKept, Zenon DEF vars
<1> QED  BY <1>1, <1>2, <1>3, <1>4, <1>5, <1>6, <1>7, <1>8, <1>9
         DEF Next, SendOn, TimerThread, InitMain

----------------------------------------------------------------------------
\* One frame goes on: Flow is kept, and what was given to tms stays given.
LEMMA FlowOf ==
    ASSUME Types, Flow, NEW f \in Frames, NEW v, NEW w,
           call' = [call EXCEPT ![f] = v], timer' = [timer EXCEPT ![f] = w],
           kind' = kind, deleted' \subseteq deleted \cup {f},
           v = "post" => ~kind[f].delayed,
           v \in {"found", "armed"} => kind[f].delayed,
           w # "none" => kind[f].delayed /\ v \in {"armed", "true"},
           f \in deleted' => w = "cancelled",
           Given(f) => w = "over" \/ (v = "true" /\ ~kind[f].delayed)
    PROVE  Flow' /\ \A g \in Frames : Given(g) => Given(g)'
<1>1. /\ call'[f] = v /\ timer'[f] = w
      /\ \A g \in Frames : g # f => /\ call'[g] = call[g] /\ timer'[g] = timer[g]
                                    /\ g \in deleted' => g \in deleted
    BY DEF Types
<1>2. Flow'
    BY <1>1, Zenon DEF Flow
<1>3. ASSUME NEW g \in Frames, Given(g)
      PROVE  Given(g)'
    BY <1>1, <1>3, Zenon DEF Given
<1> QED  BY <1>2, <1>3, Zenon

\* The steps of a frame that post nothing.
Sends(f) ==
    \/ Send(f) \/ (Replay /\ f = Head(todo)) \/ SendEarly(f) \/ SendBuffer(f)
    \/ SendArm(f) \/ SendStore(f)

\* The steps of a frame: do_frame_message, the call and its timer.
LEMMA FlowSends ==
    ASSUME Types, Flow, NEW f \in Frames, Sends(f) \/ SendPost(f)
    PROVE  /\ Flow' /\ \A g \in Frames : Given(g) => Given(g)'
           /\ SendPost(f) => ~Given(f) /\ Given(f)'
<1> USE DEF bufferVars, threadVars, lockVars, taskVars, history
<1>1. UNCHANGED <<kind, deleted>>
    BY Zenon DEF Sends, Send, Replay, SendEarly, SendBuffer, SendPost, SendArm, SendStore
<1>2. /\ call' = [call EXCEPT ![f] = call'[f]] /\ timer' = [timer EXCEPT ![f] = timer'[f]]
      /\ \/ /\ call[f] \in {"none", "early", "buffered", "late"} /\ timer'[f] = timer[f]
            /\ call'[f] \in {"false", "early", "late", "buffered", "found", "post"}
            /\ call'[f] = "found" => kind[f].delayed
            /\ call'[f] = "post" => ~kind[f].delayed
         \/ call[f] = "post" /\ call'[f] = "true" /\ timer'[f] = timer[f]
         \/ call[f] = "found" /\ call'[f] = "armed" /\ timer'[f] = "armed"
         \/ call[f] = "armed" /\ call'[f] = "true" /\ timer'[f] = timer[f]
  <2>0. /\ call \in [Frames -> Calls] /\ timer \in [Frames -> Timers]
      BY Zenon DEF Types
  <2>1. CASE Send(f) \/ (Replay /\ f = Head(todo))
    <3>1. Find(f) /\ timer' = timer /\ call[f] \in {"none", "buffered", "late"}
        BY <2>1, Zenon DEF Send, Replay
    <3>2. PICK v \in {"false", "found", "post"} :
              /\ call' = [call EXCEPT ![f] = v]
              /\ v = "found" => kind[f].delayed
              /\ v = "post" => ~kind[f].delayed
        BY <3>1, Zenon DEF Find
    <3> QED  BY <2>0, <3>1, <3>2
  <2>2. CASE SendEarly(f) \/ SendBuffer(f)
    <3>1. timer' = timer /\ call[f] \in {"none", "early"}
        BY <2>2, Zenon DEF SendEarly, SendBuffer
    <3>2. PICK v \in {"early", "late", "buffered"} : call' = [call EXCEPT ![f] = v]
        BY <2>2, Zenon DEF SendEarly, SendBuffer
    <3> QED  BY <2>0, <3>1, <3>2
  <2>3. CASE SendPost(f)
    <3>1. timer' = timer /\ call[f] = "post" /\ call' = [call EXCEPT ![f] = "true"]
        BY <2>3, Zenon DEF SendPost
    <3> QED  BY <2>0, <3>1
  <2>4. CASE SendArm(f)
    <3>1. /\ timer' = [timer EXCEPT ![f] = "armed"]
          /\ call[f] = "found" /\ call' = [call EXCEPT ![f] = "armed"]
        BY <2>4, Zenon DEF SendArm
    <3> QED  BY <2>0, <3>1
  <2>5. CASE SendStore(f)
    <3>1. timer' = timer /\ call[f] = "armed" /\ call' = [call EXCEPT ![f] = "true"]
        BY <2>5, Zenon DEF SendStore
    <3> QED  BY <2>0, <3>1
  <2> QED  BY <2>1, <2>2, <2>3, <2>4, <2>5, Zenon DEF Sends
<1>3. /\ call[f] = "post" => ~kind[f].delayed
      /\ call[f] \in {"found", "armed"} => kind[f].delayed
      /\ timer[f] # "none" => kind[f].delayed /\ call[f] \in {"armed", "true"}
      /\ f \in deleted => timer[f] = "cancelled"
    BY Zenon DEF Flow
<1>4. /\ call'[f] = "post" => ~kind[f].delayed
      /\ call'[f] \in {"found", "armed"} => kind[f].delayed
      /\ timer'[f] # "none" => kind[f].delayed /\ call'[f] \in {"armed", "true"}
      /\ f \in deleted' => timer'[f] = "cancelled"
      /\ Given(f) => timer'[f] = "over" \/ (call'[f] = "true" /\ ~kind[f].delayed)
    BY <1>1, <1>2, <1>3 DEF Given
<1>5. Flow' /\ \A g \in Frames : Given(g) => Given(g)'
  <2>1. PICK v, w : v = call'[f] /\ w = timer'[f]
      BY Zenon
  <2>2. deleted' \subseteq deleted \cup {f}
      BY <1>1
  <2> QED  BY <1>1, <1>2, <1>4, <2>1, <2>2, FlowOf, Zenon
<1>6. SendPost(f) => ~Given(f) /\ Given(f)'
  <2>1. SendPost(f) => call[f] = "post"
      BY Zenon DEF SendPost
  <2> QED  BY <1>1, <1>2, <1>3, <2>1 DEF Given
<1> QED  BY <1>5, <1>6

\* delete_frame_message_timer and the timer thread.
LEMMA FlowTimers ==
    ASSUME Types, Flow, NEW f \in Frames, Delete(f) \/ Fire(f) \/ FireEnd(f)
    PROVE  /\ Flow' /\ \A g \in Frames : Given(g) => Given(g)'
           /\ FireEnd(f) => ~Given(f) /\ Given(f)'
<1> USE DEF bufferVars, threadVars, lockVars, taskVars, history
<1>1. /\ UNCHANGED <<kind, call>>
      /\ \/ UNCHANGED <<timer, deleted>>
         \/ /\ timer[f] = "armed" /\ timer' = [timer EXCEPT ![f] = "cancelled"]
            /\ deleted' = deleted \cup {f} /\ ~FireEnd(f)
         \/ /\ timer[f] = "armed" /\ timer' = [timer EXCEPT ![f] = "firing"]
            /\ deleted' = deleted /\ ~FireEnd(f)
         \/ /\ timer[f] = "firing" /\ timer' = [timer EXCEPT ![f] = "over"]
            /\ deleted' = deleted
    BY DEF Delete, Fire, FireEnd
<1>2. CASE UNCHANGED <<timer, deleted>>
  <2>1. ~FireEnd(f)
      BY <1>2 DEF FireEnd, Types
  <2> QED  BY <1>1, <1>2, <2>1, Zenon DEF Flow, Given
<1>3. ASSUME NEW w \in {"cancelled", "firing", "over"}, timer[f] \in {"armed", "firing"},
             timer' = [timer EXCEPT ![f] = w], deleted' \subseteq deleted \cup {f},
             deleted' = deleted \/ w = "cancelled"
      PROVE  Flow' /\ \A g \in Frames : Given(g) => Given(g)'
  <2>1. PICK v : v = call[f]
      BY Zenon
  <2>2. call' = [call EXCEPT ![f] = v]
      BY <1>1, <2>1 DEF Types
  <2>3. /\ kind[f].delayed /\ v \in {"armed", "true"} /\ v # "post" /\ f \notin deleted
        /\ ~Given(f)
      BY <1>3, <2>1, Zenon DEF Flow, Given
  <2>4. f \in deleted' => w = "cancelled"
      BY <1>3, <2>3, Zenon
  <2> QED  BY <1>1, <1>3, <2>2, <2>3, <2>4, FlowOf, Zenon
<1>4. Flow' /\ \A g \in Frames : Given(g) => Given(g)'
    BY <1>1, <1>2, <1>3, Zenon
<1>5. FireEnd(f) => ~Given(f) /\ Given(f)'
  <2> SUFFICES ASSUME FireEnd(f) PROVE ~Given(f) /\ Given(f)'
      OBVIOUS
  <2>1. timer[f] = "firing" /\ timer' = [timer EXCEPT ![f] = "over"]
      BY Zenon DEF FireEnd
  <2>2. kind[f].delayed /\ timer'[f] = "over"
      BY <2>1 DEF Flow, Types
  <2> QED  BY <2>1, <2>2, Zenon DEF Given
<1> QED  BY <1>4, <1>5, Zenon

----------------------------------------------------------------------------
\* What a task added at the end does to those that wait.
LEMMA AppendHolds ==
    ASSUME NEW s \in Seq(Task), NEW t \in Task
    PROVE  /\ Append(s, t) \in Seq(Task)
           /\ \A f : Holds(Append(s, t), f) <=> Holds(s, f) \/ f = t.frame
           /\ Once(s) /\ ~Holds(s, t.frame) => Once(Append(s, t))
<1> DEFINE u == Append(s, t)
<1>1. /\ u \in Seq(Task) /\ Len(u) = Len(s) + 1 /\ Len(s) \in Nat
      /\ DOMAIN s = 1 .. Len(s) /\ DOMAIN u = 1 .. Len(u)
    OBVIOUS
<1>2. u[Len(s) + 1] = t /\ \A i \in 1 .. Len(s) : u[i] = s[i]
    OBVIOUS
<1> HIDE DEF u
<1>3. \A i \in DOMAIN u : (i \in DOMAIN s /\ u[i] = s[i]) \/ (i = Len(s) + 1 /\ u[i] = t)
    BY <1>1, <1>2
<1>4. /\ \A i \in DOMAIN s : i \in DOMAIN u /\ u[i] = s[i]
      /\ Len(s) + 1 \in DOMAIN u
    BY <1>1, <1>2
<1>5. \A f : Holds(u, f) <=> Holds(s, f) \/ f = t.frame
    BY <1>2, <1>3, <1>4, Zenon DEF Holds
<1>6. ASSUME Once(s), ~Holds(s, t.frame)
      PROVE  Once(u)
    BY <1>3, <1>6, Zenon DEF Once, Holds
<1> QED  BY <1>1, <1>5, <1>6 DEF u

\* What remains when the first task is taken.
LEMMA TailHolds ==
    ASSUME NEW s \in Seq(Task), s # <<>>, Once(s)
    PROVE  /\ Tail(s) \in Seq(Task) /\ Once(Tail(s)) /\ Holds(s, Head(s).frame)
           /\ \A f : Holds(Tail(s), f) <=> Holds(s, f) /\ f # Head(s).frame
<1> DEFINE u == Tail(s)
<1>1. Head(s) = s[1] /\ 1 \in DOMAIN s /\ DOMAIN s = 1 .. Len(s)
    BY FirstTask, Zenon
<1>2. /\ u \in Seq(Task)
      /\ \A i \in DOMAIN u : i + 1 \in DOMAIN s /\ u[i] = s[i + 1]
      /\ \A i \in DOMAIN s : i # 1 => i - 1 \in DOMAIN u /\ u[i - 1] = s[i]
    BY OtherTasks, Zenon
<1>3. \A i \in DOMAIN u : i \in Nat \ {0}
    BY <1>2
<1> HIDE DEF u
<1>4. \A i \in DOMAIN u : i + 1 # 1
    BY <1>3
<1>5. Once(u)
  <2> SUFFICES ASSUME NEW i \in DOMAIN u, NEW j \in DOMAIN u, u[i].frame = u[j].frame
               PROVE  i = j
      BY Zenon DEF Once
  <2>1. PICK k \in DOMAIN s, l \in DOMAIN s :
            k = i + 1 /\ l = j + 1 /\ u[i] = s[k] /\ u[j] = s[l]
      BY <1>2, Zenon
  <2>2. k = l
      BY <2>1, Zenon DEF Once
  <2> QED  BY <1>3, <2>1, <2>2
<1>6. ASSUME NEW f, Holds(u, f)
      PROVE  Holds(s, f) /\ f # Head(s).frame
  <2>1. PICK i \in DOMAIN u : u[i].frame = f
      BY <1>6, Zenon DEF Holds
  <2>2. PICK k \in DOMAIN s : k # 1 /\ s[k].frame = f
      BY <1>2, <1>4, <2>1, Zenon
  <2>3. f = s[1].frame => k = 1
      BY <1>1, <2>2, Zenon DEF Once
  <2> QED  BY <1>1, <2>2, <2>3, Zenon DEF Holds
<1>7. \A f : Holds(s, f) /\ f # Head(s).frame => Holds(u, f)
    BY <1>1, <1>2, Zenon DEF Holds
<1>8. Holds(s, Head(s).frame)
    BY <1>1, Zenon DEF Holds
<1> QED  BY <1>2, <1>5, <1>6, <1>7, <1>8, Zenon DEF u

\* A step that moves no task keeps the places.
LEMMA PlacesKept ==
    ASSUME Places, UNCHANGED <<early, queue, ran, dropped, kind>>,
           \A f \in Frames : Given(f) => Given(f)',
           plgin_timer_list' \cup deleted' \subseteq Frames
    PROVE  Places'
<1>1. /\ \A f \in Frames : Waiting(f)' <=> Waiting(f)
      /\ \A f \in Frames : Met(f)' <=> Met(f)
    BY DEF Waiting, Met
<1>2. plgin_timer_list' \cup ran' \cup dropped' \cup deleted' \subseteq Frames
    BY DEF Places
<1>3. \A f \in Frames : Met(f)' => Given(f)'
    BY <1>1, Zenon DEF Places
<1>4. \A f \in Frames : Waiting(f)' => f \notin ran' \cup dropped'
    BY <1>1, Zenon DEF Places
<1> QED  BY <1>2, <1>3, <1>4, Zenon DEF Places

\* A task moves: it may leave early or the front of a queue, and come to the end
\* of the queue of its thread, be kept, run or be refused.  It is in one place.
LEMMA Moved ==
    ASSUME Types, Places, NEW f \in Frames, UNCHANGED kind,
           plgin_timer_list' \cup deleted' \subseteq Frames,
           queue' \in [PluginIds -> Seq(Task)], Once(early'),
           \A id \in PluginIds : Once(queue'[id]),
           \A g \in Frames : g # f => (Holds(early', g) <=> Holds(early, g)),
           \A g \in Frames, id \in PluginIds :
               g # f => (Holds(queue'[id], g) <=> Holds(queue[id], g)),
           ran \subseteq ran' /\ ran' \subseteq ran \cup {f},
           dropped \subseteq dropped' /\ dropped' \subseteq dropped \cup {f},
           \A id \in PluginIds :
               Holds(queue'[id], f) => kind[f].tag = id /\ ~Holds(early', f),
           Holds(early', f) \/ (\E id \in PluginIds : Holds(queue'[id], f))
               => f \notin ran' \cup dropped',
           f \notin ran' \/ f \notin dropped',
           \A g \in Frames : Given(g) => Given(g)', Given(f)'
    PROVE  Places'
<1>1. \A g \in Frames : g # f => /\ Waiting(g)' <=> Waiting(g)
                                 /\ g \in ran' <=> g \in ran
                                 /\ g \in dropped' <=> g \in dropped
  <2> TAKE g \in Frames
  <2> HAVE g # f
  <2>1. (g \in ran' <=> g \in ran) /\ (g \in dropped' <=> g \in dropped)
      OBVIOUS
  <2>2. Holds(early', g) <=> Holds(early, g)
      BY Zenon
  <2>3. \A id \in PluginIds : Holds(queue'[id], g) <=> Holds(queue[id], g)
      BY Zenon
  <2>4. Waiting(g)' <=> Waiting(g)
      BY <2>2, <2>3, Zenon DEF Waiting
  <2> QED  BY <2>1, <2>4, Zenon
<1>2. plgin_timer_list' \cup ran' \cup dropped' \cup deleted' \subseteq Frames
    BY Zenon DEF Places
<1>3. \A g \in Frames, id \in PluginIds :
          Holds(queue'[id], g) => kind'[g].tag = id /\ ~Holds(early', g)
  <2> TAKE g \in Frames, id \in PluginIds
  <2>1. CASE g = f
      BY <2>1, Zenon
  <2>2. CASE g # f
      BY <2>2, Zenon DEF Places
  <2> QED  BY <2>1, <2>2, Zenon
<1>4. \A g \in Frames : Waiting(g)' => g \notin ran' \cup dropped'
  <2> TAKE g \in Frames
  <2>1. CASE g = f
      BY <2>1, Zenon DEF Waiting
  <2>2. CASE g # f
    <3>1. Waiting(g) => g \notin ran \cup dropped
        BY Zenon DEF Places
    <3> QED  BY <1>1, <2>2, <3>1, Zenon
  <2> QED  BY <2>1, <2>2, Zenon
<1>5. ran' \cap dropped' = {}
  <2>1. ran \cap dropped = {}
      BY Zenon DEF Places
  <2> QED  BY <2>1, Zenon
<1>6. \A g \in Frames : Met(g)' => Given(g)'
  <2> TAKE g \in Frames
  <2>1. CASE g = f
      BY <2>1, Zenon
  <2>2. CASE g # f
    <3>1. Met(g) => Given(g)
        BY Zenon DEF Places
    <3>2. Met(g)' => Met(g)
        BY <1>1, <2>2, Zenon DEF Met
    <3> QED  BY <3>1, <3>2, Zenon
  <2> QED  BY <2>1, <2>2, Zenon
<1> QED  BY <1>2, <1>3, <1>4, <1>5, <1>6, Zenon DEF Places

\* Tms puts a task in the queue of its thread, or refuses it.
LEMMA Delivers ==
    ASSUME Types, Places, NEW t \in Task, Deliver(t), UNCHANGED <<kind, ran>>,
           plgin_timer_list' \cup deleted' \subseteq Frames,
           Once(early'), ~Holds(early', t.frame),
           \A g \in Frames : g # t.frame => (Holds(early', g) <=> Holds(early, g)),
           \A id \in PluginIds : ~Holds(queue[id], t.frame),
           t.frame \notin ran \cup dropped,
           \A g \in Frames : Given(g) => Given(g)', Given(t.frame)'
    PROVE  Places'
<1>1. PICK f \in Frames : f = t.frame
    BY DEF Task
<1>2. PICK tag \in PluginIds : tag = kind[f].tag
    BY TagType, Zenon
<1>3. /\ queue \in [PluginIds -> Seq(Task)]
      /\ \A id \in PluginIds : Once(queue[id])
    BY Zenon DEF Places
<1>4. CASE tag \in logic
  <2>1. queue' = [queue EXCEPT ![tag] = Append(@, t)] /\ dropped' = dropped
      BY <1>1, <1>2, <1>4, Zenon DEF Deliver
  <2>2. queue[tag] \in Seq(Task) /\ Once(queue[tag]) /\ ~Holds(queue[tag], t.frame)
      BY <1>3, Zenon
  <2>3. PICK s : s = Append(queue[tag], t)
      BY Zenon
  <2>4. /\ s \in Seq(Task) /\ Once(s)
        /\ \A g : Holds(s, g) <=> Holds(queue[tag], g) \/ g = f
      BY <1>1, <2>2, <2>3, AppendHolds, Zenon
  <2>5. /\ queue' \in [PluginIds -> Seq(Task)] /\ queue'[tag] = s
        /\ \A id \in PluginIds : id # tag => queue'[id] = queue[id]
      BY <1>3, <2>1, <2>3, <2>4
  <2>6. \A id \in PluginIds : Once(queue'[id])
      BY <1>3, <2>4, <2>5, Zenon
  <2>7. \A g \in Frames, id \in PluginIds :
            g # f => (Holds(queue'[id], g) <=> Holds(queue[id], g))
    <3> TAKE g \in Frames, id \in PluginIds
    <3>1. CASE id = tag
        BY <2>4, <2>5, <3>1, Zenon
    <3>2. CASE id # tag
        BY <2>5, <3>2, Zenon
    <3> QED  BY <3>1, <3>2, Zenon
  <2>8. \A id \in PluginIds : Holds(queue'[id], f) => id = tag
      BY <1>1, <2>5, Zenon
  <2>9. f \notin ran' \cup dropped' /\ ran' = ran /\ dropped' = dropped
      BY <1>1, <2>1, Zenon
  <2>10. /\ ran \subseteq ran' /\ ran' \subseteq ran \cup {f}
         /\ dropped \subseteq dropped' /\ dropped' \subseteq dropped \cup {f}
         /\ f \notin ran' \/ f \notin dropped'
      BY <2>9
  <2> QED  BY <1>1, <1>2, <2>5, <2>6, <2>7, <2>8, <2>9, <2>10, Moved, Zenon
<1>5. CASE tag \notin logic
  <2>1. queue' = queue /\ dropped' = dropped \cup {f}
      BY <1>1, <1>2, <1>5, Zenon DEF Deliver
  <2>2. f \notin ran'
      BY <1>1
  <2>3. /\ ran \subseteq ran' /\ ran' \subseteq ran \cup {f}
        /\ dropped \subseteq dropped' /\ dropped' \subseteq dropped \cup {f}
      BY <2>1
  <2> QED  BY <1>1, <1>3, <2>1, <2>2, <2>3, Moved, Zenon
<1> QED  BY <1>4, <1>5

\* TMS::AddMessage, called once for the frame.
LEMMA PostPlaces ==
    ASSUME Types, Places, NEW f \in Frames, Post(f), UNCHANGED <<kind, ran>>,
           plgin_timer_list' \cup deleted' \subseteq Frames, ~Given(f),
           \A g \in Frames : Given(g) => Given(g)', Given(f)'
    PROVE  Places'
<1>1. ~Waiting(f) /\ f \notin ran \cup dropped
    BY Zenon DEF Places, Met
<1>2. ~Holds(early, f) /\ \A id \in PluginIds : ~Holds(queue[id], f)
    BY <1>1, Zenon DEF Waiting
<1>3. PICK t : t = [frame |-> f, instance |-> instance[f]]
    BY Zenon
<1>4. t \in Task /\ t.frame = f
  <2>1. instance[f] \in 0 .. MaxInstances
      BY Zenon DEF Types
  <2> QED  BY <1>3, <2>1 DEF Task
<1>5. early \in Seq(Task) /\ Once(early)
    BY Zenon DEF Types, Places
<1>6. CASE Deliver(t) /\ UNCHANGED early
    BY <1>1, <1>2, <1>4, <1>5, <1>6, Delivers, Zenon
<1>7. CASE early' = Append(early, t) /\ UNCHANGED <<queue, dropped>>
  <2>1. /\ Once(early')
        /\ \A g : Holds(early', g) <=> Holds(early, g) \/ g = f
      BY <1>2, <1>4, <1>5, <1>7, AppendHolds, Zenon
  <2>2. \A g \in Frames : g # f => (Holds(early', g) <=> Holds(early, g))
      BY <2>1, Zenon
  <2>3. \A id \in PluginIds : ~Holds(queue'[id], f)
      BY <1>2, <1>7, Zenon
  <2>4. /\ queue' \in [PluginIds -> Seq(Task)]
        /\ \A id \in PluginIds : Once(queue'[id])
        /\ \A g \in Frames, id \in PluginIds : Holds(queue'[id], g) <=> Holds(queue[id], g)
      BY <1>7, Zenon DEF Places
  <2>5. f \notin ran' \cup dropped' /\ ran' = ran /\ dropped' = dropped
      BY <1>1, <1>7, Zenon
  <2>6. /\ ran \subseteq ran' /\ ran' \subseteq ran \cup {f}
        /\ dropped \subseteq dropped' /\ dropped' \subseteq dropped \cup {f}
        /\ f \notin ran' \/ f \notin dropped'
      BY <2>5
  <2> QED  BY <2>1, <2>2, <2>3, <2>4, <2>5, <2>6, Moved, Zenon
<1> QED  BY <1>3, <1>6, <1>7, Zenon DEF Post

\* TMS::Start hands out the first task that was posted early.
LEMMA StartPlaces ==
    ASSUME Types, Places, StartNext
    PROVE  Places'
<1> USE DEF threadVars, lockVars, taskVars, history
<1>1. /\ UNCHANGED <<kind, ran, call, timer, plgin_timer_list, deleted>>
      /\ \/ early # <<>> /\ Deliver(Head(early)) /\ early' = Tail(early)
         \/ UNCHANGED <<early, queue, dropped>>
    BY Zenon DEF StartNext
<1>2. \A g \in Frames : Given(g) <=> Given(g)'
    BY <1>1 DEF Given
<1>3. plgin_timer_list' \cup deleted' \subseteq Frames
    BY <1>1 DEF Places
<1>4. CASE UNCHANGED <<early, queue, dropped>>
    BY <1>1, <1>2, <1>3, <1>4, PlacesKept, Zenon
<1>5. CASE early # <<>> /\ Deliver(Head(early)) /\ early' = Tail(early)
  <2>1. early \in Seq(Task) /\ Once(early)
      BY Zenon DEF Types, Places
  <2>2. PICK t \in Task : t = Head(early) /\ t.frame \in Frames
      BY <1>5, <2>1, FirstTask, Zenon
  <2>3. /\ Once(early') /\ Holds(early, t.frame)
        /\ \A g : Holds(early', g) <=> Holds(early, g) /\ g # t.frame
      BY <1>5, <2>1, <2>2, TailHolds, Zenon
  <2>4. Waiting(t.frame)
      BY <2>3, Zenon DEF Waiting
  <2>5. t.frame \notin ran \cup dropped /\ Given(t.frame)
      BY <2>2, <2>4, Zenon DEF Places, Met
  <2>6. \A id \in PluginIds : ~Holds(queue[id], t.frame)
      BY <2>2, <2>3, Zenon DEF Places
  <2>7. ~Holds(early', t.frame)
        /\ \A g \in Frames : g # t.frame => (Holds(early', g) <=> Holds(early, g))
      BY <2>3, Zenon
  <2>8. Given(t.frame)' /\ \A g \in Frames : Given(g) => Given(g)'
      BY <1>2, <2>2, <2>5, Zenon
  <2> QED  BY <1>1, <1>3, <1>5, <2>2, <2>3, <2>5, <2>6, <2>7, <2>8, Delivers, Zenon
<1> QED  BY <1>1, <1>4, <1>5, Zenon

\* A worker thread takes its next task.
LEMMA WorkPlaces ==
    ASSUME Types, Places, NEW id \in PluginIds, Work(id)
    PROVE  Places'
<1> USE DEF threadVars, lockVars, taskVars, history
<1>1. /\ UNCHANGED <<kind, early, dropped, call, timer, plgin_timer_list, deleted>>
      /\ queue[id] # <<>> /\ queue' = [queue EXCEPT ![id] = Tail(queue[id])]
    BY Zenon DEF Work
<1>2. \A g \in Frames : Given(g) <=> Given(g)'
    BY <1>1 DEF Given
<1>3. plgin_timer_list' \cup deleted' \subseteq Frames
    BY <1>1 DEF Places
<1>4. /\ queue \in [PluginIds -> Seq(Task)]
      /\ \A i \in PluginIds : Once(queue[i])
    BY Zenon DEF Places
<1>5. queue[id] \in Seq(Task) /\ Once(queue[id])
    BY <1>4, Zenon
<1>6. PICK f \in Frames : f = Head(queue[id]).frame
    BY <1>1, <1>5, FirstTask, Zenon
<1>7. PICK s : s = Tail(queue[id])
    BY Zenon
<1>8. /\ s \in Seq(Task) /\ Once(s) /\ Holds(queue[id], f)
      /\ \A g : Holds(s, g) <=> Holds(queue[id], g) /\ g # f
    BY <1>1, <1>5, <1>6, <1>7, TailHolds, Zenon
<1>9. /\ queue' \in [PluginIds -> Seq(Task)] /\ queue'[id] = s
      /\ \A i \in PluginIds : i # id => queue'[i] = queue[i]
    BY <1>1, <1>4, <1>7, <1>8
<1>10. \A i \in PluginIds : Once(queue'[i])
    BY <1>4, <1>8, <1>9, Zenon
<1>11. \A g \in Frames, i \in PluginIds :
           g # f => (Holds(queue'[i], g) <=> Holds(queue[i], g))
  <2> TAKE g \in Frames, i \in PluginIds
  <2>1. CASE i = id
      BY <1>8, <1>9, <2>1, Zenon
  <2>2. CASE i # id
      BY <1>9, <2>2, Zenon
  <2> QED  BY <2>1, <2>2
<1>12. Waiting(f) /\ kind[f].tag = id /\ ~Holds(early, f)
    BY <1>8, Zenon DEF Waiting, Places
<1>13. \A i \in PluginIds : ~Holds(queue'[i], f)
  <2> TAKE i \in PluginIds
  <2>1. CASE i = id
      BY <1>8, <1>9, <2>1, Zenon
  <2>2. CASE i # id
      BY <1>9, <1>12, <2>2, Zenon DEF Places
  <2> QED  BY <2>1, <2>2
<1>14. f \notin ran \cup dropped /\ Given(f)
    BY <1>12, Zenon DEF Places, Met
<1>15. /\ ran \subseteq ran' /\ ran' \subseteq ran \cup {f}
       /\ dropped \subseteq dropped' /\ dropped' \subseteq dropped \cup {f}
       /\ f \notin ran' \/ f \notin dropped'
  <2>1. ran' = ran \/ ran' = ran \cup {f}
      BY <1>6, Zenon DEF Work
  <2> QED  BY <1>1, <1>14, <2>1
<1>16. /\ Once(early') /\ ~Holds(early', f)
       /\ \A g \in Frames : Holds(early', g) <=> Holds(early, g)
    BY <1>1, <1>12, Zenon DEF Places
<1>17. Given(f)' /\ \A g \in Frames : Given(g) => Given(g)'
    BY <1>2, <1>14, Zenon
<1> QED  BY <1>1, <1>3, <1>9, <1>10, <1>11, <1>13, <1>15, <1>16, <1>17, Moved, Zenon

\* A step that moves nothing keeps what the frames went through.
LEMMA FlowKept ==
    ASSUME Flow, UNCHANGED <<kind, call, timer, deleted>>
    PROVE  Flow' /\ \A g \in Frames : Given(g) => Given(g)'
<1>1. Flow'
    BY Zenon DEF Flow
<1>2. \A g \in Frames : Given(g) => Given(g)'
    BY Zenon DEF Given
<1> QED  BY <1>1, <1>2

\* Every step keeps what the frames went through and where they are.
LEMMA HKeeps ==
    ASSUME IInv, HInv, [Next]_vars
    PROVE  HInv'
<1> USE DEF bufferVars, threadVars, lockVars, taskVars, history
<1>1. Types /\ Control /\ Flow /\ Places
    BY Zenon DEF IInv, HInv
<1>2. plgin_timer_list \subseteq Frames /\ deleted \subseteq Frames
    BY <1>1 DEF Places
<1>3. SUFFICES Flow' /\ Places'
    BY <1>1, ControlKeeps, Zenon DEF HInv
<1>4. ASSUME NEW f \in Frames, Sends(f)
      PROVE  Flow' /\ Places'
  <2>1. Flow' /\ \A g \in Frames : Given(g) => Given(g)'
      BY <1>1, <1>4, FlowSends, Zenon
  <2>2. UNCHANGED <<early, queue, ran, dropped, kind, deleted>>
    <3>1. Send(f) \/ Replay => UNCHANGED <<early, queue, ran, dropped, kind, deleted>>
        BY Zenon DEF Send, Replay, Find
    <3>2. SendEarly(f) \/ SendBuffer(f) => UNCHANGED <<early, queue, ran, dropped, kind, deleted>>
        BY Zenon DEF SendEarly, SendBuffer
    <3>3. SendArm(f) \/ SendStore(f) => UNCHANGED <<early, queue, ran, dropped, kind, deleted>>
        BY Zenon DEF SendArm, SendStore
    <3> QED  BY <1>4, <3>1, <3>2, <3>3, Zenon DEF Sends
  <2>3. plgin_timer_list' = plgin_timer_list \/ plgin_timer_list' = plgin_timer_list \cup {f}
    <3>1. Send(f) \/ Replay => plgin_timer_list' = plgin_timer_list
        BY Zenon DEF Send, Replay, Find
    <3>2. SendEarly(f) \/ SendBuffer(f) => plgin_timer_list' = plgin_timer_list
        BY Zenon DEF SendEarly, SendBuffer
    <3>3. SendArm(f) => plgin_timer_list' = plgin_timer_list
        BY Zenon DEF SendArm
    <3>4. SendStore(f) => plgin_timer_list' = plgin_timer_list \cup {f}
        BY Zenon DEF SendStore
    <3> QED  BY <1>4, <3>1, <3>2, <3>3, <3>4, Zenon DEF Sends
  <2>4. plgin_timer_list' \cup deleted' \subseteq Frames
      BY <1>2, <2>2, <2>3
  <2> QED  BY <1>1, <2>1, <2>2, <2>4, PlacesKept, Zenon
<1>5. ASSUME NEW f \in Frames, SendPost(f)
      PROVE  Flow' /\ Places'
  <2>1. Flow' /\ (\A g \in Frames : Given(g) => Given(g)') /\ ~Given(f) /\ Given(f)'
      BY <1>1, <1>5, FlowSends, Zenon
  <2>2. Post(f) /\ UNCHANGED <<kind, ran, plgin_timer_list, deleted>>
      BY <1>5, Zenon DEF SendPost
  <2>3. plgin_timer_list' \cup deleted' \subseteq Frames
      BY <1>2, <2>2
  <2> QED  BY <1>1, <2>1, <2>2, <2>3, PostPlaces, Zenon
<1>6. ASSUME NEW f \in Frames, Delete(f) \/ Fire(f) \/ FireEnd(f)
      PROVE  Flow' /\ Places'
  <2>1. /\ Flow' /\ \A g \in Frames : Given(g) => Given(g)'
        /\ FireEnd(f) => ~Given(f) /\ Given(f)'
      BY <1>1, <1>6, FlowTimers, Zenon
  <2>2. plgin_timer_list' \subseteq plgin_timer_list /\ deleted' \subseteq deleted \cup {f}
      BY <1>6 DEF Delete, Fire, FireEnd
  <2>3. plgin_timer_list' \cup deleted' \subseteq Frames
      BY <1>2, <2>2
  <2>4. CASE FireEnd(f)
    <3>1. Post(f) /\ UNCHANGED <<kind, ran>>
        BY <2>4, Zenon DEF FireEnd
    <3> QED  BY <1>1, <2>1, <2>3, <2>4, <3>1, PostPlaces, Zenon
  <2>5. CASE Delete(f) \/ Fire(f)
    <3>1. UNCHANGED <<early, queue, ran, dropped, kind>>
        BY <2>5, Zenon DEF Delete, Fire
    <3> QED  BY <1>1, <2>1, <2>3, <3>1, PlacesKept, Zenon
  <2> QED  BY <1>6, <2>4, <2>5, Zenon
<1>7. ASSUME NEW id \in PluginIds, Work(id)
      PROVE  Flow' /\ Places'
  <2>1. UNCHANGED <<kind, call, timer, deleted>>
      BY <1>7, Zenon DEF Work
  <2> QED  BY <1>1, <1>7, <2>1, FlowKept, WorkPlaces, Zenon
<1>8. CASE StartNext
  <2>1. UNCHANGED <<kind, call, timer, deleted>>
      BY <1>8, Zenon DEF StartNext
  <2> QED  BY <1>1, <1>8, <2>1, FlowKept, StartPlaces, Zenon
<1>9. ASSUME UNCHANGED <<kind, call, timer, deleted, early, queue, ran, dropped, plgin_timer_list>>
      PROVE  Flow' /\ Places'
  <2>1. plgin_timer_list' \cup deleted' \subseteq Frames
      BY <1>2, <1>9
  <2> QED  BY <1>1, <1>9, <2>1, FlowKept, PlacesKept, Zenon
<1>10. ASSUME NEW id \in PluginIds, CreateBegin(id) \/ CloseThread(id) \/ CreateBuffered(id)
       PROVE  Flow' /\ Places'
    BY <1>9, <1>10, Zenon DEF CreateBegin, CloseThread, CreateBuffered
<1>11. ASSUME NEW c \in creating, CreateEnd(c)
       PROVE  Flow' /\ Places'
    BY <1>9, <1>11, Zenon DEF CreateEnd
<1>12. CASE LoadEnd \/ Start \/ ReplayNext \/ CloseTimer \/ CloseModules \/ CloseTms
    BY <1>9, <1>12, Zenon DEF LoadEnd, Start, ReplayNext, CloseTimer, CloseModules, CloseTms
<1>13. CASE Replay
  <2>1. Head(todo) \in Frames
      BY <1>1, <1>13 DEF Replay, Types
  <2> QED  BY <1>4, <1>13, <2>1, Zenon DEF Sends
<1>14. CASE UNCHANGED vars
    BY <1>9, <1>14, Zenon DEF vars
<1> QED  BY <1>4, <1>5, <1>6, <1>7, <1>8, <1>10, <1>11, <1>12, <1>13, <1>14
         DEF Next, SendOn, TimerThread, InitMain, Sends

\* Both invariants hold at all times.
LEMMA HistoryHolds == Spec => [](IInv /\ HInv)
<1>1. Init => HInv
    BY HInit
<1>2. IInv /\ HInv /\ [Next]_vars => HInv'
    BY HKeeps
<1> QED  BY <1>1, <1>2, InvariantHolds, PTL DEF Spec

\* The variables have their types; the list of the threads holds the newest
\* instance, and create_frame_work_thread has the mutex while it is at work.
THEOREM TypeCorrect == Spec => []TypeOK
<1>1. IInv /\ HInv => TypeOK
  <2> SUFFICES ASSUME IInv, HInv PROVE TypeOK
      OBVIOUS
  <2>1. Types /\ Control /\ Places
      BY Zenon DEF IInv, HInv
  <2>2. plugin_work_thread_buffer_list \cup logic \cup closedIds \subseteq PluginIds
      BY <2>1 DEF Types, Control
  <2>3. main \in Phases /\ module_init_finish = (main # "load")
      BY <2>1, Zenon DEF Control
  <2> QED  BY <2>1, <2>2, <2>3, Zenon DEF TypeOK, Types, Control, Places, Phases, Calls, Timers
<1> QED  BY <1>1, HistoryHolds, PTL

\* A frame is given to tms once, whether it is sent, buffered and replayed, or
\* comes from its timer, and it runs once at most.
THEOREM PostedOnceHolds == Spec => []PostedOnce
<1>1. IInv /\ HInv => PostedOnce
    BY Zenon DEF HInv, Places, PostedOnce
<1> QED  BY <1>1, HistoryHolds, PTL

\* A message whose timer was deleted before it fired never reaches tms.
THEOREM DeletedIsNotPostedHolds == Spec => []DeletedIsNotPosted
<1>1. IInv /\ HInv => DeletedIsNotPosted
  <2> SUFFICES ASSUME HInv, NEW f \in deleted
               PROVE  ~Waiting(f) /\ f \notin ran \cup dropped
      BY Zenon DEF DeletedIsNotPosted
  <2>1. f \in Frames
      BY DEF HInv, Places
  <2>2. timer[f] = "cancelled" /\ kind[f].delayed
      BY <2>1, Zenon DEF HInv, Flow
  <2>3. ~Given(f)
      BY <2>2, Zenon DEF Given
  <2> QED  BY <2>1, <2>3, Zenon DEF HInv, Places, Met
<1> QED  BY <1>1, HistoryHolds, PTL

=============================================================================

--------------------------- MODULE SerialExecutor ---------------------------
(***************************************************************************)
(* What the rest of PSS_ASIO relies on when it hands a task to a logic     *)
(* thread: the tasks of one thread run one after the other in the order    *)
(* they were pushed, none is skipped or repeated, nothing behind the stop  *)
(* marker runs, and once the executor is closed nothing runs at all.       *)
(***************************************************************************)
EXTENDS Naturals, Sequences

CONSTANTS Threads, Tasks, Stop

VARIABLES pushed,   \* what was pushed for each thread, the stop marker included
          ran,      \* what each thread finished
          closed    \* the executor was closed

execVars == <<pushed, ran, closed>>

ExecInit ==
    /\ pushed = [t \in Threads |-> <<>>]
    /\ ran = [t \in Threads |-> <<>>]
    /\ closed = FALSE

Submit(t) ==
    /\ \E x \in Tasks \cup {Stop} : pushed' = [pushed EXCEPT ![t] = Append(@, x)]
    /\ UNCHANGED <<ran, closed>>

RunNext(t) ==
    /\ ~closed
    /\ Len(ran[t]) < Len(pushed[t])
    /\ pushed[t][Len(ran[t]) + 1] # Stop
    /\ ran' = [ran EXCEPT ![t] = Append(@, pushed[t][Len(@) + 1])]
    /\ UNCHANGED <<pushed, closed>>

Shutdown == ~closed /\ closed' = TRUE /\ UNCHANGED <<pushed, ran>>

ExecNext == Shutdown \/ \E t \in Threads : Submit(t) \/ RunNext(t)

ExecSpec == ExecInit /\ [][ExecNext]_execVars
=============================================================================

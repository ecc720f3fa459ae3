----------------------------- MODULE MCTimerMgr -----------------------------
(***************************************************************************)
(* Two timers, each due at once, due later, or repeating behind a delay.   *)
(***************************************************************************)
EXTENDS TimerMgr

MCKinds ==
    {[type |-> "once", last |-> 0, delay |-> 0],
     [type |-> "once", last |-> 2, delay |-> 0],
     [type |-> "loop", last |-> 1, delay |-> 1]}
=============================================================================

------------------------ MODULE MCWorkThreadLogic ------------------------
(***************************************************************************)
(* One plugin thread that is created up to twice, and two frames, each a   *)
(* message or a function, with or without a delay.  The frames are         *)
(* interchangeable: of two different kinds, the first one has the lower.   *)
(***************************************************************************)
EXTENDS WorkThreadLogic

CONSTANTS f1, f2

MCKinds == [list : {"message", "func"}, tag : PluginIds, delayed : BOOLEAN]

Rank(k) == (IF k.list = "message" THEN 2 ELSE 0) + (IF k.delayed THEN 1 ELSE 0)
MCInit == Init /\ Rank(kind[f1]) <= Rank(kind[f2])
MCFairSpec == MCInit /\ [][Next]_vars /\ Fairness
=============================================================================

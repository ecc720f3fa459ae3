------------------------------- MODULE MCTms -------------------------------
(***************************************************************************)
(* Instances of Tms for TLC: one work thread (id 0), one plugin thread     *)
(* (id 1) and a few tasks.                                                 *)
(***************************************************************************)
EXTENDS Tms

MCLogicIds == {0, 1}
MCWorkIds == {0}
=============================================================================

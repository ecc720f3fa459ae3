------------------------- MODULE MCNetSvrManager -------------------------
(***************************************************************************)
(* One TCP and one UDP address, up to four listeners and three tasks: room *)
(* for a close, a start, a second start and a late handler of each.        *)
(***************************************************************************)
EXTENDS NetSvrManager
=============================================================================

-------------------------- MODULE MCPacketParse --------------------------
(***************************************************************************)
(* A header of two bytes, bodies that are empty, shorter and longer than   *)
(* the header, or illegal, in a buffer that just holds the largest packet. *)
(***************************************************************************)
EXTENDS PacketParse

MCBodies == {0, 1, 3, 4}
=============================================================================

----------------------------- MODULE MCIoBridge -----------------------------
(* Instances of IoBridge for TLC. *)
EXTENDS IoBridge

A == [host |-> "a", type |-> "TCP"]
B == [host |-> "b", type |-> "UDP"]
C == [host |-> "c", type |-> "TTY"]
MCAddrs == {A, B, C}
MCPairs == {<<A, B>>, <<A, C>>, <<B, C>>}
MCSessions == 1 .. 3

=============================================================================

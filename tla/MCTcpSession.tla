---------------------------- MODULE MCTcpSession ----------------------------
(* Instances of TcpSession for TLC. *)
EXTENDS TcpSession

MCApart == [same |-> FALSE, bridging |-> FALSE, sync |-> {}]
MCTogether ==
    [same |-> TRUE, bridging |-> TRUE, sync |-> {"connect", "data", "disconnect"}]

MCSetups == {MCApart, MCTogether}

=============================================================================

----------------------- MODULE MCCommunicationService -----------------------
(* Instances of CommunicationService for TLC. *)
EXTENDS CommunicationService

MCOneServer == {11}
MCTwoServers == {11, 12}

=============================================================================

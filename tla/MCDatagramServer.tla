-------------------------- MODULE MCDatagramServer --------------------------
(* Two endpoints and two ids: both endpoints have a session, or one comes   *)
(* back with a new id; a third datagram finds the session closing or gone.  *)
EXTENDS DatagramServer
=============================================================================

------------------------- MODULE MCClientReconnect -------------------------
(* ClientReconnect with three sockets and delays 1, 2, 4, 6. *)
EXTENDS ClientReconnect, TLC
=============================================================================

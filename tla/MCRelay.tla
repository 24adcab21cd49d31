------------------------------ MODULE MCRelay ------------------------------
(* A small instance of Relay: one request or one browser socket, and two   *)
(* connections, either lost or the second replacing the first. Callers     *)
(* share nothing but the connections, so that one meets every hazard.      *)
EXTENDS Relay
============================================================================

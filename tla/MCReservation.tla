--------------------------- MODULE MCReservation ---------------------------
(* Small instances of Reservation: device 1 and the newer device 2 of      *)
(* account A, device 3 of account B, and device 4 of A with TUNNEL_SECRET. *)
EXTENDS Reservation, TLC

CONSTANTS A, B

AccountOf == [d \in Device |-> IF d = 3 THEN B ELSE A]

Symmetry == Permutations(Sock) \cup Permutations(Rev)
==========================================================================

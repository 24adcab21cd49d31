----------------------------- MODULE MCRegistry -----------------------------
(* A small instance of Registry: three accounts, tokens of the first.        *)
EXTENDS Registry, TLC

CONSTANTS A, B, C

AllOfA == [t \in Token |-> A]

Symmetry == Permutations(Token) \cup Permutations(Req)
==========================================================================

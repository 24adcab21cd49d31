------------------------- MODULE MCTunnelMetering -------------------------
(* Small instances of TunnelMetering.                                      *)
EXTENDS TunnelMetering, TLC

Config(day, chunk) ==
  [active |-> TRUE, dayLimit |-> day, monthLimit |-> day, concurrentMax |-> 1,
   leaseChunk |-> chunk, reservedMax |-> 1]

\* Limits below the operations incurred, so that every grant counts.
Tight == {Config(1, 1), Config(2, 2)}

\* A limit that is soon reached, and one that is not.
Mixed == {Config(1, 1), Config(2, 2), Config(8, 2)}

SockSymmetry == Permutations(Sock)
==========================================================================

------------------------- MODULE MCAccountLedger -------------------------
(* Small instances of AccountLedger.                                       *)
EXTENDS AccountLedger, TLC

Config(day, month, chunk, reserved) ==
  [active |-> TRUE, dayLimit |-> day, monthLimit |-> month, concurrentMax |-> 2,
   leaseChunk |-> chunk, reservedMax |-> reserved]

\* One account whose limits the registry raises and lowers.
TwoLimits == {Config(2, 3, 2, 0), Config(1, 2, 1, 1)}

TightLimit == {Config(2, 2, 1, 0)}

\* One slot for two tunnels.
OneSlot == {[Config(2, 2, 1, 0) EXCEPT !.concurrentMax = 1]}

\* What the internal account provisions itself with.
Built == Config(2, 3, 2, 0)

RegSymmetry == Permutations(Regs)
==========================================================================

--------------------------- MODULE LeaseTotals ---------------------------
(* Sums over the tunnels 1..n of one account.  The running total is a      *)
(* recursive function, not a RECURSIVE operator, so that it can be         *)
(* reasoned about in LedgerOpsProofs.                                      *)
EXTENDS Integers

RunningTotal(f, n) ==
  LET upTo[i \in 0..n] == IF i = 0 THEN 0 ELSE upTo[i - 1] + f[i]
  IN  upTo

\* f[1] + ... + f[n]
Total(f, n) == RunningTotal(f, n)[n]
==========================================================================

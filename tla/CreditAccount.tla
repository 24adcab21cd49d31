--------------------------- MODULE CreditAccount ---------------------------
(***************************************************************************)
(* What an account promises its tunnels and its owner, without a counter   *)
(* of what is leased, a ttl or an entry per registration: credits are      *)
(* free, held by a tunnel, or used in a day and a month.  They are handed  *)
(* out only within the limits in force, used only by the tunnel that holds *)
(* them, and what is not used goes back.  What was used counts until the   *)
(* day, or the month, is over.                                             *)
(***************************************************************************)
EXTENDS LeaseTotals

CONSTANTS
  N,       \* the tunnels of the account are 1..N
  Limits,  \* the limits it may be given, records with a day and a month
  NoLimit  \* none yet

VARIABLES
  limit,      \* the limits in force
  day, month, \* the windows the account counts in
  dayUsed,    \* credits used in that day
  monthUsed,  \* and in that month
  held        \* credits each tunnel holds

windows == <<day, month, dayUsed, monthUsed>>
vars == <<limit, windows, held>>

Holder == 1..N

\* What is used or held in either window is within the limits in force.
Fits == /\ dayUsed + Total(held, N) <= limit.dayLimit
        /\ monthUsed + Total(held, N) <= limit.monthLimit

(* One tunnel may hold credits from before its account kept such books.    *)
Init ==
  /\ day \in Nat /\ month \in Nat /\ dayUsed = 0 /\ monthUsed = 0
  /\ \/ limit = NoLimit /\ held = [t \in Holder |-> 0]
     \/ \E t \in Holder :
           /\ limit \in Limits
           /\ held \in {[s \in Holder |-> IF s = t THEN n ELSE 0] : n \in 0..limit.dayLimit}
           /\ Fits

\* `c` credits are used; a window that is over has ended for good.
Use(c) ==
  /\ day' \in Nat /\ day' >= day
  /\ dayUsed' = (IF day' = day THEN dayUsed ELSE 0) + c
  /\ month' \in Nat /\ month' >= month
  /\ monthUsed' = (IF month' = month THEN monthUsed ELSE 0) + c

\* What is held once the tunnels `gone` have given back all.
Without(gone) == [t \in Holder |-> IF t \in gone THEN 0 ELSE held[t]]

Configure == limit' \in Limits /\ UNCHANGED <<windows, held>>

GiveBack(gone) ==
  /\ Use(0)
  /\ held' = Without(gone)
  /\ UNCHANGED limit

(* `t` uses `c` of what it holds and is granted `g`.                       *)
Grant(t, gone, c, g) ==
  /\ t \notin gone
  /\ Use(c)
  /\ held' = [Without(gone) EXCEPT ![t] = held[t] - c + g]
  /\ g > 0 => Fits'
  /\ UNCHANGED limit

(* `t` uses `c` of what it holds and gives back the rest.                  *)
Leave(t, c) ==
  /\ Use(c)
  /\ held' = Without({t})
  /\ UNCHANGED limit

Next ==
  \/ Configure
  \/ \E gone \in SUBSET Holder : GiveBack(gone)
  \/ \E t \in Holder, gone \in SUBSET Holder : \E c \in 0..held[t] :
        limit # NoLimit /\ \E g \in 0..limit.dayLimit : Grant(t, gone, c, g)
  \/ \E t \in Holder : \E c \in 0..held[t] : Leave(t, c)

Spec == Init /\ [][Next]_vars
=============================================================================

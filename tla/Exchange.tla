------------------------------ MODULE Exchange ------------------------------
(***************************************************************************)
(* What a visitor of a tunnel may rely on: each call is begun once, taken  *)
(* by the local server at most once and never before it was begun, ends at *)
(* most once, and does not come back. That every call does end is          *)
(* EveryoneServed of Relay.                                                *)
(***************************************************************************)
EXTENDS Naturals

CONSTANT Call

VARIABLES phase,   \* "new", "open" or "over"
          taken    \* how often the local server took each call

vars == <<phase, taken>>

Init == /\ phase = [c \in Call |-> "new"]
        /\ taken = [c \in Call |-> 0]

(* A call arrives; one that finds no tunnel is over at once. *)
Begin(c) ==
  /\ phase[c] = "new"
  /\ phase' \in {[phase EXCEPT ![c] = "open"], [phase EXCEPT ![c] = "over"]}
  /\ UNCHANGED taken

(* The local server takes a call, even one whose visitor has its answer. *)
Take(c) ==
  /\ phase[c] # "new" /\ taken[c] = 0
  /\ taken' = [taken EXCEPT ![c] = 1]
  /\ UNCHANGED phase

(* One call ends, or all that a connection carried. *)
Finish(C) ==
  /\ \A c \in C : phase[c] = "open"
  /\ phase' = [c \in Call |-> IF c \in C THEN "over" ELSE phase[c]]
  /\ UNCHANGED taken

Next == \/ \E c \in Call : Begin(c) \/ Take(c)
        \/ \E C \in SUBSET Call : Finish(C)

Spec == Init /\ [][Next]_vars
=============================================================================

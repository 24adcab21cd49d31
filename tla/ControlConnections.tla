------------------------- MODULE ControlConnections -------------------------
(***************************************************************************)
(* The control connections of one tunnel, that serve it one after another: *)
(* the sockets accepted by src/server-cf/src/tunnel-do.ts, the connectors  *)
(* of src/client/tunnel-client.ts at their other ends, and the frames      *)
(* between them. HttpRelay and WsRelay say what the frames do; Relay puts  *)
(* them together. How a register is authorized is in Reservation and       *)
(* TunnelMetering.                                                         *)
(***************************************************************************)
EXTENDS Naturals, Sequences, FiniteSets

CONSTANT Gens     \* how many control connections are ever accepted

ASSUME GensAssumption == Gens \in Nat

VARIABLES
  conn,       \* the attachment of each connection
  up,         \* the connections whose readyState is OPEN
  reg,        \* the register that holds accountChain: its connection, its stage
  recent,     \* controlLoss is an unexpected close, inside READ_RECONNECT_MS
  connected,  \* connections whose connector has not seen their end
  toClient,   \* frames on their way to each connector
  toRelay     \* frames on their way back

links == <<conn, up, reg, recent, connected>>

Gen == 1..Gens

(* "superseded": replaced by a register; "closed": retired by its close;    *)
(* "lost": gone by the time its register claimed the tunnel.                *)
ConnStates == {"none", "accepted", "registered", "superseded", "closed", "lost"}

Idle == [conn |-> 0, stage |-> "idle"]
Registering == [conn : 0..Gens, stage : {"idle", "settling", "claimed"}]

(* The connection that serves, 0 if there is none. *)
ctl == IF \E g \in Gen : g \in up /\ conn[g] = "registered"
       THEN CHOOSE g \in Gen : g \in up /\ conn[g] = "registered" ELSE 0

InitLinks ==
  /\ conn = [g \in Gen |-> "none"] /\ up = {} /\ connected = {}
  /\ reg = Idle /\ recent = FALSE
  /\ toClient = [g \in Gen |-> << >>] /\ toRelay = [g \in Gen |-> << >>]

-----------------------------------------------------------------------------
(* sendFrame(ctl, m); a connection that serves is there, or nothing is sent. *)
Forward(g, m) ==
  toClient' = IF g = 0 THEN toClient ELSE [toClient EXCEPT ![g] = Append(@, m)]

(* ws.send of a connector, where readyState is OPEN. *)
Reply(g, m) ==
  toRelay' = IF g \in up THEN [toRelay EXCEPT ![g] = Append(@, m)] ELSE toRelay

(* acceptControl *)
Accept(g) ==
  /\ conn[g] = "none" /\ \A h \in Gen : h < g => conn[h] # "none"
  /\ conn' = [conn EXCEPT ![g] = "accepted"]
  /\ up' = up \cup {g} /\ connected' = connected \cup {g}
  /\ UNCHANGED <<reg, recent, toClient, toRelay>>

Serving == {h \in Gen : conn[h] = "registered"}

(* A register was authorized: its predecessors are superseded and closed,   *)
(* and it is published; registers are ordered by accountChain. The          *)
(* settlement of a predecessor of another account may take a while.         *)
PublishLink(g) ==
  /\ conn[g] = "accepted" /\ reg = Idle
  /\ conn' = [h \in Gen |-> IF h = g THEN "registered"
                            ELSE IF h \in Serving THEN "superseded" ELSE conn[h]]
  /\ up' = up \ Serving
  /\ reg' = [conn |-> g, stage |-> "settling"]
  /\ UNCHANGED <<recent, connected, toClient, toRelay>>

(* Settled: a connection lost meanwhile is retired, here without its        *)
(* traffic; the close that follows finds it unregistered. Otherwise the     *)
(* reservation is put.                                                      *)
Claim ==
  /\ reg.stage = "settling"
  /\ IF reg.conn \in up THEN reg' = [reg EXCEPT !.stage = "claimed"] /\ UNCHANGED conn
     ELSE /\ reg' = Idle
          /\ conn' = [conn EXCEPT ![reg.conn] = IF @ = "registered" THEN "lost" ELSE @]
  /\ UNCHANGED <<up, recent, connected, toClient, toRelay>>

(* The connection is lost with the frames on it. *)
Drop(g) ==
  /\ g \in up /\ up' = up \ {g}
  /\ toClient' = [toClient EXCEPT ![g] = << >>] /\ toRelay' = [toRelay EXCEPT ![g] = << >>]
  /\ UNCHANGED <<conn, reg, recent, connected>>

(* webSocketClose of the connection that is registered; one that is         *)
(* superseded, or not yet registered, changes nothing.                      *)
CloseLink(g) ==
  /\ conn[g] = "registered" /\ g \notin up
  /\ conn' = [conn EXCEPT ![g] = "closed"]
  /\ recent' \in BOOLEAN
  /\ UNCHANGED <<up, reg, connected, toClient, toRelay>>

(* The connector sees the end of its connection, after the frames on it. *)
EndLink(g) ==
  /\ g \in connected /\ g \notin up /\ toClient[g] = << >>
  /\ connected' = connected \ {g}
  /\ UNCHANGED <<conn, up, reg, recent, toClient, toRelay>>

(* The loss is older than READ_RECONNECT_MS. *)
Elapse ==
  /\ recent /\ recent' = FALSE
  /\ UNCHANGED <<conn, up, reg, connected, toClient, toRelay>>

TypeOKLinks ==
  /\ conn \in [Gen -> ConnStates] /\ up \subseteq Gen /\ connected \subseteq Gen
  /\ reg \in Registering /\ recent \in BOOLEAN
=============================================================================

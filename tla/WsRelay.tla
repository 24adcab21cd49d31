------------------------------ MODULE WsRelay ------------------------------
(* Browser WebSockets through one tunnel: the relay object                 *)
(* (src/server-cf/src/tunnel-do.ts), which answers an upgrade only when    *)
(* the local end is open, and the connector (src/client/transport.ts,      *)
(* src/client/tunnel-client.ts) with the local sockets it dials.           *)
(*                                                                         *)
(* One frame stands for the frames of a browser: it is charged before it   *)
(* is relayed, at once or after a wait for the account. Frames of the      *)
(* local server to the browser change no state and are left out.           *)
EXTENDS ControlConnections

CONSTANT Browser     \* browser sockets; each is opened once

VARIABLES
  browser,     \* each upgrade: where it is, its registration, and whether the
               \* relay has closed its end
  frame,       \* the frame of each browser
  pendingUpgrades,
  localWs,     \* the local socket of each
  localWsConnections,
  dialTimer,   \* the local sockets whose connectTimeout is pending
  servedWs     \* history: how often the local server opened a socket for each

wsRelay == <<browser, frame, pendingUpgrades>>
wsConnector == <<localWs, localWsConnections, dialTimer, servedWs>>
wsVars == <<wsRelay, wsConnector>>

(* "refused": answered without a socket; "failed": the socket was accepted  *)
(* and closed, the upgrade answered with an error.                          *)
BrowserType == [at : {"new", "auth", "meter", "upgrading", "open", "closed", "refused", "failed"},
                ctl : 0..Gens, shut : BOOLEAN]

(* "doomed": to be closed, and still connecting. opened: the variable of    *)
(* handleWsUpgrade, which a socket that opens when doomed does not set.     *)
LocalWs == [at : {"none", "dialing", "doomed", "open", "closing", "errored", "over"},
            opened : BOOLEAN]

WsUp == [type : {"ws-upgrade", "ws-message", "ws-close"}, id : Browser]
WsDown == [type : {"ws-ready", "ws-error", "ws-close"}, id : Browser]

InitWs ==
  /\ browser = [b \in Browser |-> [at |-> "new", ctl |-> 0, shut |-> FALSE]]
  /\ frame = [b \in Browser |-> "none"] /\ pendingUpgrades = {}
  /\ localWs = [b \in Browser |-> [at |-> "none", opened |-> FALSE]]
  /\ localWsConnections = {} /\ dialTimer = {} /\ servedWs = [b \in Browser |-> 0]

-----------------------------------------------------------------------------
(* The upgrade                                                             *)

BrowserTo(b, at) == browser' = [browser EXCEPT ![b].at = at]
Shut(b) == browser' = [browser EXCEPT ![b].shut = TRUE]
RelayStep == UNCHANGED <<links, toRelay, wsConnector>>

(* handleBrowserWsUpgrade, up to its first await. *)
Upgrade(b) ==
  /\ browser[b].at = "new"
  /\ browser' = [browser EXCEPT ![b].at = IF ctl = 0 THEN "refused" ELSE "auth", ![b].ctl = ctl]
  /\ RelayStep /\ UNCHANGED <<frame, pendingUpgrades, toClient>>

(* validateWsAuth was awaited; the account is asked only for the            *)
(* connection that the upgrade was authorized by.                           *)
UpgradeAuthorized(b) ==
  /\ browser[b].at = "auth"
  /\ \/ BrowserTo(b, "refused")
     \/ ctl = browser[b].ctl /\ BrowserTo(b, "meter")
  /\ RelayStep /\ UNCHANGED <<frame, pendingUpgrades, toClient>>

\* Mutant: the connection not compared again after the account was awaited.
MeteredAnyway(b) ==
  /\ browser[b].at = "meter"
  /\ BrowserTo(b, "upgrading")
  /\ pendingUpgrades' = pendingUpgrades \cup {b}
  /\ Forward(browser[b].ctl, [type |-> "ws-upgrade", id |-> b])
  /\ RelayStep /\ UNCHANGED frame

(* ensureBudget was awaited: refused, or the socket is accepted and waits   *)
(* for ws-ready, if its connection still serves.                            *)
UpgradeMetered(b) ==
  /\ browser[b].at = "meter"
  /\ \/ BrowserTo(b, "refused") /\ UNCHANGED <<pendingUpgrades, toClient>>
     \/ /\ ctl = browser[b].ctl
        /\ BrowserTo(b, "upgrading")
        /\ pendingUpgrades' = pendingUpgrades \cup {b}
        /\ Forward(ctl, [type |-> "ws-upgrade", id |-> b])
  /\ RelayStep /\ UNCHANGED frame

Failed(b) == [browser[b] EXCEPT !.at = "failed", !.shut = TRUE]

(* 15 s without ws-ready: 504; the connector is not told. *)
UpgradeTimeout(b) ==
  /\ b \in pendingUpgrades
  /\ pendingUpgrades' = pendingUpgrades \ {b}
  /\ browser' = [browser EXCEPT ![b] = Failed(b)]
  /\ RelayStep /\ UNCHANGED <<frame, toClient>>

-----------------------------------------------------------------------------
(* The browser                                                             *)

Relayed(b) == Forward(ctl, [type |-> "ws-message", id |-> b])

\* Mutant: a frame goes to the connection that serves, whichever it is.
FrameToAny(b) ==
  /\ browser[b].at = "open" /\ frame[b] = "none"
  /\ \/ frame' = [frame EXCEPT ![b] = "charging"] /\ UNCHANGED toClient
     \/ frame' = [frame EXCEPT ![b] = "done"] /\ Relayed(b)
  /\ RelayStep /\ UNCHANGED <<browser, pendingUpgrades>>

(* webSocketMessage of a browser: dropped unless its registration serves;   *)
(* paid from the budget that is there, or charged behind the account.       *)
BrowserMessage(b) ==
  /\ browser[b].at = "open" /\ frame[b] = "none"
  /\ \/ /\ ctl # browser[b].ctl
        /\ frame' = [frame EXCEPT ![b] = "done"] /\ UNCHANGED toClient
     \/ /\ ctl = browser[b].ctl
        /\ \/ frame' = [frame EXCEPT ![b] = "charging"] /\ UNCHANGED toClient
           \/ frame' = [frame EXCEPT ![b] = "done"] /\ Relayed(b)
  /\ RelayStep /\ UNCHANGED <<browser, pendingUpgrades>>

(* chargeMessage was awaited: the socket is closed if it was refused, or if *)
(* the frame is too large; a paid frame of a registration that is gone is   *)
(* dropped.                                                                 *)
Charged(b) ==
  /\ frame[b] = "charging"
  /\ frame' = [frame EXCEPT ![b] = "done"]
  /\ \/ Shut(b) /\ UNCHANGED toClient
     \/ ctl = browser[b].ctl /\ Relayed(b) /\ UNCHANGED browser
     \/ ctl # browser[b].ctl /\ UNCHANGED <<browser, toClient>>
  /\ RelayStep /\ UNCHANGED pendingUpgrades

(* A batch of control messages was refused: every browser socket is closed. *)
Exhausted ==
  /\ ctl # 0
  /\ browser' = [b \in Browser |->
       IF browser[b].at \in {"upgrading", "open"} THEN [browser[b] EXCEPT !.shut = TRUE]
       ELSE browser[b]]
  /\ RelayStep /\ UNCHANGED <<frame, pendingUpgrades, toClient>>

(* webSocketClose of a browser that leaves, or that answers the close of    *)
(* the relay: its connector is told if its registration serves.             *)
BrowserClose(b) ==
  /\ browser[b].at = "open" /\ BrowserTo(b, "closed")
  /\ Forward(IF ctl = browser[b].ctl THEN ctl ELSE 0, [type |-> "ws-close", id |-> b])
  /\ RelayStep /\ UNCHANGED <<frame, pendingUpgrades>>

-----------------------------------------------------------------------------
(* Frames of the connector, heard while its connection serves              *)

(* ws-ready: the upgrade is answered, unless its subprotocol was not        *)
(* offered, which fails it.                                                 *)
WsReady(b) ==
  IF b \notin pendingUpgrades THEN UNCHANGED <<browser, pendingUpgrades>>
  ELSE /\ pendingUpgrades' = pendingUpgrades \ {b}
       /\ BrowserTo(b, "open") \/ browser' = [browser EXCEPT ![b] = Failed(b)]

WsError(b) ==
  IF b \notin pendingUpgrades THEN UNCHANGED <<browser, pendingUpgrades>>
  ELSE /\ pendingUpgrades' = pendingUpgrades \ {b}
       /\ browser' = [browser EXCEPT ![b] = Failed(b)]

WsClose(b) == Shut(b) /\ UNCHANGED pendingUpgrades

WsControlMessage(g, m) ==
  /\ \/ ctl # g /\ UNCHANGED <<browser, pendingUpgrades>>
     \/ ctl = g /\ m.type = "ws-ready" /\ WsReady(m.id)
     \/ ctl = g /\ m.type = "ws-error" /\ WsError(m.id)
     \/ ctl = g /\ m.type = "ws-close" /\ WsClose(m.id)
  /\ UNCHANGED <<frame, wsConnector>>

(* disconnectTraffic, of the browser sockets: whatever registration they    *)
(* belong to, they are closed; those that wait for ws-ready fail.           *)
DisconnectWs ==
  /\ browser' = [b \in Browser |->
       CASE b \in pendingUpgrades -> Failed(b)
         [] browser[b].at = "open" -> [browser[b] EXCEPT !.shut = TRUE]
         [] OTHER -> browser[b]]
  /\ pendingUpgrades' = {} /\ UNCHANGED <<frame, wsConnector>>

-----------------------------------------------------------------------------
(* The connector                                                           *)

ConnectorStep == UNCHANGED <<links, wsRelay, toClient>>
Tell(b, type) == Reply(browser[b].ctl, [type |-> type, id |-> b])
Forget(b) == localWsConnections' = localWsConnections \ {b}

(* safeClose: one that is connecting is closed when it opens. *)
Closing(w) == [w EXCEPT !.at = CASE @ = "dialing" -> "doomed" [] @ = "open" -> "closing" [] OTHER -> @]

\* Mutant: a local socket is known only when it opens.
WsDialUnknown(b) ==
  \/ /\ localWs' = [localWs EXCEPT ![b].at = "dialing"]
     /\ dialTimer' = dialTimer \cup {b}
     /\ UNCHANGED <<localWsConnections, toRelay>>
  \/ /\ Tell(b, "ws-error")
     /\ UNCHANGED <<localWs, localWsConnections, dialTimer>>

(* handleWsUpgrade: the local server is dialed, or the dial throws. *)
WsDial(b) ==
  \/ /\ localWs' = [localWs EXCEPT ![b].at = "dialing"]
     /\ localWsConnections' = localWsConnections \cup {b}
     /\ dialTimer' = dialTimer \cup {b}
     /\ UNCHANGED toRelay
  \/ /\ Tell(b, "ws-error")
     /\ UNCHANGED <<localWs, localWsConnections, dialTimer>>

(* A relayed close reaches a socket that is still connecting, too. *)
CloseLocal(b) ==
  /\ b \in localWsConnections
  /\ localWs' = [localWs EXCEPT ![b] = Closing(@)] /\ Forget(b)

WsClientMessage(g, m) ==
  /\ \/ m.type = "ws-upgrade" /\ WsDial(m.id)
     \/ m.type = "ws-message" /\ UNCHANGED <<localWs, localWsConnections, dialTimer, toRelay>>
     \/ m.type = "ws-close" /\ CloseLocal(m.id) /\ UNCHANGED <<dialTimer, toRelay>>
     \/ /\ m.type = "ws-close" /\ m.id \notin localWsConnections
        /\ UNCHANGED <<localWs, localWsConnections, dialTimer, toRelay>>
  /\ UNCHANGED <<wsRelay, servedWs>>

\* Mutant: the end of the connection leaves its local sockets open.
EndUnheard(g) == UNCHANGED wsVars

(* ended(), the end of connection g: its local sockets are closed. *)
EndWs(g) ==
  LET mine == {b \in localWsConnections : browser[b].ctl = g}
  IN  /\ localWs' = [b \in Browser |-> IF b \in mine THEN Closing(localWs[b]) ELSE localWs[b]]
      /\ localWsConnections' = localWsConnections \ mine
      /\ UNCHANGED <<wsRelay, dialTimer, servedWs>>

Served(b) == servedWs' = [servedWs EXCEPT ![b] = @ + 1]

(* The local socket opens; one to be closed does so, and is closed. *)
LocalOpen(b) ==
  /\ Served(b)
  /\ \/ /\ localWs[b].at = "dialing"
        /\ localWs' = [localWs EXCEPT ![b] = [at |-> "open", opened |-> TRUE]]
        /\ dialTimer' = dialTimer \ {b} /\ localWsConnections' = localWsConnections \cup {b}
        /\ Tell(b, "ws-ready")
     \/ /\ localWs[b].at = "doomed"
        /\ localWs' = [localWs EXCEPT ![b].at = "closing"]
        /\ UNCHANGED <<dialTimer, localWsConnections, toRelay>>
  /\ ConnectorStep

LocalError(b) ==
  /\ localWs[b].at \in {"dialing", "doomed", "open", "closing"}
  /\ localWs' = [localWs EXCEPT ![b].at = "errored"]
  /\ dialTimer' = dialTimer \ {b} /\ Forget(b)
  /\ Tell(b, "ws-error")
  /\ ConnectorStep /\ UNCHANGED servedWs

(* The local socket is closed, after an error or without one: the browser   *)
(* is told, as of an upgrade that failed if it never opened.                *)
LocalClose(b) ==
  /\ localWs[b].at \in {"dialing", "doomed", "open", "closing", "errored"}
  /\ localWs' = [localWs EXCEPT ![b].at = "over"]
  /\ dialTimer' = IF localWs[b].opened THEN dialTimer ELSE dialTimer \ {b}
  /\ Tell(b, IF localWs[b].opened THEN "ws-close" ELSE "ws-error")
  /\ Forget(b)
  /\ ConnectorStep /\ UNCHANGED servedWs

(* connectTimeout: 15 s without an open. *)
DialTimeout(b) ==
  /\ b \in dialTimer /\ dialTimer' = dialTimer \ {b}
  /\ localWs' = [localWs EXCEPT ![b] = Closing(@)] /\ Forget(b)
  /\ Tell(b, "ws-error")
  /\ ConnectorStep /\ UNCHANGED servedWs

-----------------------------------------------------------------------------
WsStep(b) ==
  \/ UpgradeAuthorized(b) \/ UpgradeMetered(b) \/ UpgradeTimeout(b)
  \/ BrowserMessage(b) \/ Charged(b) \/ BrowserClose(b)
  \/ LocalOpen(b) \/ LocalError(b) \/ LocalClose(b) \/ DialTimeout(b)

WsNext == Exhausted \/ \E b \in Browser : WsStep(b)

-----------------------------------------------------------------------------
TypeOKWs ==
  /\ browser \in [Browser -> BrowserType]
  /\ frame \in [Browser -> {"none", "charging", "done"}]
  /\ pendingUpgrades \subseteq Browser
  /\ localWs \in [Browser -> LocalWs]
  /\ localWsConnections \subseteq Browser /\ dialTimer \subseteq Browser
  /\ servedWs \in [Browser -> Nat]

(* An upgrade that waits has an entry and a timer, and no entry outlives    *)
(* its upgrade.                                                             *)
HeldWs == pendingUpgrades = {b \in Browser : browser[b].at = "upgrading"}

(* The connector can reach every local socket it must close: one that is    *)
(* connecting or open is in the map, or is being closed already.            *)
Reachable ==
  \A b \in Browser : localWs[b].at \in {"dialing", "open"} => b \in localWsConnections

(* One end is closed and the other is not: the browser left or answered a   *)
(* close, and the local socket is there; or the local socket is over, and   *)
(* the browser's is open. A register that found its connection gone leaves  *)
(* the browsers of that connection open: the exception.                     *)
HalfClosed(b) ==
  \/ browser[b].at = "closed" /\ localWs[b].at # "over"
  \/ browser[b].at = "open" /\ localWs[b].at = "over" /\ conn[browser[b].ctl] # "lost"
=============================================================================

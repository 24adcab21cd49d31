------------------------------- MODULE Relay -------------------------------
(***************************************************************************)
(* One tunnel at work: its control connections, the requests and the       *)
(* browser sockets that go through them, and the events that concern all   *)
(* of them - a connection is published, claimed, lost or ends, and each    *)
(* frame is dispatched by its type.                                        *)
(***************************************************************************)
EXTENDS HttpRelay, WsRelay

CONSTANT MaxCallers     \* bound on the requests and sockets that begin

ASSUME RelayAssumption == MaxCallers \in Nat /\ Visitor \cap Browser = {}

vars == <<links, toClient, toRelay, httpVars, wsVars>>

Init == InitLinks /\ InitHttp /\ InitWs

Begun == {v \in Visitor : visitor[v].at # "new"} \cup {b \in Browser : browser[b].at # "new"}

-----------------------------------------------------------------------------
disconnectTraffic == DisconnectHttp /\ DisconnectWs

(* The register of connection g is published: if it replaces another, the   *)
(* traffic of that one is failed.                                           *)
Publish(g) ==
  /\ PublishLink(g)
  /\ IF Serving = {} THEN UNCHANGED <<httpVars, wsVars>> ELSE disconnectTraffic

(* The register ends: the waiting reads go on, unless it was lost meanwhile.*)
Wake ==
  /\ reg.stage = "claimed" /\ reg' = Idle
  /\ WakeReads(reg.conn)
  /\ UNCHANGED <<conn, up, recent, connected, toClient, toRelay, wsVars>>

webSocketClose(g) == CloseLink(g) /\ disconnectTraffic

IsHttp(m) == m.type \in Requests \cup Responses

(* webSocketMessage of a control connection *)
ControlMessage(g) ==
  /\ toRelay[g] # << >>
  /\ toRelay' = [toRelay EXCEPT ![g] = Tail(@)]
  /\ LET m == Head(toRelay[g])
     IN  IF IsHttp(m) THEN HttpControlMessage(g, m) /\ UNCHANGED wsVars
         ELSE WsControlMessage(g, m) /\ UNCHANGED httpVars
  /\ UNCHANGED <<links, toClient>>

(* The message handler of a connector *)
ClientMessage(g) ==
  /\ toClient[g] # << >>
  /\ toClient' = [toClient EXCEPT ![g] = Tail(@)]
  /\ LET m == Head(toClient[g])
     IN  IF IsHttp(m) THEN HttpClientMessage(g, m) /\ UNCHANGED wsVars
         ELSE WsClientMessage(g, m) /\ UNCHANGED httpVars
  /\ UNCHANGED links

ended(g) == EndLink(g) /\ EndWs(g) /\ UNCHANGED httpVars

-----------------------------------------------------------------------------
Calls ==
  \/ /\ Cardinality(Begun) < MaxCallers
     /\ \/ (\E v \in Visitor : Arrive(v)) /\ UNCHANGED wsVars
        \/ (\E b \in Browser : Upgrade(b)) /\ UNCHANGED httpVars
  \/ (\E v \in Visitor : HttpStep(v)) /\ UNCHANGED wsVars
  \/ WsNext /\ UNCHANGED httpVars

Quiet(g) == (Accept(g) \/ Drop(g)) /\ UNCHANGED <<httpVars, wsVars>>
Links(g) == Publish(g) \/ webSocketClose(g) \/ ended(g)
Frames(g) == ControlMessage(g) \/ ClientMessage(g)

Next ==
  \/ Calls \/ Wake
  \/ (Claim \/ Elapse) /\ UNCHANGED <<httpVars, wsVars>>
  \/ \E g \in Gen : Quiet(g) \/ Links(g) \/ Frames(g)

Spec == Init /\ [][Next]_vars

(* The event loops of both ends: awaits return, timers fire, frames are     *)
(* delivered and ends noticed; a browser answers a close, and a local       *)
(* socket that is closing closes (safeClose and the ws library end it after *)
(* 5 s and 30 s). Nothing is asked of the network otherwise, nor of the     *)
(* local server.                                                            *)
Returns(v) == Preamble(v) \/ WaitEnds(v) \/ PendingTimeout(v) \/ IdleTimeout(v)
WsReturns(b) == \/ UpgradeAuthorized(b) \/ UpgradeMetered(b) \/ UpgradeTimeout(b)
                \/ browser[b].shut /\ BrowserClose(b)
                \/ localWs[b].at \in {"doomed", "closing", "errored"} /\ LocalClose(b)

FairSpec ==
  /\ Spec
  /\ \A v \in Visitor : WF_vars(Returns(v) /\ UNCHANGED wsVars)
  /\ \A b \in Browser : WF_vars(WsReturns(b) /\ UNCHANGED httpVars)
  /\ \A g \in Gen : WF_vars(ControlMessage(g) \/ ClientMessage(g) \/ webSocketClose(g) \/ ended(g))

-----------------------------------------------------------------------------
TypeOK ==
  /\ TypeOKLinks /\ TypeOKHttp /\ TypeOKWs
  /\ toClient \in [Gen -> Seq(HttpUp \cup WsUp)]
  /\ toRelay \in [Gen -> Seq(HttpDown \cup WsDown)]

(* Nobody is left hanging: whatever waits for an answer has an entry whose  *)
(* timer will answer it, and no entry outlives what it stands for.          *)
Held == HeldHttp /\ HeldWs

(* What waits for an answer or streams, upgrades that wait, and browsers    *)
(* whose socket is open belong to the registration that serves: nothing     *)
(* hangs on a connection that was closed or replaced, at whichever await    *)
(* that happened (DECISIONS D8: a control changed during an await fails     *)
(* closed). A register that found its connection gone is the exception.     *)
SentOnServing ==
  /\ \A v \in pendingHttp \cup streaming : conn[visitor[v].ctl] \in {"registered", "lost"}
  /\ \A b \in Browser : browser[b].at \in {"upgrading", "open"} /\ ~browser[b].shut =>
                          conn[browser[b].ctl] \in {"registered", "lost"}

(* Frames and closes of a browser, and upgrades, go to the connector of the *)
(* registration they belong to, and to no successor (DECISIONS D8).         *)
BoundToRegistration ==
  \A g \in Gen : \A i \in 1..Len(toClient[g]) :
    ~IsHttp(toClient[g][i]) => browser[toClient[g][i].id].ctl = g

(* Every request is answered, every stream and every upgrade ends, whatever *)
(* the local server or the network does. (A call is made once, so that      *)
(* none is left again and again.)                                           *)
EveryoneServed ==
  []<>(/\ \A v \in Visitor : visitor[v].at \notin Waits
       /\ \A b \in Browser : browser[b].at \notin {"auth", "meter", "upgrading"})

(* Neither end of a browser socket stays open behind the other.             *)
BothEndsClose == []<>(\A b \in Browser : ~HalfClosed(b))

-----------------------------------------------------------------------------
(* Relay implements Exchange. *)
PhaseOf(c) ==
  IF c \in Visitor
  THEN CASE visitor[c].at = "new" -> "new" [] visitor[c].at \in Over -> "over" [] OTHER -> "open"
  ELSE CASE browser[c].at = "new" -> "new"
         [] browser[c].at \in {"closed", "refused", "failed"} -> "over" [] OTHER -> "open"

E == INSTANCE Exchange WITH
       Call <- Visitor \cup Browser,
       phase <- [c \in Visitor \cup Browser |-> PhaseOf(c)],
       taken <- [c \in Visitor \cup Browser |-> IF c \in Visitor THEN accepted[c] ELSE servedWs[c]]

(* A call is begun once, taken by the local server at most once and not     *)
(* before, ends at most once, and never comes back.                         *)
Exchanged == E!Spec
=============================================================================

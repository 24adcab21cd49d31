---------------------------- MODULE RelayProofs ----------------------------
(* The theorems of Relay, for every number of connections, of requests, of *)
(* browser sockets and of chunks.                                          *)
EXTENDS Relay, SequenceTheorems, TLAPS

-----------------------------------------------------------------------------
(* The inductive invariant, part by part                                    *)

Early == {"new", "loss", "waiting", "auth", "meter", "capture"}
EarlyWs == {"new", "auth", "meter"}

(* At most one connection is registered, and while a register holds the     *)
(* chain no other is.                                                       *)
LinksHeld ==
  /\ TypeOKLinks
  /\ \A g, h \in Gen : conn[g] = "registered" /\ conn[h] = "registered" => g = h
  /\ reg.stage # "idle" => reg.conn \in Gen /\ \A g \in Gen : conn[g] = "registered" => g = reg.conn

(* The maps of the relay and the requests they stand for; a request that    *)
(* is past its look-up has a connection, and one that was sent has one      *)
(* whose traffic was not failed.                                            *)
RequestsHeld ==
  /\ visitor \in [Visitor -> VisitorType]
  /\ pendingHttp = {v \in Visitor : visitor[v].at = "sent"}
  /\ \A v \in streaming : v \in Visitor /\ visitor[v].at = "stream"
  /\ \A v \in Visitor : visitor[v].at \in {"auth", "meter", "capture"} => visitor[v].ctl \in Gen
  /\ \A v \in pendingHttp \cup streaming :
       visitor[v].ctl \in Gen /\ conn[visitor[v].ctl] \in {"registered", "lost"}

(* The same of the browser sockets. *)
BrowsersHeld ==
  /\ browser \in [Browser -> BrowserType]
  /\ frame \in [Browser -> {"none", "charging", "done"}]
  /\ HeldWs
  /\ \A b \in Browser : browser[b].at \in {"auth", "meter", "upgrading", "open"} => browser[b].ctl \in Gen
  /\ \A b \in Browser : browser[b].at \in {"upgrading", "open"} /\ ~browser[b].shut =>
                          conn[browser[b].ctl] \in {"registered", "lost"}

(* The connector's requests: dialed twice at most, taken once, and not      *)
(* before they were sent.                                                   *)
LocalsHeld ==
  /\ local \in [Visitor -> Local] /\ activeRequests \subseteq Visitor
  /\ accepted \in [Visitor -> 0..1]
  /\ \A v \in Visitor :
       /\ visitor[v].at \in Early => local[v].at = "none"
       /\ local[v].at = "none" => local[v].dials = 0
       /\ local[v].at = "refused" => local[v].dials = 1
       /\ local[v].at \in {"none", "dialed", "refused"} => accepted[v] = 0
       /\ v \in activeRequests => local[v].at # "none"
  /\ Abortable

(* Its sockets. *)
SocketsHeld ==
  /\ localWs \in [Browser -> LocalWs]
  /\ localWsConnections \subseteq Browser /\ dialTimer \subseteq Browser
  /\ servedWs \in [Browser -> 0..1]
  /\ \A b \in Browser :
       /\ browser[b].at \in EarlyWs => localWs[b].at = "none"
       /\ localWs[b].at \in {"none", "dialing", "doomed"} => servedWs[b] = 0
  /\ Reachable

(* Frames to the connectors: what begins a request or a socket there comes  *)
(* once, for a caller that was sent on and is not known yet; what concerns  *)
(* a socket is on the connection of its registration.                       *)
Opening == {"request", "ws-upgrade"}
Up == HttpUp \cup WsUp

FrameSafe(g, m) ==
  /\ m.type = "request" => visitor[m.req].at \notin Early /\ local[m.req].at = "none"
  /\ m.type = "ws-upgrade" => localWs[m.id].at = "none"
  /\ ~IsHttp(m) => browser[m.id].at \notin EarlyWs /\ browser[m.id].ctl = g

FramesUp ==
  /\ toClient \in [Gen -> Seq(Up)]
  /\ \A g \in Gen : \A i \in 1..Len(toClient[g]) : FrameSafe(g, toClient[g][i])
  /\ \A g, h \in Gen : \A i \in 1..Len(toClient[g]), j \in 1..Len(toClient[h]) :
       toClient[g][i] = toClient[h][j] /\ toClient[g][i].type \in Opening => g = h /\ i = j
  /\ \A b \in Browser : frame[b] # "none" => browser[b].at \notin EarlyWs

(* Frames to the relay; a connector that encodes its chunks is heard in     *)
(* every stream until it ends.                                              *)
Down == HttpDown \cup WsDown

FramesDown ==
  /\ toRelay \in [Gen -> Seq(Down)]
  /\ ~Malformed => \A g \in Gen : \A i \in 1..Len(toRelay[g]) :
                     toRelay[g][i].type = "response-chunk" => toRelay[g][i].fine
  /\ ~Malformed => \A v \in Visitor : visitor[v].at = "stream" => v \in streaming

Inv == /\ LinksHeld /\ RequestsHeld /\ BrowsersHeld /\ LocalsHeld /\ SocketsHeld
       /\ FramesUp /\ FramesDown /\ NoReadLeftWaiting

-----------------------------------------------------------------------------
(* The steps, grouped by the state they can change                          *)

RequestStep(v) ==
  Arrive(v) \/ Preamble(v) \/ WaitEnds(v) \/ Abort(v) \/ PendingTimeout(v) \/ IdleTimeout(v)
BrowserStep(b) ==
  \/ Upgrade(b) \/ UpgradeAuthorized(b) \/ UpgradeMetered(b) \/ UpgradeTimeout(b)
  \/ BrowserMessage(b) \/ Charged(b) \/ BrowserClose(b)
SocketStep(b) == LocalOpen(b) \/ LocalError(b) \/ LocalClose(b) \/ DialTimeout(b)

LEMMA Steps ==
  ASSUME [Next]_vars
  PROVE  \/ \E v \in Visitor : (RequestStep(v) \/ Serve(v)) /\ UNCHANGED wsVars
         \/ (Exhausted \/ \E b \in Browser : BrowserStep(b) \/ SocketStep(b)) /\ UNCHANGED httpVars
         \/ Wake
         \/ (Claim \/ Elapse) /\ UNCHANGED <<httpVars, wsVars>>
         \/ \E g \in Gen : \/ Quiet(g) \/ Publish(g) \/ webSocketClose(g) \/ ended(g)
                           \/ ControlMessage(g) \/ ClientMessage(g)
         \/ UNCHANGED vars
BY DEF Next, Calls, HttpStep, WsNext, WsStep, RequestStep, BrowserStep, SocketStep, Links, Frames

(* What each group leaves alone. *)
LEMMA RequestStepKeeps ==
  ASSUME NEW v \in Visitor, RequestStep(v)
  PROVE  UNCHANGED <<links, toRelay, connector>>
BY DEF RequestStep, Arrive, Preamble, ReadLoss, Authorized, Metered, Captured, WaitEnds, Abort,
       PendingTimeout, IdleTimeout, At

LEMMA ServeKeeps ==
  ASSUME NEW v \in Visitor, Serve(v)
  PROVE  UNCHANGED <<links, visitor, maps, toClient>>
BY DEF Serve, Refused, Resolved, Take, Fail, Answer, Chunk, End, Break, LocalStep

LEMMA BrowserStepKeeps ==
  ASSUME NEW b \in Browser, BrowserStep(b)
  PROVE  UNCHANGED <<links, toRelay, wsConnector>>
BY DEF BrowserStep, Upgrade, UpgradeAuthorized, UpgradeMetered, UpgradeTimeout, BrowserMessage,
       Charged, BrowserClose, RelayStep

LEMMA SocketStepKeeps ==
  ASSUME NEW b \in Browser, SocketStep(b)
  PROVE  UNCHANGED <<links, wsRelay, toClient>>
BY DEF SocketStep, LocalOpen, LocalError, LocalClose, DialTimeout, ConnectorStep

-----------------------------------------------------------------------------
(* The connection that serves                                               *)

LEMMA CtlServes ==
  ASSUME LinksHeld
  PROVE  /\ ctl \in 0..Gens
         /\ ctl # 0 => ctl \in Gen /\ ctl \in up /\ conn[ctl] = "registered"
         /\ \A g \in Gen : g \in up /\ conn[g] = "registered" => ctl = g
BY GensAssumption DEF LinksHeld, ctl, Gen

LEMMA CtlServesNext ==
  ASSUME LinksHeld'
  PROVE  ctl' # 0 => ctl' \in Gen /\ ctl' \in up' /\ conn'[ctl'] = "registered"
BY GensAssumption DEF LinksHeld, ctl, Gen

LEMMA CtlStays == ASSUME UNCHANGED <<conn, up>> PROVE ctl' = ctl
BY DEF ctl

LEMMA RegisterTypes ==
  /\ Idle \in Registering
  /\ \A g \in Gen : [conn |-> g, stage |-> "settling"] \in Registering
  /\ 0 \notin Gen
BY GensAssumption DEF Idle, Registering, Gen

LEMMA PublishLinks ==
  ASSUME Inv, NEW g \in Gen, PublishLink(g)
  PROVE  LinksHeld'
<1>1. TypeOKLinks'
  BY RegisterTypes DEF Inv, LinksHeld, TypeOKLinks, PublishLink, ConnStates, Serving
<1>2. \A h \in Gen : conn'[h] = "registered" => h = g
  BY DEF Inv, LinksHeld, TypeOKLinks, PublishLink, Serving
<1> QED BY <1>1, <1>2 DEF LinksHeld, PublishLink

LEMMA LinksStep == Inv /\ [Next]_vars => LinksHeld'
<1> SUFFICES ASSUME Inv, [Next]_vars PROVE LinksHeld'
  OBVIOUS
<1>1. CASE UNCHANGED links
  BY <1>1 DEF links, Inv, LinksHeld, TypeOKLinks
<1>2. CASE Wake
  BY <1>2, RegisterTypes DEF Wake, Inv, LinksHeld, TypeOKLinks, Idle
<1>3. CASE Claim
  <2>1. reg.conn \in Gen
    BY <1>3 DEF Claim, Inv, LinksHeld
  <2>2. CASE reg.conn \in up
    BY <1>3, <2>1, <2>2 DEF Claim, Inv, LinksHeld, TypeOKLinks, Registering
  <2>3. CASE reg.conn \notin up
    BY <1>3, <2>1, <2>3, RegisterTypes DEF Claim, Inv, LinksHeld, TypeOKLinks, Idle, ConnStates
  <2> QED BY <2>2, <2>3
<1>4. CASE Elapse
  BY <1>4 DEF Elapse, Inv, LinksHeld, TypeOKLinks
<1>5. ASSUME NEW g \in Gen, Quiet(g) PROVE LinksHeld'
  BY <1>5 DEF Quiet, Accept, Drop, Inv, LinksHeld, TypeOKLinks, ConnStates
<1>6. ASSUME NEW g \in Gen, Publish(g) PROVE LinksHeld'
  BY <1>6, PublishLinks DEF Publish
<1>7. ASSUME NEW g \in Gen, webSocketClose(g) PROVE LinksHeld'
  BY <1>7 DEF webSocketClose, CloseLink, Inv, LinksHeld, TypeOKLinks, ConnStates
<1>8. ASSUME NEW g \in Gen, ended(g) PROVE LinksHeld'
  BY <1>8 DEF ended, EndLink, Inv, LinksHeld, TypeOKLinks
<1>9. ASSUME NEW g \in Gen, ControlMessage(g) \/ ClientMessage(g) PROVE UNCHANGED links
  BY <1>9 DEF ControlMessage, ClientMessage
<1>10. (Exhausted \/ UNCHANGED vars) => UNCHANGED links
  BY DEF Exhausted, RelayStep, vars, links
<1> QED BY <1>1, <1>2, <1>3, <1>4, <1>5, <1>6, <1>7, <1>8, <1>9, <1>10, Steps,
           RequestStepKeeps, ServeKeeps, BrowserStepKeeps, SocketStepKeeps DEF links

(* Which connection serves changes by a publication, or ends.               *)
LEMMA CtlChanges ==
  ASSUME Inv, [Next]_vars, LinksHeld'
  PROVE  ctl' \in {ctl, 0} \/ \E g \in Gen : Publish(g) /\ ctl' \in {0, g}
<1>1. CASE UNCHANGED <<conn, up>>
  BY <1>1, CtlStays
<1>2. CASE conn' # conn \/ up' # up
  <2>1. \/ Claim
        \/ \E g \in Gen : Quiet(g) \/ Publish(g) \/ webSocketClose(g)
    BY <1>2, Steps, RequestStepKeeps, ServeKeeps, BrowserStepKeeps, SocketStepKeeps
       DEF links, Wake, Elapse, ended, EndLink, ControlMessage, ClientMessage, Exhausted, RelayStep, vars
  <2>2. CASE Claim \/ \E g \in Gen : Quiet(g) \/ webSocketClose(g)
    <3>1. \A h \in Gen : h \in up' /\ conn'[h] = "registered" => h \in up /\ conn[h] = "registered"
      BY <2>2 DEF Claim, Quiet, Accept, Drop, webSocketClose, CloseLink, Inv, LinksHeld, TypeOKLinks
    <3> QED BY <3>1, CtlServes, CtlServesNext DEF Inv
  <2>3. ASSUME NEW g \in Gen, Publish(g) PROVE ctl' \in {0, g}
    <3>1. \A h \in Gen : conn'[h] = "registered" => h = g
      BY <2>3 DEF Publish, PublishLink, Serving, Inv, LinksHeld, TypeOKLinks
    <3> QED BY <3>1, CtlServesNext
  <2> QED BY <2>1, <2>2, <2>3
<1> QED BY <1>1, <1>2
-----------------------------------------------------------------------------
(* The requests and the maps of the relay                                   *)

LEMMA VisitorTypes ==
  ASSUME NEW r \in VisitorType, NEW at \in {"new"} \cup Waits \cup Over
  PROVE  /\ [r EXCEPT !.at = at] \in VisitorType
         /\ [r EXCEPT !.at = at].at = at
         /\ [r EXCEPT !.at = at].ctl = r.ctl
BY DEF VisitorType

(* Before it is sent a request has no entry: the relay only looks on.       *)
LEMMA UnsentStep ==
  ASSUME RequestsHeld, NEW v \in Visitor, NEW r \in VisitorType,
         visitor' = [visitor EXCEPT ![v] = r],
         visitor[v].at \notin {"sent", "stream"}, r.at \notin {"sent", "stream"},
         r.at \in {"auth", "meter", "capture"} => r.ctl \in Gen,
         UNCHANGED <<conn, maps>>
  PROVE  RequestsHeld'
<1>1. visitor' \in [Visitor -> VisitorType]
  BY DEF RequestsHeld
<1>2. \A w \in Visitor : w # v => visitor'[w] = visitor[w]
  BY DEF RequestsHeld
<1>3. visitor'[v] = r
  BY DEF RequestsHeld
<1>4. v \notin pendingHttp \cup streaming
  BY DEF RequestsHeld
<1> QED BY <1>1, <1>2, <1>3, <1>4 DEF RequestsHeld, maps

(* A dispatch needs a connection that serves. *)
LEMMA DispatchStep ==
  ASSUME RequestsHeld, NEW v \in Visitor, visitor[v].at \in {"meter", "capture"},
         conn[visitor[v].ctl] = "registered", Dispatch(v), UNCHANGED conn
  PROVE  RequestsHeld'
<1> DEFINE r == [visitor[v] EXCEPT !.at = "sent"]
<1>1. visitor' = [visitor EXCEPT ![v] = r] /\ pendingHttp' = pendingHttp \cup {v} /\ UNCHANGED streaming
  BY DEF Dispatch, To
<1>2. visitor[v] \in VisitorType
  BY DEF RequestsHeld
<1>3. r \in VisitorType /\ r.at = "sent" /\ r.ctl = visitor[v].ctl
  BY <1>2, GensAssumption DEF VisitorType, Waits
<1> HIDE DEF r
<1>4. visitor' \in [Visitor -> VisitorType] /\ visitor'[v] = r
      /\ \A w \in Visitor : w # v => visitor'[w] = visitor[w]
  BY <1>1, <1>3 DEF RequestsHeld
<1>5. visitor[v].ctl \in Gen
  BY DEF RequestsHeld
<1> QED BY <1>1, <1>3, <1>4, <1>5 DEF RequestsHeld

(* An entry ends with the wait of its request. *)
LEMMA EntryEnds ==
  ASSUME RequestsHeld, NEW v \in Visitor, NEW r \in VisitorType,
         visitor' = [visitor EXCEPT ![v] = r], r.at \in Over,
         pendingHttp' = pendingHttp \ {v}, streaming' = streaming \ {v}, UNCHANGED conn
  PROVE  RequestsHeld'
<1>1. visitor' \in [Visitor -> VisitorType]
  BY DEF RequestsHeld
<1>2. \A w \in Visitor : w # v => visitor'[w] = visitor[w]
  BY DEF RequestsHeld
<1>3. visitor'[v] = r
  BY DEF RequestsHeld
<1> QED BY <1>1, <1>2, <1>3 DEF RequestsHeld, Over

LEMMA EndsStep ==
  ASSUME RequestsHeld, NEW v \in Visitor, NEW at \in Over, To(v, at),
         pendingHttp' = pendingHttp \ {v}, streaming' = streaming \ {v}, UNCHANGED conn
  PROVE  RequestsHeld'
<1>1. visitor[v] \in VisitorType
  BY DEF RequestsHeld
<1>2. /\ [visitor[v] EXCEPT !.at = at] \in VisitorType
      /\ [visitor[v] EXCEPT !.at = at].at = at
  BY <1>1, VisitorTypes
<1> QED BY <1>2, EntryEnds DEF To

LEMMA RequestStepHeld ==
  ASSUME Inv, NEW v \in Visitor, RequestStep(v)
  PROVE  RequestsHeld'
<1>1. UNCHANGED <<conn, up>> /\ RequestsHeld /\ LinksHeld
  BY RequestStepKeeps DEF links, Inv
<1>2. visitor[v] \in VisitorType /\ ctl \in 0..Gens /\ (ctl # 0 => ctl \in Gen)
  BY <1>1, CtlServes DEF RequestsHeld
<1>3. \A at \in {"new"} \cup Waits \cup Over :
        /\ [visitor[v] EXCEPT !.at = at] \in VisitorType
        /\ [visitor[v] EXCEPT !.at = at].at = at
        /\ [visitor[v] EXCEPT !.at = at].ctl = visitor[v].ctl
  BY <1>2, VisitorTypes
<1>4. \A g \in {0, ctl} : /\ Resumed(v, g) \in VisitorType
                          /\ Resumed(v, g).at \in {"answered", "auth"}
                          /\ Resumed(v, g).at = "auth" => Resumed(v, g).ctl \in Gen
  <2> SUFFICES ASSUME NEW g \in {0, ctl}
               PROVE  /\ Resumed(v, g) \in VisitorType
                      /\ Resumed(v, g).at \in {"answered", "auth"}
                      /\ Resumed(v, g).at = "auth" => Resumed(v, g).ctl \in Gen
    OBVIOUS
  <2>1. g \in 0..Gens
    BY <1>2, GensAssumption
  <2> DEFINE at == IF g = 0 THEN "answered" ELSE "auth"
             r == visitor[v]
  <2>2. at \in {"new"} \cup Waits \cup Over /\ at \in {"answered", "auth"} /\ (at = "auth" => g \in Gen)
    BY <1>2 DEF Waits, Over
  <2>3. Resumed(v, g) = [r EXCEPT !.at = at, !.ctl = g]
    BY DEF Resumed
  <2>4. r \in VisitorType
    BY <1>2
  <2> HIDE DEF at, r
  <2>5. /\ [r EXCEPT !.at = at, !.ctl = g] \in VisitorType
        /\ [r EXCEPT !.at = at, !.ctl = g].at = at
        /\ [r EXCEPT !.at = at, !.ctl = g].ctl = g
    BY <2>1, <2>2, <2>4 DEF VisitorType
  <2> QED BY <2>2, <2>3, <2>5
<1>5. ASSUME NEW g \in {0, ctl}, visitor[v].at \in {"new", "loss", "waiting"}, Resume(v, g), Unsent
      PROVE  RequestsHeld'
  BY <1>1, <1>4, <1>5, UnsentStep DEF Resume, Unsent
<1>6. ASSUME NEW at \in {"loss", "waiting", "answered"}, visitor[v].at \notin {"sent", "stream"},
             To(v, at), UNCHANGED maps
      PROVE  RequestsHeld'
  BY <1>1, <1>3, <1>6, UnsentStep DEF To, Waits, Over
<1>7. CASE Arrive(v)
  BY <1>5, <1>6, <1>7 DEF Arrive, At, Unsent
<1>8. CASE ReadLoss(v)
  BY <1>5, <1>6, <1>8 DEF ReadLoss, At, Unsent
<1>9. CASE Authorized(v)
  <2>1. CASE To(v, "answered")
    BY <1>6, <1>9, <2>1 DEF Authorized, At, Unsent
  <2>2. CASE To(v, "meter")
    <3>1. visitor[v].at = "auth" /\ UNCHANGED maps
      BY <1>9 DEF Authorized, At, Unsent
    <3>2. visitor[v].ctl \in Gen
      BY <1>1, <3>1 DEF RequestsHeld
    <3> QED BY <1>1, <1>3, <2>2, <3>1, <3>2, UnsentStep, ZenonT(30) DEF To, Waits
  <2> QED BY <1>9, <2>1, <2>2 DEF Authorized
<1>10. CASE Metered(v)
  <2>1. visitor[v].at = "meter"
    BY <1>10 DEF Metered, At
  <2>2. visitor[v].ctl \in Gen
    BY <1>1, <2>1 DEF RequestsHeld
  <2>3. CASE To(v, "answered") /\ Unsent
    BY <1>6, <2>1, <2>3 DEF Unsent
  <2>4. CASE To(v, "capture") /\ Unsent
    BY <1>1, <1>3, <2>1, <2>2, <2>4, UnsentStep DEF To, Unsent, Waits
  <2>5. CASE ctl = visitor[v].ctl /\ Dispatch(v)
    BY <1>1, <2>1, <2>2, <2>5, RegisterTypes, CtlServes, DispatchStep
  <2> QED BY <1>10, <2>3, <2>4, <2>5 DEF Metered
<1>11. CASE Captured(v)
  <2>1. visitor[v].at = "capture"
    BY <1>11 DEF Captured, At
  <2>2. visitor[v].ctl \in Gen
    BY <1>1, <2>1 DEF RequestsHeld
  <2>3. CASE To(v, "answered") /\ Unsent
    BY <1>6, <2>1, <2>3 DEF Unsent
  <2>4. CASE ctl = visitor[v].ctl /\ Dispatch(v)
    BY <1>1, <2>1, <2>2, <2>4, RegisterTypes, CtlServes, DispatchStep
  <2> QED BY <1>11, <2>3, <2>4 DEF Captured
<1>12. CASE WaitEnds(v)
  BY <1>5, <1>12 DEF WaitEnds, At
<1>13. CASE Abort(v)
  <2> DEFINE at == CASE visitor[v].at = "waiting" -> "answered"
                     [] visitor[v].at = "stream" -> "ended" [] OTHER -> visitor[v].at
             r == [visitor[v] EXCEPT !.gone = TRUE, !.at = at]
  <2>1. /\ visitor[v].at \in Waits /\ visitor' = [visitor EXCEPT ![v] = r]
        /\ streaming' = streaming \ {v} /\ UNCHANGED pendingHttp
    BY <1>13 DEF Abort
  <2>2. at \in {"new"} \cup Waits \cup Over
    BY <2>1 DEF Waits, Over
  <2>3. r \in VisitorType /\ r.at = at /\ r.ctl = visitor[v].ctl
    BY <1>2, <2>2 DEF VisitorType
  <2>4. visitor[v].at = "stream" => at = "ended"
    OBVIOUS
  <2>5. visitor[v].at # "stream" => at \in {visitor[v].at, "answered"} /\ (visitor[v].at = "sent" => at = "sent")
    OBVIOUS
  <2>6. at \in {"auth", "meter", "capture"} => visitor[v].at = at
    OBVIOUS
  <2>9. at = "sent" <=> visitor[v].at = "sent"
    OBVIOUS
  <2>10. at = "stream" => FALSE
    OBVIOUS
  <2> HIDE DEF at, r
  <2>7. visitor' \in [Visitor -> VisitorType] /\ visitor'[v] = r
        /\ \A w \in Visitor : w # v => visitor'[w] = visitor[w]
    BY <1>1, <2>1, <2>3 DEF RequestsHeld
  <2>8. pendingHttp' = {w \in Visitor : visitor'[w].at = "sent"}
    BY <1>1, <2>1, <2>3, <2>7, <2>9 DEF RequestsHeld
  <2> QED BY <1>1, <2>1, <2>3, <2>6, <2>7, <2>8 DEF RequestsHeld
<1>14. CASE PendingTimeout(v)
  BY <1>1, <1>14, EndsStep DEF PendingTimeout, Over
<1>15. CASE IdleTimeout(v)
  <2>1. v \notin pendingHttp
    BY <1>1, <1>15 DEF IdleTimeout, RequestsHeld
  <2> QED BY <1>1, <1>15, <2>1, EndsStep DEF IdleTimeout, Over
<1> QED BY <1>7, <1>8, <1>9, <1>10, <1>11, <1>12, <1>13, <1>14, <1>15 DEF RequestStep, Preamble

(* disconnectTraffic leaves no entry, whatever becomes of the connections.  *)
LEMMA DisconnectRequests ==
  ASSUME RequestsHeld, DisconnectHttp
  PROVE  RequestsHeld'
<1>1. \A v \in Visitor : /\ visitor'[v] \in VisitorType
                         /\ visitor'[v].ctl = visitor[v].ctl
                         /\ v \in pendingHttp \cup streaming => visitor'[v].at \in Over
                         /\ v \notin pendingHttp \cup streaming => visitor'[v] = visitor[v]
  <2> SUFFICES ASSUME NEW v \in Visitor
               PROVE  /\ visitor'[v] \in VisitorType
                      /\ visitor'[v].ctl = visitor[v].ctl
                      /\ v \in pendingHttp \cup streaming => visitor'[v].at \in Over
                      /\ v \notin pendingHttp \cup streaming => visitor'[v] = visitor[v]
    OBVIOUS
  <2>1. visitor[v] \in VisitorType
    BY DEF RequestsHeld
  <2>2. CASE v \in pendingHttp
    <3>0. v \notin streaming
      BY <2>2 DEF RequestsHeld
    <3>1. visitor'[v] = [visitor[v] EXCEPT !.at = "answered"]
      BY <2>2, <3>0 DEF DisconnectHttp
    <3> QED BY <2>1, <2>2, <3>1 DEF VisitorType, Over
  <2>3. CASE v \notin pendingHttp /\ v \in streaming
    <3>1. visitor'[v] = [visitor[v] EXCEPT !.at = "cut"]
      BY <2>3 DEF DisconnectHttp
    <3> QED BY <2>1, <2>3, <3>1 DEF VisitorType, Over
  <2>4. CASE v \notin pendingHttp \cup streaming
    <3>1. visitor'[v] = visitor[v]
      BY <2>4 DEF DisconnectHttp
    <3> QED BY <2>1, <2>4, <3>1
  <2> QED BY <2>2, <2>3, <2>4
<1>2. visitor' \in [Visitor -> VisitorType] /\ pendingHttp' = {} /\ streaming' = {}
  BY <1>1 DEF DisconnectHttp
<1> QED BY <1>1, <1>2 DEF RequestsHeld, Over

LEMMA WakeRequests ==
  ASSUME Inv, Wake
  PROVE  RequestsHeld'
<1>1. RequestsHeld /\ LinksHeld /\ UNCHANGED <<conn, maps>> /\ reg.conn \in Gen
  BY DEF Inv, LinksHeld, Wake, WakeReads
<1>2. \A v \in Visitor : /\ visitor'[v] \in VisitorType
                         /\ visitor'[v] # visitor[v] =>
                              /\ visitor[v].at = "waiting" /\ visitor'[v].at = "auth"
                              /\ visitor'[v].ctl \in Gen
  <2> SUFFICES ASSUME NEW v \in Visitor
               PROVE  /\ visitor'[v] \in VisitorType
                      /\ visitor'[v] # visitor[v] =>
                           /\ visitor[v].at = "waiting" /\ visitor'[v].at = "auth"
                           /\ visitor'[v].ctl \in Gen
    OBVIOUS
  <2>1. visitor[v] \in VisitorType
    BY <1>1 DEF RequestsHeld
  <2>2. CASE visitor[v].at = "waiting" /\ ctl = reg.conn
    <3>1. visitor'[v] = [visitor[v] EXCEPT !.at = "auth", !.ctl = ctl]
      BY <1>1, <2>2, RegisterTypes DEF Wake, WakeReads, Resumed
    <3>2. ctl \in Gen /\ ctl \in 0..Gens
      BY <1>1, <2>2, CtlServes
    <3> QED BY <2>1, <2>2, <3>1, <3>2 DEF VisitorType, Waits
  <2>3. CASE ~(visitor[v].at = "waiting" /\ ctl = reg.conn)
    BY <2>1, <2>3 DEF Wake, WakeReads
  <2> QED BY <2>2, <2>3
<1>3. visitor' \in [Visitor -> VisitorType]
  BY <1>2 DEF Wake, WakeReads
<1> QED BY <1>1, <1>2, <1>3 DEF RequestsHeld, maps

LEMMA ControlMessageRequests ==
  ASSUME Inv, NEW g \in Gen, ControlMessage(g)
  PROVE  RequestsHeld'
<1>1. RequestsHeld /\ UNCHANGED conn
  BY DEF Inv, ControlMessage, links
<1>2. CASE UNCHANGED <<visitor, maps>>
  BY <1>1, <1>2 DEF RequestsHeld, maps
<1>3. CASE ~UNCHANGED <<visitor, maps>>
  <2> DEFINE m == Head(toRelay[g])
  <2>1. Heard(g, m) /\ HttpControlMessage(g, m)
    BY <1>3 DEF ControlMessage, HttpControlMessage, httpVars
  <2> HIDE DEF m
  <2>2. m.req \in Visitor
    BY <1>1, <2>1 DEF Heard, RequestsHeld
  <2>3. CASE m.type \in {"response", "response-end"}
    BY <1>1, <2>1, <2>2, <2>3, EndsStep DEF HttpControlMessage, Ends, Over
  <2>4. CASE m.type = "response-start"
    <3>1. m.req \in pendingHttp /\ ResponseStart(m.req, m)
      BY <1>1, <2>1, <2>4 DEF Heard, HttpControlMessage
    <3>2. m.req \notin streaming
      BY <1>1, <3>1 DEF RequestsHeld
    <3>3. CASE m.fine
      <4> DEFINE r == [visitor[m.req] EXCEPT !.at = "stream"]
      <4>1. visitor' = [visitor EXCEPT ![m.req] = r]
            /\ pendingHttp' = pendingHttp \ {m.req} /\ streaming' = streaming \cup {m.req}
        BY <3>1, <3>3 DEF ResponseStart, To
      <4>2. visitor[m.req] \in VisitorType
        BY <1>1, <2>2 DEF RequestsHeld
      <4>3. r \in VisitorType /\ r.at = "stream" /\ r.ctl = visitor[m.req].ctl
        BY <4>2, VisitorTypes DEF Waits
      <4> HIDE DEF r
      <4>4. visitor' \in [Visitor -> VisitorType] /\ visitor'[m.req] = r
            /\ \A w \in Visitor : w # m.req => visitor'[w] = visitor[w]
        BY <1>1, <2>2, <4>1, <4>3 DEF RequestsHeld
      <4> QED BY <1>1, <2>2, <3>1, <4>1, <4>3, <4>4 DEF RequestsHeld
    <3>4. CASE ~m.fine
      BY <1>1, <2>2, <3>1, <3>2, <3>4, EndsStep DEF ResponseStart, Over
    <3> QED BY <3>3, <3>4
  <2>5. CASE m.type = "response-chunk"
    <3>1. UNCHANGED <<visitor, pendingHttp>> /\ (streaming' = streaming \/ streaming' = streaming \ {m.req})
      BY <2>1, <2>5 DEF HttpControlMessage, ResponseChunk
    <3> QED BY <1>1, <3>1 DEF RequestsHeld
  <2> QED BY <2>1, <2>3, <2>4, <2>5, <1>3 DEF HttpControlMessage
<1> QED BY <1>2, <1>3

(* A connection that is published or retired fails the requests that were   *)
(* sent on it; the other changes leave it registered, or lost.              *)
LEMMA RequestsStep == Inv /\ [Next]_vars => RequestsHeld'
<1> SUFFICES ASSUME Inv, [Next]_vars PROVE RequestsHeld'
  OBVIOUS
<1>1. RequestsHeld /\ LinksHeld
  BY DEF Inv
<1>2. CASE /\ UNCHANGED <<visitor, maps>>
           /\ \A g \in Gen : conn[g] \in {"registered", "lost"} => conn'[g] \in {"registered", "lost"}
  BY <1>1, <1>2 DEF RequestsHeld, maps
<1>3. ASSUME NEW v \in Visitor, Serve(v) PROVE RequestsHeld'
  BY <1>2, <1>3, ServeKeeps DEF links
<1>4. ASSUME NEW b \in Browser, BrowserStep(b) \/ SocketStep(b), UNCHANGED httpVars PROVE RequestsHeld'
  BY <1>2, <1>4, BrowserStepKeeps, SocketStepKeeps DEF links, httpVars
<1>5. CASE Exhausted /\ UNCHANGED httpVars
  BY <1>2, <1>5 DEF Exhausted, RelayStep, links, httpVars
<1>6. CASE (Claim \/ Elapse) /\ UNCHANGED <<httpVars, wsVars>>
  BY <1>1, <1>2, <1>6 DEF Claim, Elapse, httpVars, LinksHeld, TypeOKLinks
<1>7. ASSUME NEW g \in Gen, Quiet(g) PROVE RequestsHeld'
  BY <1>1, <1>2, <1>7 DEF Quiet, Accept, Drop, httpVars, LinksHeld, TypeOKLinks
<1>8. ASSUME NEW g \in Gen, Publish(g) PROVE RequestsHeld'
  <2>1. CASE Serving = {}
    <3>1. UNCHANGED <<visitor, maps>>
      BY <1>8, <2>1 DEF Publish, httpVars
    <3>2. \A h \in Gen : conn[h] \in {"registered", "lost"} => conn'[h] = conn[h]
      BY <1>1, <1>8, <2>1 DEF Publish, PublishLink, Serving, LinksHeld, TypeOKLinks
    <3> QED BY <1>2, <3>1, <3>2
  <2>2. CASE Serving # {}
    BY <1>1, <1>8, <2>2, DisconnectRequests DEF Publish, disconnectTraffic
  <2> QED BY <2>1, <2>2
<1>9. ASSUME NEW g \in Gen, webSocketClose(g) PROVE RequestsHeld'
  BY <1>1, <1>9, DisconnectRequests DEF webSocketClose, disconnectTraffic
<1>10. ASSUME NEW g \in Gen, ended(g) PROVE RequestsHeld'
  BY <1>2, <1>10 DEF ended, EndLink, httpVars
<1>11. ASSUME NEW g \in Gen, ClientMessage(g) PROVE RequestsHeld'
  BY <1>2, <1>11 DEF ClientMessage, HttpClientMessage, httpVars, links
<1>12. CASE UNCHANGED vars
  BY <1>2, <1>12 DEF vars, httpVars, links
<1> QED BY <1>3, <1>4, <1>5, <1>6, <1>7, <1>8, <1>9, <1>10, <1>11, <1>12, Steps,
           RequestStepHeld, WakeRequests, ControlMessageRequests
-----------------------------------------------------------------------------
(* The browser sockets                                                      *)

LEMMA BrowserUpdate ==
  ASSUME BrowsersHeld, NEW b \in Browser, NEW r \in BrowserType,
         browser' = [browser EXCEPT ![b] = r],
         pendingUpgrades' = IF r.at = "upgrading" THEN pendingUpgrades \cup {b}
                            ELSE pendingUpgrades \ {b},
         r.at \in {"auth", "meter", "upgrading", "open"} => r.ctl \in Gen,
         r.at \in {"upgrading", "open"} /\ ~r.shut => conn[r.ctl] \in {"registered", "lost"},
         frame' \in [Browser -> {"none", "charging", "done"}], UNCHANGED conn
  PROVE  BrowsersHeld'
<1>1. browser' \in [Browser -> BrowserType] /\ browser'[b] = r
      /\ \A c \in Browser : c # b => browser'[c] = browser[c]
  BY DEF BrowsersHeld
<1>2. HeldWs'
  BY <1>1 DEF BrowsersHeld, HeldWs
<1> QED BY <1>1, <1>2 DEF BrowsersHeld

LEMMA FailedType ==
  ASSUME BrowsersHeld, NEW b \in Browser
  PROVE  Failed(b) \in BrowserType /\ Failed(b).at = "failed" /\ Failed(b).ctl = browser[b].ctl
<1>1. browser[b] \in BrowserType
  BY DEF BrowsersHeld
<1> QED BY <1>1 DEF Failed, BrowserType

LEMMA MoveBrowser ==
  ASSUME BrowsersHeld, NEW b \in Browser,
         NEW at \in {"meter", "upgrading", "open", "closed", "refused"}, BrowserTo(b, at),
         at \in {"meter", "upgrading", "open"} => browser[b].at \in {"auth", "meter", "upgrading"},
         at \in {"upgrading", "open"} =>
           browser[b].at = "upgrading" \/ conn[browser[b].ctl] \in {"registered", "lost"},
         pendingUpgrades' = IF at = "upgrading" THEN pendingUpgrades \cup {b}
                            ELSE pendingUpgrades \ {b},
         frame' \in [Browser -> {"none", "charging", "done"}], UNCHANGED conn
  PROVE  BrowsersHeld'
<1> DEFINE r == [browser[b] EXCEPT !.at = at]
<1>1. browser[b] \in BrowserType
  BY DEF BrowsersHeld
<1>2. r \in BrowserType /\ r.at = at /\ r.ctl = browser[b].ctl /\ r.shut = browser[b].shut
  BY <1>1 DEF BrowserType
<1>3. browser' = [browser EXCEPT ![b] = r]
  BY DEF BrowserTo
<1> HIDE DEF r
<1>4. r.at \in {"auth", "meter", "upgrading", "open"} => r.ctl \in Gen
  BY <1>2 DEF BrowsersHeld
<1>5. r.at \in {"upgrading", "open"} /\ ~r.shut => conn[r.ctl] \in {"registered", "lost"}
  BY <1>2 DEF BrowsersHeld
<1> QED BY <1>2, <1>3, <1>4, <1>5, BrowserUpdate

LEMMA ShutBrowser ==
  ASSUME BrowsersHeld, NEW b \in Browser, Shut(b), UNCHANGED <<conn, pendingUpgrades>>,
         frame' \in [Browser -> {"none", "charging", "done"}]
  PROVE  BrowsersHeld'
<1> DEFINE r == [browser[b] EXCEPT !.shut = TRUE]
<1>1. browser[b] \in BrowserType
  BY DEF BrowsersHeld
<1>2. r \in BrowserType /\ r.at = browser[b].at /\ r.ctl = browser[b].ctl /\ r.shut
  BY <1>1 DEF BrowserType
<1>3. browser' = [browser EXCEPT ![b] = r]
  BY DEF Shut
<1> HIDE DEF r
<1>4. pendingUpgrades' = IF r.at = "upgrading" THEN pendingUpgrades \cup {b} ELSE pendingUpgrades \ {b}
  BY <1>2 DEF BrowsersHeld, HeldWs
<1>5. r.at \in {"auth", "meter", "upgrading", "open"} => r.ctl \in Gen
  BY <1>2 DEF BrowsersHeld
<1> QED BY <1>2, <1>3, <1>4, <1>5, BrowserUpdate

LEMMA FailBrowser ==
  ASSUME BrowsersHeld, NEW b \in Browser, browser' = [browser EXCEPT ![b] = Failed(b)],
         pendingUpgrades' = pendingUpgrades \ {b}, UNCHANGED <<conn, frame>>
  PROVE  BrowsersHeld'
<1> DEFINE r == Failed(b)
<1>1. r \in BrowserType /\ r.at = "failed"
  BY FailedType
<1>2. frame' \in [Browser -> {"none", "charging", "done"}]
  BY DEF BrowsersHeld
<1> HIDE DEF r
<1> QED BY <1>1, <1>2, BrowserUpdate DEF r

LEMMA BrowserStepHeld ==
  ASSUME Inv, NEW b \in Browser, BrowserStep(b)
  PROVE  BrowsersHeld'
<1>1. UNCHANGED <<conn, up>> /\ BrowsersHeld /\ LinksHeld
  BY BrowserStepKeeps DEF links, Inv
<1>2. browser[b] \in BrowserType /\ pendingUpgrades = {c \in Browser : browser[c].at = "upgrading"}
      /\ frame \in [Browser -> {"none", "charging", "done"}]
  BY <1>1 DEF BrowsersHeld, HeldWs
<1>3. ctl \in 0..Gens /\ (ctl # 0 => ctl \in Gen /\ conn[ctl] = "registered")
  BY <1>1, CtlServes
<1>4. CASE Upgrade(b)
  <2> DEFINE at == IF ctl = 0 THEN "refused" ELSE "auth"
             r == [browser[b] EXCEPT !.at = at, !.ctl = ctl]
  <2>1. browser[b].at = "new" /\ browser' = [browser EXCEPT ![b] = r]
        /\ UNCHANGED <<frame, pendingUpgrades>>
    BY <1>4 DEF Upgrade
  <2>2. at \in {"refused", "auth"} /\ (at = "auth" => ctl \in Gen)
    BY <1>3
  <2> HIDE DEF at
  <2>3. r \in BrowserType /\ r.at = at /\ r.ctl = ctl
    BY <1>2, <1>3, <2>2 DEF BrowserType
  <2> HIDE DEF r
  <2>4. b \notin pendingUpgrades
    BY <1>2, <2>1
  <2> QED BY <1>1, <1>2, <2>1, <2>2, <2>3, <2>4, BrowserUpdate
<1>5. CASE UpgradeAuthorized(b)
  <2>1. browser[b].at = "auth" /\ b \notin pendingUpgrades /\ UNCHANGED <<frame, pendingUpgrades>>
    BY <1>2, <1>5 DEF UpgradeAuthorized
  <2> QED BY <1>1, <1>2, <1>5, <2>1, MoveBrowser DEF UpgradeAuthorized
<1>6. CASE UpgradeMetered(b)
  <2>1. browser[b].at = "meter" /\ b \notin pendingUpgrades /\ UNCHANGED frame
    BY <1>2, <1>6 DEF UpgradeMetered
  <2>2. CASE BrowserTo(b, "refused") /\ UNCHANGED pendingUpgrades
    BY <1>1, <1>2, <2>1, <2>2, MoveBrowser
  <2>3. CASE /\ ctl = browser[b].ctl /\ BrowserTo(b, "upgrading")
             /\ pendingUpgrades' = pendingUpgrades \cup {b}
    <3>1. browser[b].ctl \in Gen
      BY <1>1, <2>1 DEF BrowsersHeld
    <3>2. conn[browser[b].ctl] = "registered"
      BY <1>3, <2>3, <3>1, RegisterTypes
    <3> QED BY <1>1, <1>2, <2>1, <2>3, <3>2, MoveBrowser
  <2> QED BY <1>6, <2>2, <2>3 DEF UpgradeMetered
<1>7. CASE UpgradeTimeout(b)
  BY <1>1, <1>7, FailBrowser DEF UpgradeTimeout
<1>8. CASE BrowserMessage(b)
  BY <1>1, <1>2, <1>8 DEF BrowserMessage, BrowsersHeld, HeldWs
<1>9. CASE Charged(b)
  <2>1. frame' \in [Browser -> {"none", "charging", "done"}] /\ UNCHANGED pendingUpgrades
    BY <1>2, <1>9 DEF Charged
  <2>2. Shut(b) \/ UNCHANGED browser
    BY <1>9 DEF Charged
  <2> QED BY <1>1, <2>1, <2>2, ShutBrowser DEF BrowsersHeld, HeldWs
<1>10. CASE BrowserClose(b)
  <2>1. b \notin pendingUpgrades /\ UNCHANGED <<frame, pendingUpgrades>>
    BY <1>2, <1>10 DEF BrowserClose
  <2> QED BY <1>1, <1>2, <1>10, <2>1, MoveBrowser DEF BrowserClose
<1> QED BY <1>4, <1>5, <1>6, <1>7, <1>8, <1>9, <1>10 DEF BrowserStep

(* disconnectTraffic closes every socket, whatever becomes of the           *)
(* connections.                                                             *)
LEMMA DisconnectSockets ==
  ASSUME BrowsersHeld, DisconnectWs
  PROVE  BrowsersHeld'
<1>1. \A b \in Browser : /\ browser'[b] \in BrowserType
                         /\ browser'[b].ctl = browser[b].ctl
                         /\ browser'[b].at # "upgrading"
                         /\ browser'[b].at = "open" => browser[b].at = "open" /\ browser'[b].shut
                         /\ browser'[b].at \in {"auth", "meter"} => browser[b].at = browser'[b].at
  <2> SUFFICES ASSUME NEW b \in Browser
               PROVE  /\ browser'[b] \in BrowserType
                      /\ browser'[b].ctl = browser[b].ctl
                      /\ browser'[b].at # "upgrading"
                      /\ browser'[b].at = "open" => browser[b].at = "open" /\ browser'[b].shut
                      /\ browser'[b].at \in {"auth", "meter"} => browser[b].at = browser'[b].at
    OBVIOUS
  <2>1. browser[b] \in BrowserType /\ (b \in pendingUpgrades <=> browser[b].at = "upgrading")
    BY DEF BrowsersHeld, HeldWs
  <2>2. CASE browser[b].at = "upgrading"
    <3>1. browser'[b] = Failed(b)
      BY <2>1, <2>2 DEF DisconnectWs
    <3> QED BY <3>1, FailedType
  <2>3. CASE browser[b].at = "open"
    <3>1. browser'[b] = [browser[b] EXCEPT !.shut = TRUE]
      BY <2>1, <2>3 DEF DisconnectWs
    <3> QED BY <2>1, <2>3, <3>1 DEF BrowserType
  <2>4. CASE browser[b].at \notin {"upgrading", "open"}
    <3>1. browser'[b] = browser[b]
      BY <2>1, <2>4 DEF DisconnectWs
    <3> QED BY <2>1, <2>4, <3>1
  <2> QED BY <2>2, <2>3, <2>4
<1>2. browser' \in [Browser -> BrowserType] /\ pendingUpgrades' = {} /\ frame' = frame
  BY <1>1 DEF DisconnectWs
<1> QED BY <1>1, <1>2 DEF BrowsersHeld, HeldWs

LEMMA ExhaustedSockets ==
  ASSUME BrowsersHeld, Exhausted
  PROVE  BrowsersHeld'
<1>1. UNCHANGED <<conn, frame, pendingUpgrades>>
  BY DEF Exhausted, RelayStep, links
<1>2. \A b \in Browser : /\ browser'[b] \in BrowserType
                         /\ browser'[b].at = browser[b].at /\ browser'[b].ctl = browser[b].ctl
                         /\ browser[b].shut => browser'[b].shut
  BY DEF Exhausted, BrowsersHeld, BrowserType
<1>3. browser' \in [Browser -> BrowserType]
  BY <1>2 DEF Exhausted
<1> QED BY <1>1, <1>2, <1>3 DEF BrowsersHeld, HeldWs

LEMMA ControlMessageSockets ==
  ASSUME Inv, NEW g \in Gen, ControlMessage(g)
  PROVE  BrowsersHeld'
<1>1. BrowsersHeld /\ UNCHANGED conn
  BY DEF Inv, ControlMessage, links
<1> DEFINE m == Head(toRelay[g])
<1>2. CASE UNCHANGED <<browser, pendingUpgrades, frame>>
  BY <1>1, <1>2 DEF BrowsersHeld, HeldWs
<1>3. CASE ~IsHttp(m)
  <2>1. m \in Down
    <3>1. toRelay[g] \in Seq(Down) /\ toRelay[g] # << >>
      BY DEF Inv, FramesDown, ControlMessage
    <3> QED BY <3>1, HeadTailProperties
  <2>2. m.id \in Browser
    BY <1>3, <2>1 DEF Down, HttpDown, WsDown, IsHttp
  <2>3. WsControlMessage(g, m)
    BY <1>3 DEF ControlMessage
  <2>4. frame' \in [Browser -> {"none", "charging", "done"}] /\ UNCHANGED frame
    BY <1>1, <2>3 DEF WsControlMessage, BrowsersHeld
  <2> HIDE DEF m
  <2>5. CASE WsReady(m.id) \/ WsError(m.id)
    <3>1. CASE m.id \notin pendingUpgrades
      BY <1>2, <2>4, <2>5, <3>1 DEF WsReady, WsError
    <3>2. CASE m.id \in pendingUpgrades
      <4>1. pendingUpgrades' = pendingUpgrades \ {m.id} /\ browser[m.id].at = "upgrading"
        BY <1>1, <2>5, <3>2 DEF WsReady, WsError, BrowsersHeld, HeldWs
      <4>2. BrowserTo(m.id, "open") \/ browser' = [browser EXCEPT ![m.id] = Failed(m.id)]
        BY <2>5, <3>2 DEF WsReady, WsError
      <4> QED BY <1>1, <2>2, <2>4, <4>1, <4>2, MoveBrowser, FailBrowser
    <3> QED BY <3>1, <3>2
  <2>6. CASE WsClose(m.id)
    BY <1>1, <2>2, <2>4, <2>6, ShutBrowser DEF WsClose
  <2> QED BY <1>2, <2>3, <2>4, <2>5, <2>6 DEF WsControlMessage
<1>4. CASE IsHttp(m)
  BY <1>2, <1>4 DEF ControlMessage, wsVars, wsRelay
<1> QED BY <1>3, <1>4

LEMMA BrowsersStep == Inv /\ [Next]_vars => BrowsersHeld'
<1> SUFFICES ASSUME Inv, [Next]_vars PROVE BrowsersHeld'
  OBVIOUS
<1>1. BrowsersHeld /\ LinksHeld
  BY DEF Inv
<1>2. CASE /\ UNCHANGED wsRelay
           /\ \A g \in Gen : conn[g] \in {"registered", "lost"} => conn'[g] \in {"registered", "lost"}
  BY <1>1, <1>2 DEF BrowsersHeld, HeldWs, wsRelay
<1>3. ASSUME NEW v \in Visitor, RequestStep(v) \/ Serve(v), UNCHANGED wsVars PROVE BrowsersHeld'
  BY <1>2, <1>3, RequestStepKeeps, ServeKeeps DEF links, wsVars
<1>4. ASSUME NEW b \in Browser, SocketStep(b) PROVE BrowsersHeld'
  BY <1>2, <1>4, SocketStepKeeps DEF links
<1>5. CASE Wake
  BY <1>2, <1>5 DEF Wake, wsVars
<1>6. CASE (Claim \/ Elapse) /\ UNCHANGED <<httpVars, wsVars>>
  BY <1>1, <1>2, <1>6 DEF Claim, Elapse, wsVars, LinksHeld, TypeOKLinks
<1>7. ASSUME NEW g \in Gen, Quiet(g) PROVE BrowsersHeld'
  BY <1>1, <1>2, <1>7 DEF Quiet, Accept, Drop, wsVars, LinksHeld, TypeOKLinks
<1>8. ASSUME NEW g \in Gen, Publish(g) PROVE BrowsersHeld'
  <2>1. CASE Serving = {}
    <3>1. UNCHANGED wsRelay
      BY <1>8, <2>1 DEF Publish, wsVars
    <3>2. \A h \in Gen : conn[h] \in {"registered", "lost"} => conn'[h] = conn[h]
      BY <1>1, <1>8, <2>1 DEF Publish, PublishLink, Serving, LinksHeld, TypeOKLinks
    <3> QED BY <1>2, <3>1, <3>2
  <2>2. CASE Serving # {}
    BY <1>1, <1>8, <2>2, DisconnectSockets DEF Publish, disconnectTraffic
  <2> QED BY <2>1, <2>2
<1>9. ASSUME NEW g \in Gen, webSocketClose(g) PROVE BrowsersHeld'
  BY <1>1, <1>9, DisconnectSockets DEF webSocketClose, disconnectTraffic
<1>10. ASSUME NEW g \in Gen, ended(g) PROVE BrowsersHeld'
  BY <1>2, <1>10 DEF ended, EndLink, EndWs
<1>11. ASSUME NEW g \in Gen, ClientMessage(g) PROVE BrowsersHeld'
  BY <1>2, <1>11 DEF ClientMessage, WsClientMessage, wsVars, links
<1>12. CASE UNCHANGED vars
  BY <1>2, <1>12 DEF vars, wsVars, links
<1> QED BY <1>1, <1>3, <1>4, <1>5, <1>6, <1>7, <1>8, <1>9, <1>10, <1>11, <1>12, Steps,
           BrowserStepHeld, ExhaustedSockets, ControlMessageSockets
-----------------------------------------------------------------------------
(* Queues: what is in one after a frame is sent on it, or read from it      *)

LEMMA Sent ==
  ASSUME NEW S, NEW q \in [Gen -> Seq(S)], NEW g \in Gen, NEW m \in S,
         NEW r, r = [q EXCEPT ![g] = Append(@, m)]
  PROVE  /\ r \in [Gen -> Seq(S)]
         /\ \A h \in Gen : \A i \in 1..Len(r[h]) :
              \/ i \in 1..Len(q[h]) /\ r[h][i] = q[h][i]
              \/ h = g /\ i = Len(q[g]) + 1 /\ r[h][i] = m
<1>1. /\ Append(q[g], m) \in Seq(S) /\ Len(Append(q[g], m)) = Len(q[g]) + 1
      /\ \A i \in 1..Len(q[g]) : Append(q[g], m)[i] = q[g][i]
      /\ Append(q[g], m)[Len(q[g]) + 1] = m
  BY AppendProperties
<1>2. r[g] = Append(q[g], m) /\ \A h \in Gen : h # g => r[h] = q[h]
  OBVIOUS
<1>3. Len(q[g]) \in Nat
  BY LenProperties
<1> QED BY <1>1, <1>2, <1>3

LEMMA Received ==
  ASSUME NEW S, NEW q \in [Gen -> Seq(S)], NEW g \in Gen, q[g] # << >>,
         NEW r, r = [q EXCEPT ![g] = Tail(@)]
  PROVE  /\ r \in [Gen -> Seq(S)]
         /\ 1 \in 1..Len(q[g]) /\ Head(q[g]) = q[g][1] /\ Head(q[g]) \in S
         /\ \A h \in Gen : h # g => r[h] = q[h]
         /\ \A i \in 1..Len(r[g]) : i + 1 \in 1..Len(q[g]) /\ r[g][i] = q[g][i + 1]
<1>1. /\ Head(q[g]) \in S /\ Tail(q[g]) \in Seq(S) /\ Len(Tail(q[g])) = Len(q[g]) - 1
      /\ \A i \in 1..Len(Tail(q[g])) : Tail(q[g])[i] = q[g][i + 1]
  BY HeadTailProperties
<1>2. r[g] = Tail(q[g]) /\ \A h \in Gen : h # g => r[h] = q[h]
  OBVIOUS
<1>3. Len(q[g]) \in Nat /\ Len(q[g]) # 0 /\ Head(q[g]) = q[g][1]
  BY LenProperties, EmptySeq
<1> QED BY <1>1, <1>2, <1>3

LEMMA UpTypes ==
  ASSUME NEW m \in Up
  PROVE  /\ IsHttp(m) => m.type \in Requests /\ m.req \in Visitor /\ m = [type |-> m.type, req |-> m.req]
         /\ ~IsHttp(m) => /\ m.type \in {"ws-upgrade", "ws-message", "ws-close"} /\ m.id \in Browser
                          /\ m = [type |-> m.type, id |-> m.id]
BY DEF Up, HttpUp, WsUp, IsHttp, Requests, Responses

LEMMA SentUp ==
  /\ \A v \in Visitor, type \in Requests :
       [type |-> type, req |-> v] \in Up /\ IsHttp([type |-> type, req |-> v])
  /\ \A b \in Browser, type \in {"ws-upgrade", "ws-message", "ws-close"} :
       [type |-> type, id |-> b] \in Up /\ ~IsHttp([type |-> type, id |-> b])
BY DEF Up, HttpUp, WsUp, IsHttp, Requests, Responses
-----------------------------------------------------------------------------
(* What is past its look-up stays so                                        *)

LEMMA RequestGoesOn ==
  ASSUME Inv, NEW v \in Visitor, RequestStep(v)
  PROVE  \A w \in Visitor : visitor[w].at \notin Early => visitor'[w].at \notin Early
<1>1. visitor \in [Visitor -> VisitorType] /\ \A at : [visitor[v] EXCEPT !.at = at].at = at
  BY DEF Inv, RequestsHeld, VisitorType
<1>2. CASE visitor[v].at \in Early
  <2>1. \A w \in Visitor : w # v => visitor'[w] = visitor[w]
    BY <1>1 DEF RequestStep, Arrive, Preamble, ReadLoss, Authorized, Metered, Captured, WaitEnds, Abort,
         PendingTimeout, IdleTimeout, To, Resume, Dispatch
  <2> QED BY <1>2, <2>1
<1>3. CASE visitor[v].at \notin Early
  <2>1. Abort(v) \/ PendingTimeout(v) \/ IdleTimeout(v)
    BY <1>3 DEF RequestStep, Arrive, Preamble, ReadLoss, Authorized, Metered, Captured, WaitEnds, At, Early
  <2>2. CASE Abort(v)
    <3> DEFINE at == CASE visitor[v].at = "waiting" -> "answered"
                       [] visitor[v].at = "stream" -> "ended" [] OTHER -> visitor[v].at
    <3>1. visitor' = [visitor EXCEPT ![v].gone = TRUE, ![v].at = at]
      BY <2>2 DEF Abort
    <3>2. at \in {"answered", "ended", visitor[v].at}
      OBVIOUS
    <3> HIDE DEF at
    <3>3. visitor'[v].at = at /\ \A w \in Visitor : w # v => visitor'[w] = visitor[w]
      BY <1>1, <3>1 DEF VisitorType
    <3> QED BY <1>3, <3>2, <3>3 DEF Early
  <2>3. ASSUME NEW at \in {"answered", "cut"}, To(v, at)
        PROVE  \A w \in Visitor : visitor[w].at \notin Early => visitor'[w].at \notin Early
    <3>1. visitor'[v].at = at /\ \A w \in Visitor : w # v => visitor'[w] = visitor[w]
      BY <1>1, <2>3 DEF To, VisitorType
    <3> QED BY <2>3, <3>1 DEF Early
  <2> QED BY <2>1, <2>2, <2>3 DEF PendingTimeout, IdleTimeout
<1> QED BY <1>2, <1>3

LEMMA RequestsGoOn ==
  ASSUME Inv, [Next]_vars
  PROVE  \A v \in Visitor : visitor[v].at \notin Early => visitor'[v].at \notin Early
<1>1. visitor \in [Visitor -> VisitorType] /\ \A v \in Visitor : \A at : [visitor[v] EXCEPT !.at = at].at = at
  BY DEF Inv, RequestsHeld, VisitorType
<1>2. CASE UNCHANGED visitor
  BY <1>2
<1>3. CASE DisconnectHttp
  <2> SUFFICES ASSUME NEW v \in Visitor, visitor[v].at \notin Early PROVE visitor'[v].at \notin Early
    OBVIOUS
  <2>1. ~(v \in pendingHttp /\ v \in streaming)
    BY DEF Inv, RequestsHeld
  <2>2. CASE v \in pendingHttp
    <3>1. visitor'[v] = [visitor[v] EXCEPT !.at = "answered"]
      BY <1>3, <2>1, <2>2 DEF DisconnectHttp
    <3> QED BY <1>1, <3>1 DEF VisitorType, Early
  <2>3. CASE v \in streaming
    <3>1. visitor'[v] = [visitor[v] EXCEPT !.at = "cut"]
      BY <1>3, <2>1, <2>3 DEF DisconnectHttp
    <3> QED BY <1>1, <3>1 DEF VisitorType, Early
  <2>4. CASE v \notin pendingHttp \cup streaming
    BY <1>3, <2>4 DEF DisconnectHttp
  <2> QED BY <2>2, <2>3, <2>4
<1>4. CASE Wake
  BY <1>4 DEF Wake, WakeReads, Early
<1>5. ASSUME NEW g \in Gen, ControlMessage(g), ~UNCHANGED visitor
      PROVE  \A v \in Visitor : visitor[v].at \notin Early => visitor'[v].at \notin Early
  <2> DEFINE m == Head(toRelay[g])
  <2>1. \E at \in {"answered", "stream", "ended"} : To(m.req, at)
    BY <1>5 DEF ControlMessage, HttpControlMessage, ResponseStart, ResponseChunk, Ends, httpVars
  <2> HIDE DEF m
  <2> QED BY <1>1, <2>1 DEF To, Early
<1>6. ASSUME NEW g \in Gen, Publish(g) \/ webSocketClose(g) PROVE DisconnectHttp \/ UNCHANGED visitor
  BY <1>6 DEF Publish, webSocketClose, disconnectTraffic, httpVars
<1>7. \/ UNCHANGED visitor \/ Wake
      \/ \E v \in Visitor : RequestStep(v)
      \/ \E g \in Gen : Publish(g) \/ webSocketClose(g) \/ ControlMessage(g)
  BY Steps, ServeKeeps DEF Quiet, ended, ClientMessage, HttpClientMessage, httpVars, vars
<1> QED BY <1>2, <1>3, <1>4, <1>5, <1>6, <1>7, RequestGoesOn

LEMMA BrowserGoesOn ==
  ASSUME Inv, NEW b \in Browser, BrowserStep(b)
  PROVE  \A c \in Browser : browser[c].at \notin EarlyWs =>
                              browser'[c].at \notin EarlyWs /\ browser'[c].ctl = browser[c].ctl
<1>1. browser \in [Browser -> BrowserType] /\ pendingUpgrades = {c \in Browser : browser[c].at = "upgrading"}
  BY DEF Inv, BrowsersHeld, HeldWs
<1>2. CASE browser[b].at \in EarlyWs
  <2>1. \A c \in Browser : c # b => browser'[c] = browser[c]
    BY <1>1 DEF BrowserStep, Upgrade, UpgradeAuthorized, UpgradeMetered, UpgradeTimeout, BrowserMessage,
         Charged, BrowserClose, BrowserTo, Shut
  <2> QED BY <1>2, <2>1
<1>3. CASE browser[b].at \notin EarlyWs
  <2>1. UpgradeTimeout(b) \/ BrowserMessage(b) \/ Charged(b) \/ BrowserClose(b)
    BY <1>3 DEF BrowserStep, Upgrade, UpgradeAuthorized, UpgradeMetered, EarlyWs
  <2>2. UNCHANGED browser \/ Shut(b) \/ BrowserTo(b, "closed") \/ browser' = [browser EXCEPT ![b] = Failed(b)]
    BY <2>1 DEF UpgradeTimeout, BrowserMessage, Charged, BrowserClose
  <2>3. CASE Shut(b)
    BY <1>1, <1>3, <2>3 DEF Shut, BrowserType
  <2>4. CASE BrowserTo(b, "closed")
    BY <1>1, <1>3, <2>4 DEF BrowserTo, BrowserType, EarlyWs
  <2>5. CASE browser' = [browser EXCEPT ![b] = Failed(b)]
    BY <1>1, <2>5, FailedType DEF EarlyWs, Inv
  <2> QED BY <2>2, <2>3, <2>4, <2>5
<1> QED BY <1>2, <1>3

LEMMA BrowsersGoOn ==
  ASSUME Inv, [Next]_vars
  PROVE  \A b \in Browser : browser[b].at \notin EarlyWs =>
                              browser'[b].at \notin EarlyWs /\ browser'[b].ctl = browser[b].ctl
<1> DEFINE Kept(b) == browser[b].at \notin EarlyWs =>
                        browser'[b].at \notin EarlyWs /\ browser'[b].ctl = browser[b].ctl
<1>1. browser \in [Browser -> BrowserType] /\ pendingUpgrades = {c \in Browser : browser[c].at = "upgrading"}
  BY DEF Inv, BrowsersHeld, HeldWs
<1>2. CASE UNCHANGED browser
  BY <1>2
<1>3. CASE DisconnectWs
  <2> SUFFICES ASSUME NEW b \in Browser PROVE Kept(b)
    OBVIOUS
  <2>1. CASE browser[b].at = "upgrading"
    <3>1. browser'[b] = Failed(b)
      BY <1>1, <1>3, <2>1 DEF DisconnectWs
    <3> QED BY <3>1, FailedType DEF EarlyWs, Inv
  <2>2. CASE browser[b].at = "open"
    <3>1. browser'[b] = [browser[b] EXCEPT !.shut = TRUE]
      BY <1>1, <1>3, <2>2 DEF DisconnectWs
    <3> QED BY <1>1, <2>2, <3>1 DEF BrowserType
  <2>3. CASE browser[b].at \notin {"upgrading", "open"}
    BY <1>1, <1>3, <2>3 DEF DisconnectWs
  <2> QED BY <2>1, <2>2, <2>3
<1>4. CASE Exhausted
  BY <1>1, <1>4 DEF Exhausted, BrowserType
<1>5. ASSUME NEW g \in Gen, ControlMessage(g), ~UNCHANGED browser PROVE \A b \in Browser : Kept(b)
  <2> DEFINE c == Head(toRelay[g]).id
  <2>1. \/ Shut(c)
        \/ c \in pendingUpgrades /\ (BrowserTo(c, "open") \/ browser' = [browser EXCEPT ![c] = Failed(c)])
    BY <1>5 DEF ControlMessage, WsControlMessage, WsReady, WsError, WsClose, wsVars, wsRelay
  <2> HIDE DEF c
  <2>2. CASE Shut(c)
    BY <1>1, <2>2 DEF Shut, BrowserType
  <2>3. CASE BrowserTo(c, "open")
    BY <1>1, <2>3 DEF BrowserTo, BrowserType, EarlyWs
  <2>4. CASE c \in pendingUpgrades /\ browser' = [browser EXCEPT ![c] = Failed(c)]
    BY <1>1, <2>4, FailedType DEF EarlyWs, Inv
  <2> QED BY <2>1, <2>2, <2>3, <2>4
<1>6. ASSUME NEW g \in Gen, Publish(g) \/ webSocketClose(g) PROVE DisconnectWs \/ UNCHANGED browser
  BY <1>6 DEF Publish, webSocketClose, disconnectTraffic, wsVars, wsRelay
<1>7. \/ UNCHANGED browser \/ Exhausted
      \/ \E b \in Browser : BrowserStep(b)
      \/ \E g \in Gen : Publish(g) \/ webSocketClose(g) \/ ControlMessage(g)
  BY Steps, SocketStepKeeps DEF Wake, Quiet, ended, EndWs, ClientMessage, WsClientMessage, wsVars, wsRelay, vars
<1> HIDE DEF Kept
<1> SUFFICES \A b \in Browser : Kept(b)
  BY DEF Kept
<1>8. ASSUME NEW b \in Browser, BrowserStep(b) PROVE \A c \in Browser : Kept(c)
  BY <1>8, BrowserGoesOn DEF Kept
<1> QED BY <1>2, <1>3, <1>4, <1>5, <1>6, <1>7, <1>8 DEF Kept
-----------------------------------------------------------------------------
(* The connector's requests                                                 *)

LEMMA LocalUpdate ==
  ASSUME LocalsHeld, NEW v \in Visitor, visitor[v].at \notin Early, UNCHANGED visitor,
         NEW r \in Local, local' = [local EXCEPT ![v] = r],
         NEW n \in 0..1, accepted' = [accepted EXCEPT ![v] = n],
         activeRequests' = activeRequests \cup {v} \/ activeRequests' = activeRequests \ {v},
         r.at # "none", r.at = "refused" => r.dials = 1, r.at \in {"dialed", "refused"} => n = 0,
         r.at \in {"dialed", "taken", "answering"} => v \in activeRequests'
  PROVE  LocalsHeld'
<1>1. /\ local' \in [Visitor -> Local] /\ local'[v] = r
      /\ \A w \in Visitor : w # v => local'[w] = local[w]
  BY DEF LocalsHeld
<1>2. /\ accepted' \in [Visitor -> 0..1] /\ accepted'[v] = n
      /\ \A w \in Visitor : w # v => accepted'[w] = accepted[w]
  BY DEF LocalsHeld
<1>3. activeRequests' \subseteq Visitor
      /\ \A w \in Visitor : w # v => (w \in activeRequests' <=> w \in activeRequests)
  BY DEF LocalsHeld
<1> QED BY <1>1, <1>2, <1>3 DEF LocalsHeld, Abortable

LEMMA LocalMoves ==
  ASSUME LocalsHeld, NEW v \in Visitor, visitor[v].at \notin Early, UNCHANGED visitor,
         NEW at \in {"refused", "taken", "answering", "broken", "over"}, LocalTo(v, at),
         NEW n \in 0..1, accepted' = [accepted EXCEPT ![v] = n],
         activeRequests' = activeRequests \cup {v} \/ activeRequests' = activeRequests \ {v},
         at = "refused" => local[v].dials = 1 /\ n = 0,
         at \in {"taken", "answering"} => v \in activeRequests'
  PROVE  LocalsHeld'
<1> DEFINE r == [local[v] EXCEPT !.at = at]
<1>1. local[v] \in Local
  BY DEF LocalsHeld
<1>2. r \in Local /\ r.at = at /\ r.dials = local[v].dials
  BY <1>1 DEF Local
<1>3. local' = [local EXCEPT ![v] = r]
  BY DEF LocalTo
<1> HIDE DEF r
<1> QED BY <1>2, <1>3, LocalUpdate

LEMMA DialHeld ==
  ASSUME LocalsHeld, NEW v \in Visitor, visitor[v].at \notin Early, Dial(v),
         local[v].at \in {"none", "refused"}, UNCHANGED <<visitor, accepted>>
  PROVE  LocalsHeld'
<1> DEFINE d == local[v].dials + 1
           r == [local[v] EXCEPT !.at = "dialed", !.dials = d]
<1>1. local[v] \in Local /\ local[v].dials \in {0, 1} /\ accepted[v] = 0
  BY DEF LocalsHeld
<1>2. d \in 0..2
  BY <1>1
<1>3. local' = [local EXCEPT ![v] = r] /\ accepted' = [accepted EXCEPT ![v] = 0]
      /\ activeRequests' = activeRequests \cup {v} /\ v \in activeRequests'
  BY <1>1 DEF Dial, LocalsHeld
<1> HIDE DEF d
<1>4. UNCHANGED visitor
  OBVIOUS
<1>5. r \in Local /\ r.at = "dialed"
  BY <1>1, <1>2 DEF Local
<1> HIDE DEF r
<1> DEFINE n == 0
<1>6. n \in 0..1 /\ n = 0
  OBVIOUS
<1>7. accepted' = [accepted EXCEPT ![v] = n]
  BY <1>3
<1> HIDE DEF n
<1> QED BY <1>3, <1>5, <1>6, <1>4, <1>7, LocalUpdate

LEMMA ServeHeld ==
  ASSUME Inv, NEW v \in Visitor, Serve(v)
  PROVE  LocalsHeld' /\ \A w \in Visitor : local[w].at = "none" => local'[w].at = "none"
<1>1. LocalsHeld /\ UNCHANGED visitor /\ local[v] \in Local
  BY ServeKeeps DEF Inv, LocalsHeld
<1>2. local[v].at # "none"
  BY DEF Serve, Refused, Resolved, Take, Fail, Answer, Chunk, End, Break
<1>3. visitor[v].at \notin Early
  BY <1>1, <1>2 DEF LocalsHeld
<1>4. accepted = [accepted EXCEPT ![v] = accepted[v]] /\ accepted[v] \in 0..1
  BY <1>1 DEF LocalsHeld
<1>5. v \in activeRequests => activeRequests = activeRequests \cup {v}
  OBVIOUS
<1>6. local[v].at \in {"dialed", "taken", "answering"} => v \in activeRequests
  BY <1>1 DEF LocalsHeld, Abortable
<1>7. ASSUME Refused(v) PROVE LocalsHeld'
  <2>1. /\ local[v].at = "dialed" /\ UNCHANGED accepted /\ activeRequests' = activeRequests \ {v}
        /\ LocalTo(v, "over") \/ (local[v].dials = 1 /\ LocalTo(v, "refused"))
    BY <1>7 DEF Refused
  <2>2. accepted[v] = 0
    BY <1>1, <2>1 DEF LocalsHeld
  <2> QED BY <1>1, <1>3, <1>4, <2>1, <2>2, LocalMoves
<1>8. ASSUME Resolved(v) PROVE LocalsHeld'
  <2>1. CASE Dial(v)
    BY <1>1, <1>3, <1>8, <2>1, DialHeld DEF Resolved
  <2>2. CASE LocalTo(v, "over") /\ UNCHANGED activeRequests
    <3>1. activeRequests' = activeRequests \cup {v} \/ activeRequests' = activeRequests \ {v}
      BY <2>2
    <3>2. UNCHANGED accepted
      BY <1>8 DEF Resolved
    <3> QED BY <1>1, <1>3, <1>4, <2>2, <3>1, <3>2, LocalMoves
  <2> QED BY <1>8, <2>1, <2>2 DEF Resolved
<1>9. ASSUME Take(v) PROVE LocalsHeld'
  <2>1. local[v].at = "dialed" /\ LocalTo(v, "taken") /\ UNCHANGED activeRequests
        /\ accepted' = [accepted EXCEPT ![v] = @ + 1]
    BY <1>9 DEF Take
  <2>2. accepted[v] = 0
    BY <1>1, <2>1 DEF LocalsHeld
  <2> DEFINE n == accepted[v] + 1
  <2>3. accepted' = [accepted EXCEPT ![v] = n] /\ n \in 0..1
    BY <2>1, <2>2
  <2> HIDE DEF n
  <2> QED BY <1>1, <1>3, <1>5, <1>6, <2>1, <2>3, LocalMoves
<1>10. ASSUME Fail(v) \/ End(v) PROVE LocalsHeld'
  <2>1. LocalTo(v, "over") /\ UNCHANGED accepted /\ activeRequests' = activeRequests \ {v}
    BY <1>10 DEF Fail, End
  <2> QED BY <1>1, <1>3, <1>4, <2>1, LocalMoves
<1>11. ASSUME Answer(v) \/ Break(v) PROVE LocalsHeld'
  <2>1. /\ local[v].at \in {"taken", "answering"} /\ UNCHANGED <<activeRequests, accepted>>
        /\ LocalTo(v, "answering") \/ LocalTo(v, "broken")
    BY <1>11 DEF Answer, Break
  <2> QED BY <1>1, <1>3, <1>4, <1>5, <1>6, <2>1, LocalMoves
<1>12. ASSUME Chunk(v) PROVE LocalsHeld'
  <2> DEFINE n == local[v].chunks + 1
             r == [local[v] EXCEPT !.chunks = n]
  <2>1. local[v].at = "answering" /\ UNCHANGED <<activeRequests, accepted>>
        /\ local' = [local EXCEPT ![v] = r] /\ local[v].chunks < MaxChunks
    BY <1>12 DEF Chunk
  <2>2. n \in 0..MaxChunks
    BY <1>1, <2>1, HttpRelayAssumption DEF Local
  <2> HIDE DEF n
  <2>3. r \in Local /\ r.at = "answering"
    BY <1>1, <2>1, <2>2 DEF Local
  <2> HIDE DEF r
  <2> QED BY <1>1, <1>3, <1>4, <1>5, <1>6, <2>1, <2>3, LocalUpdate
<1>13. \A w \in Visitor : w # v => local'[w] = local[w]
  BY <1>1 DEF Serve, Refused, Resolved, Take, Fail, Answer, Chunk, End, Break, LocalTo, Dial, LocalsHeld
<1> QED BY <1>2, <1>7, <1>8, <1>9, <1>10, <1>11, <1>12, <1>13 DEF Serve

LEMMA ClientMessageLocals ==
  ASSUME Inv, NEW g \in Gen, ClientMessage(g)
  PROVE  /\ LocalsHeld'
         /\ \A v \in Visitor : local[v].at = "none" => \/ local'[v].at = "none"
                                                       \/ Head(toClient[g]) = [type |-> "request", req |-> v]
<1>1. LocalsHeld /\ FramesUp
  BY DEF Inv
<1> DEFINE m == Head(toClient[g])
<1>2. CASE ~IsHttp(m)
  BY <1>1, <1>2 DEF ClientMessage, httpVars, connector, LocalsHeld, Abortable
<1>3. CASE IsHttp(m)
  <2>1. HttpClientMessage(g, m) /\ toClient[g] # << >>
    BY <1>3 DEF ClientMessage
  <2>2. m = toClient[g][1] /\ 1 \in 1..Len(toClient[g]) /\ m \in Up
    BY <1>1, <2>1, Received DEF FramesUp
  <2>3. FrameSafe(g, m)
    BY <1>1, <2>2 DEF FramesUp
  <2> HIDE DEF m
  <2>4. m.req \in Visitor /\ m = [type |-> m.type, req |-> m.req]
    BY <1>3, <2>2, UpTypes
  <2>5. UNCHANGED <<visitor, accepted>> /\ accepted[m.req] \in 0..1
        /\ accepted = [accepted EXCEPT ![m.req] = accepted[m.req]]
    BY <1>1, <2>1, <2>4 DEF HttpClientMessage, LocalsHeld
  <2>6. CASE m.type = "request" /\ Dial(m.req)
    <3>1. visitor[m.req].at \notin Early /\ local[m.req].at = "none"
      BY <2>3, <2>6 DEF FrameSafe
    <3>2. \A w \in Visitor : w # m.req => local'[w] = local[w]
      BY <1>1, <2>4, <2>6 DEF Dial, LocalsHeld
    <3>3. LocalsHeld'
      BY <1>1, <2>4, <2>5, <2>6, <3>1, DialHeld
    <3> QED BY <2>4, <2>6, <3>2, <3>3 DEF m
  <2>7. CASE UNCHANGED <<local, activeRequests>>
    BY <1>1, <2>5, <2>7 DEF LocalsHeld, Abortable
  <2>8. CASE m.req \in activeRequests /\ LocalTo(m.req, "over") /\ activeRequests' = activeRequests \ {m.req}
    <3>1. local[m.req].at # "none"
      BY <1>1, <2>4, <2>8 DEF LocalsHeld
    <3>2. visitor[m.req].at \notin Early
      BY <1>1, <2>4, <3>1 DEF LocalsHeld
    <3>3. \A w \in Visitor : w # m.req => local'[w] = local[w]
      BY <1>1, <2>4, <2>8 DEF LocalTo, LocalsHeld
    <3>5. LocalsHeld'
      BY <1>1, <2>4, <2>5, <2>8, <3>2, LocalMoves
    <3> QED BY <3>1, <3>3, <3>5
  <2> QED BY <2>1, <2>6, <2>7, <2>8 DEF HttpClientMessage
<1> QED BY <1>2, <1>3

LEMMA LocalsStep ==
  ASSUME Inv, [Next]_vars
  PROVE  /\ LocalsHeld'
         /\ \/ \A v \in Visitor : local[v].at = "none" => local'[v].at = "none"
            \/ \E g \in Gen : ClientMessage(g)
<1>1. \A v \in Visitor : visitor'[v].at \in Early => visitor[v].at \in Early
  BY RequestsGoOn
<1>2. CASE UNCHANGED connector
  BY <1>1, <1>2 DEF Inv, LocalsHeld, Abortable, connector
<1>3. \/ UNCHANGED connector
      \/ \E v \in Visitor : Serve(v)
      \/ \E g \in Gen : ClientMessage(g)
  BY Steps, RequestStepKeeps DEF Wake, WakeReads, Quiet, Publish, webSocketClose, ended, disconnectTraffic,
     DisconnectHttp, ControlMessage, HttpControlMessage, httpVars, vars
<1> QED BY <1>2, <1>3, ServeHeld, ClientMessageLocals DEF connector
-----------------------------------------------------------------------------
(* The connector's sockets                                                  *)

LEMMA ClosingKeeps ==
  ASSUME NEW w \in LocalWs
  PROVE  /\ Closing(w) \in LocalWs /\ Closing(w).at \notin {"dialing", "open"}
         /\ Closing(w).at = "none" <=> w.at = "none"
         /\ Closing(w).at = "doomed" => w.at \in {"dialing", "doomed"}
<1> DEFINE at == CASE w.at = "dialing" -> "doomed" [] w.at = "open" -> "closing" [] OTHER -> w.at
<1>1. Closing(w) = [w EXCEPT !.at = at]
  BY DEF Closing
<1>2. /\ at \in {"none", "doomed", "closing", "errored", "over"}
      /\ (at = "none" <=> w.at = "none")
      /\ (at = "doomed" => w.at \in {"dialing", "doomed"})
  BY DEF LocalWs
<1> HIDE DEF at
<1>3. [w EXCEPT !.at = at] \in LocalWs /\ [w EXCEPT !.at = at].at = at
  BY <1>2 DEF LocalWs
<1> QED BY <1>1, <1>2, <1>3

LEMMA SocketUpdate ==
  ASSUME SocketsHeld, NEW b \in Browser, UNCHANGED browser,
         NEW r \in LocalWs, localWs' = [localWs EXCEPT ![b] = r],
         NEW n \in 0..1, servedWs' = [servedWs EXCEPT ![b] = n],
         \/ localWsConnections' = localWsConnections \cup {b}
         \/ localWsConnections' = localWsConnections \ {b},
         dialTimer' \subseteq dialTimer \cup {b},
         browser[b].at \in EarlyWs => r.at = "none",
         r.at \in {"none", "dialing", "doomed"} => n = 0,
         r.at \in {"dialing", "open"} => b \in localWsConnections'
  PROVE  SocketsHeld'
<1>1. /\ localWs' \in [Browser -> LocalWs] /\ localWs'[b] = r
      /\ \A c \in Browser : c # b => localWs'[c] = localWs[c]
  BY DEF SocketsHeld
<1>2. /\ servedWs' \in [Browser -> 0..1] /\ servedWs'[b] = n
      /\ \A c \in Browser : c # b => servedWs'[c] = servedWs[c]
  BY DEF SocketsHeld
<1>3. /\ localWsConnections' \subseteq Browser /\ dialTimer' \subseteq Browser
      /\ \A c \in Browser : c # b => (c \in localWsConnections' <=> c \in localWsConnections)
  BY DEF SocketsHeld
<1> QED BY <1>1, <1>2, <1>3 DEF SocketsHeld, Reachable

(* A socket that is closed is not opened again. *)
LEMMA SocketCloses ==
  ASSUME SocketsHeld, NEW b \in Browser, UNCHANGED <<browser, servedWs>>,
         localWs' = [localWs EXCEPT ![b] = Closing(@)], Forget(b), dialTimer' \subseteq dialTimer \cup {b}
  PROVE  SocketsHeld'
<1> DEFINE r == Closing(localWs[b])
<1>1. localWs[b] \in LocalWs /\ servedWs[b] \in 0..1 /\ servedWs' = [servedWs EXCEPT ![b] = servedWs[b]]
  BY DEF SocketsHeld
<1>2. /\ r \in LocalWs /\ r.at \notin {"dialing", "open"} /\ (r.at = "none" <=> localWs[b].at = "none")
      /\ r.at = "doomed" => localWs[b].at \in {"dialing", "doomed"}
  BY <1>1, ClosingKeeps
<1>3. localWs' = [localWs EXCEPT ![b] = r]
  OBVIOUS
<1> HIDE DEF r
<1>4. r.at \in {"none", "dialing", "doomed"} => servedWs[b] = 0
  BY <1>2 DEF SocketsHeld
<1>5. browser[b].at \in EarlyWs => r.at = "none"
  BY <1>2 DEF SocketsHeld
<1>6. UNCHANGED browser
  OBVIOUS
<1> QED BY <1>1, <1>2, <1>3, <1>4, <1>5, <1>6, SocketUpdate DEF Forget

LEMMA SocketStepHeld ==
  ASSUME Inv, NEW b \in Browser, SocketStep(b)
  PROVE  SocketsHeld' /\ \A c \in Browser : localWs[c].at = "none" => localWs'[c].at = "none"
<1>1. SocketsHeld /\ UNCHANGED browser /\ localWs[b] \in LocalWs /\ servedWs[b] \in 0..1
      /\ servedWs = [servedWs EXCEPT ![b] = servedWs[b]]
  BY SocketStepKeeps DEF Inv, SocketsHeld, wsRelay
<1>2. localWs[b].at # "none" => browser[b].at \notin EarlyWs
  BY <1>1 DEF SocketsHeld
<1>3. \A at \in {"closing", "errored", "over"} : /\ [localWs[b] EXCEPT !.at = at] \in LocalWs
                                                 /\ [localWs[b] EXCEPT !.at = at].at = at
  BY <1>1 DEF LocalWs
<1>4. ASSUME LocalOpen(b) PROVE SocketsHeld'
  <2> DEFINE n == servedWs[b] + 1
  <2>1. localWs[b].at \in {"dialing", "doomed"} /\ servedWs' = [servedWs EXCEPT ![b] = n]
    BY <1>4 DEF LocalOpen, Served
  <2>2. n \in 0..1
    BY <1>1, <2>1 DEF SocketsHeld
  <2> HIDE DEF n
  <2>3. CASE /\ localWs[b].at = "dialing" /\ dialTimer' = dialTimer \ {b}
             /\ localWs' = [localWs EXCEPT ![b] = [at |-> "open", opened |-> TRUE]]
             /\ localWsConnections' = localWsConnections \cup {b}
    <3> DEFINE r == [at |-> "open", opened |-> TRUE]
    <3>1. r \in LocalWs /\ r.at = "open" /\ localWs' = [localWs EXCEPT ![b] = r]
          /\ b \in localWsConnections' /\ dialTimer' \subseteq dialTimer \cup {b}
      BY <2>3 DEF LocalWs
    <3> HIDE DEF r
    <3> QED BY <1>1, <1>2, <2>1, <2>2, <2>3, <3>1, SocketUpdate
  <2>4. CASE /\ localWs[b].at = "doomed" /\ localWs' = [localWs EXCEPT ![b].at = "closing"]
             /\ UNCHANGED <<dialTimer, localWsConnections>>
    <3>1. \/ localWsConnections' = localWsConnections \cup {b}
          \/ localWsConnections' = localWsConnections \ {b}
      BY <2>4
    <3>2. dialTimer' \subseteq dialTimer \cup {b}
      BY <2>4
    <3> QED BY <1>1, <1>2, <1>3, <2>1, <2>2, <2>4, <3>1, <3>2, SocketUpdate
  <2> QED BY <1>4, <2>3, <2>4 DEF LocalOpen
<1>5. ASSUME LocalError(b) \/ LocalClose(b) PROVE SocketsHeld'
  <2>1. /\ localWs[b].at # "none" /\ UNCHANGED servedWs
        /\ localWs' = [localWs EXCEPT ![b].at = "errored"] \/ localWs' = [localWs EXCEPT ![b].at = "over"]
        /\ localWsConnections' = localWsConnections \ {b} /\ dialTimer' \subseteq dialTimer \cup {b}
    BY <1>5 DEF LocalError, LocalClose, Forget
  <2> QED BY <1>1, <1>2, <1>3, <2>1, SocketUpdate
<1>6. ASSUME DialTimeout(b) PROVE SocketsHeld'
  <2>1. UNCHANGED servedWs /\ Forget(b) /\ dialTimer' \subseteq dialTimer \cup {b}
        /\ localWs' = [localWs EXCEPT ![b] = Closing(@)]
    BY <1>6 DEF DialTimeout
  <2> QED BY <1>1, <2>1, SocketCloses
<1>7. \A c \in Browser : c # b => localWs'[c] = localWs[c]
  BY <1>1 DEF SocketStep, LocalOpen, LocalError, LocalClose, DialTimeout, SocketsHeld
<1>8. localWs[b].at = "none" => localWs'[b].at = "none"
  <2>1. localWs[b].at = "none" => localWs' = [localWs EXCEPT ![b] = Closing(@)]
    BY DEF SocketStep, LocalOpen, LocalError, LocalClose, DialTimeout
  <2> QED BY <1>1, <2>1, ClosingKeeps DEF SocketsHeld
<1> QED BY <1>4, <1>5, <1>6, <1>7, <1>8 DEF SocketStep

LEMMA ClientMessageSockets ==
  ASSUME Inv, NEW g \in Gen, ClientMessage(g)
  PROVE  /\ SocketsHeld'
         /\ \A b \in Browser : localWs[b].at = "none" => \/ localWs'[b].at = "none"
                                                         \/ Head(toClient[g]) = [type |-> "ws-upgrade", id |-> b]
<1>1. SocketsHeld /\ FramesUp
  BY DEF Inv
<1> DEFINE m == Head(toClient[g])
<1>2. CASE IsHttp(m)
  BY <1>1, <1>2 DEF ClientMessage, wsVars, wsRelay, wsConnector, SocketsHeld, Reachable
<1>3. CASE ~IsHttp(m)
  <2>1. WsClientMessage(g, m) /\ toClient[g] # << >>
    BY <1>3 DEF ClientMessage
  <2>2. m = toClient[g][1] /\ 1 \in 1..Len(toClient[g]) /\ m \in Up
    BY <1>1, <2>1, Received DEF FramesUp
  <2>3. FrameSafe(g, m)
    BY <1>1, <2>2 DEF FramesUp
  <2> DEFINE b == m.id
  <2>4. b \in Browser /\ m = [type |-> m.type, id |-> b]
    BY <1>3, <2>2, UpTypes
  <2>5. browser[b].at \notin EarlyWs
    BY <1>3, <2>3 DEF FrameSafe
  <2>6. UNCHANGED <<browser, servedWs>> /\ servedWs[b] \in 0..1 /\ localWs[b] \in LocalWs
        /\ servedWs = [servedWs EXCEPT ![b] = servedWs[b]]
    BY <1>1, <2>1, <2>4 DEF WsClientMessage, SocketsHeld, wsRelay
  <2>7. CASE m.type = "ws-upgrade" /\ localWs' = [localWs EXCEPT ![b].at = "dialing"]
             /\ localWsConnections' = localWsConnections \cup {b}
             /\ dialTimer' = dialTimer \cup {b}
    <3>1. localWs[b].at = "none" /\ servedWs[b] = 0
      BY <1>1, <2>3, <2>4, <2>7 DEF FrameSafe, SocketsHeld
    <3> DEFINE r == [localWs[b] EXCEPT !.at = "dialing"]
    <3>2. r \in LocalWs /\ r.at = "dialing"
      BY <2>6 DEF LocalWs
    <3>3. localWs' = [localWs EXCEPT ![b] = r] /\ b \in localWsConnections'
          /\ dialTimer' \subseteq dialTimer \cup {b} /\ UNCHANGED browser
          /\ servedWs' = [servedWs EXCEPT ![b] = servedWs[b]]
      BY <2>6, <2>7
    <3>4. \A c \in Browser : c # b => localWs'[c] = localWs[c]
      BY <1>1, <2>7 DEF SocketsHeld
    <3> HIDE DEF r, b, m
    <3>5. SocketsHeld'
      BY <1>1, <2>4, <2>5, <2>6, <2>7, <3>1, <3>2, <3>3, SocketUpdate
    <3> QED BY <2>4, <2>7, <3>4, <3>5 DEF m
  <2>8. CASE UNCHANGED <<localWs, localWsConnections, dialTimer>>
    BY <1>1, <2>6, <2>8 DEF SocketsHeld, Reachable
  <2>9. CASE CloseLocal(b) /\ UNCHANGED dialTimer
    <3>1. localWs' = [localWs EXCEPT ![b] = Closing(@)] /\ Forget(b) /\ dialTimer' \subseteq dialTimer \cup {b}
      BY <2>9 DEF CloseLocal
    <3>2. SocketsHeld'
      BY <1>1, <2>4, <2>6, <3>1, SocketCloses
    <3>3. \A c \in Browser : localWs[c].at = "none" => localWs'[c].at = "none"
      BY <1>1, <2>4, <3>1, ClosingKeeps DEF SocketsHeld
    <3> QED BY <3>2, <3>3
  <2> QED BY <2>1, <2>7, <2>8, <2>9 DEF WsClientMessage, WsDial
<1> QED BY <1>2, <1>3

LEMMA EndSockets ==
  ASSUME SocketsHeld, NEW g \in Gen, EndWs(g)
  PROVE  SocketsHeld' /\ \A b \in Browser : localWs[b].at = "none" => localWs'[b].at = "none"
<1> DEFINE mine == {b \in localWsConnections : browser[b].ctl = g}
<1>1. /\ localWs' = [b \in Browser |-> IF b \in mine THEN Closing(localWs[b]) ELSE localWs[b]]
      /\ localWsConnections' = localWsConnections \ mine
      /\ UNCHANGED <<browser, dialTimer, servedWs>>
  BY DEF EndWs, wsRelay
<1> HIDE DEF mine
<1>2. \A b \in Browser : /\ localWs'[b] \in LocalWs
                         /\ localWs'[b].at = "none" <=> localWs[b].at = "none"
                         /\ localWs'[b].at \in {"dialing", "open"} => b \notin mine /\ localWs'[b] = localWs[b]
                         /\ localWs'[b].at = "doomed" => localWs[b].at \in {"dialing", "doomed"}
  BY <1>1, ClosingKeeps DEF SocketsHeld
<1>3. localWs' \in [Browser -> LocalWs]
  BY <1>1, <1>2
<1> QED BY <1>1, <1>2, <1>3 DEF SocketsHeld, Reachable

LEMMA SocketsStep ==
  ASSUME Inv, [Next]_vars
  PROVE  /\ SocketsHeld'
         /\ \/ \A b \in Browser : localWs[b].at = "none" => localWs'[b].at = "none"
            \/ \E g \in Gen : ClientMessage(g)
<1>1. \A b \in Browser : browser'[b].at \in EarlyWs => browser[b].at \in EarlyWs
  BY BrowsersGoOn
<1>2. CASE UNCHANGED wsConnector
  BY <1>1, <1>2 DEF Inv, SocketsHeld, Reachable, wsConnector
<1>3. \/ UNCHANGED wsConnector
      \/ \E b \in Browser : SocketStep(b)
      \/ \E g \in Gen : ClientMessage(g) \/ EndWs(g)
  BY Steps, BrowserStepKeeps DEF Exhausted, RelayStep, Wake, Quiet, Publish, webSocketClose, ended, disconnectTraffic,
     DisconnectWs, ControlMessage, WsControlMessage, wsVars, vars
<1> QED BY <1>2, <1>3, SocketStepHeld, ClientMessageSockets, EndSockets DEF wsConnector, Inv
-----------------------------------------------------------------------------
(* Frames on their way to the connectors                                    *)

(* What no connector knew, none knows after the step. *)
NoneKept ==
  /\ \A v \in Visitor : local[v].at = "none" => local'[v].at = "none"
  /\ \A b \in Browser : localWs[b].at = "none" => localWs'[b].at = "none"

LEMMA FrameStays ==
  ASSUME Inv, [Next]_vars, NEW g \in Gen, NEW m \in Up, FrameSafe(g, m),
         m.type = "request" => local'[m.req].at = "none",
         m.type = "ws-upgrade" => localWs'[m.id].at = "none"
  PROVE  FrameSafe(g, m)'
<1>1. m.type = "request" => m.req \in Visitor
  BY UpTypes DEF IsHttp, Requests
<1>2. ~IsHttp(m) => m.id \in Browser
  BY UpTypes
<1>3. m.type = "request" => visitor'[m.req].at \notin Early
  BY <1>1, RequestsGoOn DEF FrameSafe
<1>4. ~IsHttp(m) => browser'[m.id].at \notin EarlyWs /\ browser'[m.id].ctl = g
  BY <1>2, BrowsersGoOn DEF FrameSafe
<1> QED BY <1>3, <1>4 DEF FrameSafe, IsHttp

LEMMA FrameStaysUnknown ==
  ASSUME Inv, [Next]_vars, NoneKept, NEW g \in Gen, NEW m \in Up, FrameSafe(g, m)
  PROVE  FrameSafe(g, m)'
<1>1. m.type = "request" => m.req \in Visitor
  BY UpTypes DEF IsHttp, Requests
<1>2. m.type = "ws-upgrade" => m.id \in Browser
  BY UpTypes DEF IsHttp, Requests, Responses
<1> QED BY <1>1, <1>2, FrameStays DEF FrameSafe, NoneKept

LEMMA ChargesGoOn ==
  ASSUME Inv, [Next]_vars
  PROVE  \A b \in Browser : frame'[b] # "none" => browser'[b].at \notin EarlyWs
<1>1. CASE UNCHANGED frame
  BY <1>1, BrowsersGoOn DEF Inv, FramesUp
<1>2. ASSUME NEW b \in Browser, BrowserMessage(b) \/ Charged(b)
      PROVE  \A c \in Browser : frame'[c] # "none" => browser'[c].at \notin EarlyWs
  <2>1. browser[b].at \notin EarlyWs
    BY <1>2 DEF BrowserMessage, Charged, Inv, FramesUp, EarlyWs
  <2>2. \A c \in Browser : c # b => frame'[c] = frame[c]
    BY <1>2 DEF BrowserMessage, Charged, Inv, BrowsersHeld
  <2> QED BY <2>1, <2>2, BrowsersGoOn DEF Inv, FramesUp
<1>3. UNCHANGED frame \/ \E b \in Browser : BrowserMessage(b) \/ Charged(b)
  <2>1. UNCHANGED wsRelay => UNCHANGED frame
    BY DEF wsRelay
  <2>2. ASSUME NEW b \in Browser, BrowserStep(b) PROVE UNCHANGED frame \/ BrowserMessage(b) \/ Charged(b)
    BY <2>2 DEF BrowserStep, Upgrade, UpgradeAuthorized, UpgradeMetered, UpgradeTimeout, BrowserClose
  <2> QED BY <2>1, <2>2, Steps, SocketStepKeeps DEF Exhausted, Wake, Quiet, Publish, webSocketClose, ended,
        disconnectTraffic, DisconnectWs, EndWs, ControlMessage, WsControlMessage, ClientMessage, WsClientMessage, wsVars, vars
<1> QED BY <1>1, <1>2, <1>3

LEMMA FramesKept ==
  ASSUME Inv, [Next]_vars, NoneKept, toClient' \in [Gen -> Seq(Up)],
         \A g \in Gen : toClient'[g] \in {toClient[g], << >>}
  PROVE  FramesUp'
<1>1. \A g \in Gen : \A i \in 1..Len(toClient'[g]) : i \in 1..Len(toClient[g]) /\ toClient'[g][i] = toClient[g][i]
  BY EmptySeq
<1>2. \A g \in Gen : \A i \in 1..Len(toClient[g]) : toClient[g][i] \in Up
  BY LenProperties DEF Inv, FramesUp
<1>3. ASSUME NEW g \in Gen, NEW i \in 1..Len(toClient'[g]) PROVE FrameSafe(g, toClient[g][i])'
  <2>1. PICK m \in Up : FrameSafe(g, m) /\ toClient'[g][i] = m
    BY <1>1, <1>2 DEF Inv, FramesUp
  <2>2. FrameSafe(g, m)'
    BY <2>1, FrameStaysUnknown
  <2> QED BY <2>1, <2>2 DEF FrameSafe, IsHttp
<1>4. \A g, h \in Gen : \A i \in 1..Len(toClient'[g]), j \in 1..Len(toClient'[h]) :
        toClient'[g][i] = toClient'[h][j] /\ toClient'[g][i].type \in Opening => g = h /\ i = j
  BY <1>1 DEF Inv, FramesUp
<1> QED BY <1>3, <1>4, ChargesGoOn DEF FramesUp

LEMMA FramesSent ==
  ASSUME Inv, [Next]_vars, NoneKept, NEW k \in Gen, NEW n \in Up,
         toClient' = [toClient EXCEPT ![k] = Append(@, n)], FrameSafe(k, n)',
         n.type \in Opening => \A g \in Gen : ~FrameSafe(g, n)
  PROVE  FramesUp'
<1>0. toClient \in [Gen -> Seq(Up)]
  BY DEF Inv, FramesUp
<1>1. /\ toClient' \in [Gen -> Seq(Up)]
      /\ \A g \in Gen : \A i \in 1..Len(toClient'[g]) :
           \/ i \in 1..Len(toClient[g]) /\ toClient'[g][i] = toClient[g][i]
           \/ g = k /\ i = Len(toClient[k]) + 1 /\ toClient'[g][i] = n
  BY <1>0, Sent
<1>2. \A g \in Gen : \A i \in 1..Len(toClient[g]) : toClient[g][i] \in Up /\ FrameSafe(g, toClient[g][i])
  BY LenProperties DEF Inv, FramesUp
<1>3. ASSUME NEW g \in Gen, NEW i \in 1..Len(toClient'[g]) PROVE FrameSafe(g, toClient[g][i])'
  <2>1. CASE g = k /\ toClient'[g][i] = n
    BY <2>1 DEF FrameSafe, IsHttp
  <2>2. CASE i \in 1..Len(toClient[g]) /\ toClient'[g][i] = toClient[g][i]
    <3>1. PICK m \in Up : FrameSafe(g, m) /\ toClient'[g][i] = m
      BY <1>2, <2>2
    <3>2. FrameSafe(g, m)'
      BY <3>1, FrameStaysUnknown
    <3> QED BY <3>1, <3>2 DEF FrameSafe, IsHttp
  <2> QED BY <1>1, <2>1, <2>2
<1>4. n.type \in Opening => \A g \in Gen : \A i \in 1..Len(toClient[g]) : toClient[g][i] # n
  BY <1>2
<1>5. \A g, h \in Gen : \A i \in 1..Len(toClient'[g]), j \in 1..Len(toClient'[h]) :
        toClient'[g][i] = toClient'[h][j] /\ toClient'[g][i].type \in Opening => g = h /\ i = j
  BY <1>1, <1>4 DEF Inv, FramesUp
<1> QED BY <1>1, <1>3, <1>5, ChargesGoOn DEF FramesUp

LEMMA FramesReceived ==
  ASSUME Inv, [Next]_vars, NEW k \in Gen, ClientMessage(k)
  PROVE  FramesUp'
<1>0. toClient \in [Gen -> Seq(Up)] /\ toClient[k] # << >> /\ toClient' = [toClient EXCEPT ![k] = Tail(@)]
  BY DEF Inv, FramesUp, ClientMessage
<1>1. /\ toClient' \in [Gen -> Seq(Up)]
      /\ 1 \in 1..Len(toClient[k]) /\ Head(toClient[k]) = toClient[k][1] /\ Head(toClient[k]) \in Up
      /\ \A g \in Gen : g # k => toClient'[g] = toClient[g]
      /\ \A i \in 1..Len(toClient'[k]) : i + 1 \in 1..Len(toClient[k]) /\ toClient'[k][i] = toClient[k][i + 1]
  BY <1>0, Received
<1>2. \A g \in Gen : \A i \in 1..Len(toClient[g]) : toClient[g][i] \in Up /\ FrameSafe(g, toClient[g][i])
  BY LenProperties DEF Inv, FramesUp
<1>3. ASSUME NEW g \in Gen, NEW i \in 1..Len(toClient'[g]) PROVE FrameSafe(g, toClient[g][i])'
  <2>1. PICK j \in 1..Len(toClient[g]) : toClient'[g][i] = toClient[g][j] /\ (g = k => j = i + 1)
    BY <1>1
  <2>2. PICK m \in Up : FrameSafe(g, m) /\ toClient'[g][i] = m /\ toClient[g][j] = m
    BY <1>2, <2>1
  <2>3. m.type \in Opening => m # Head(toClient[k])
    BY <1>1, <2>1, <2>2 DEF Inv, FramesUp
  <2>4. m.type = "request" => m = [type |-> "request", req |-> m.req] /\ m.req \in Visitor
    BY UpTypes DEF IsHttp, Requests
  <2>5. m.type = "ws-upgrade" => m = [type |-> "ws-upgrade", id |-> m.id] /\ m.id \in Browser
    BY UpTypes DEF IsHttp, Requests, Responses
  <2>6. m.type = "request" => local'[m.req].at = "none"
    BY <2>2, <2>3, <2>4, ClientMessageLocals DEF FrameSafe, Opening
  <2>7. m.type = "ws-upgrade" => localWs'[m.id].at = "none"
    BY <2>2, <2>3, <2>5, ClientMessageSockets DEF FrameSafe, Opening
  <2>8. FrameSafe(g, m)'
    BY <2>2, <2>6, <2>7, FrameStays
  <2> QED BY <2>2, <2>8 DEF FrameSafe, IsHttp
<1>4. \A g, h \in Gen : \A i \in 1..Len(toClient'[g]), j \in 1..Len(toClient'[h]) :
        toClient'[g][i] = toClient'[h][j] /\ toClient'[g][i].type \in Opening => g = h /\ i = j
  <2> SUFFICES ASSUME NEW g \in Gen, NEW h \in Gen, NEW i \in 1..Len(toClient'[g]), NEW j \in 1..Len(toClient'[h]),
                      toClient'[g][i] = toClient'[h][j], toClient'[g][i].type \in Opening
               PROVE  g = h /\ i = j
    OBVIOUS
  <2>1. PICK x \in 1..Len(toClient[g]) : toClient'[g][i] = toClient[g][x] /\ x = (IF g = k THEN i + 1 ELSE i)
    BY <1>1
  <2>2. PICK y \in 1..Len(toClient[h]) : toClient'[h][j] = toClient[h][y] /\ y = (IF h = k THEN j + 1 ELSE j)
    BY <1>1
  <2>3. toClient[g][x] = toClient[h][y] /\ toClient[g][x].type \in Opening
    BY <2>1, <2>2
  <2>4. \A i1 \in 1..Len(toClient[g]), j1 \in 1..Len(toClient[h]) :
          toClient[g][i1] = toClient[h][j1] /\ toClient[g][i1].type \in Opening => g = h /\ i1 = j1
    BY DEF Inv, FramesUp
  <2>5. g = h /\ x = y
    BY <2>3, <2>4
  <2> QED BY <2>1, <2>2, <2>5
<1> QED BY <1>1, <1>3, <1>4, ChargesGoOn DEF FramesUp

(* What the relay sends. *)
LEMMA RequestSends ==
  ASSUME Inv, NEW v \in Visitor, RequestStep(v)
  PROVE  \/ UNCHANGED toClient
         \/ \E g \in Gen : toClient' = [toClient EXCEPT ![g] = Append(@, [type |-> "request-abort", req |-> v])]
         \/ /\ visitor[v].at \in Early /\ visitor'[v].at \notin Early
            /\ \E g \in Gen : toClient' = [toClient EXCEPT ![g] = Append(@, [type |-> "request", req |-> v])]
<1>1. /\ ctl = 0 \/ ctl \in Gen
      /\ visitor[v].at \in {"meter", "capture"} => visitor[v].ctl \in Gen /\ visitor[v].ctl # 0
      /\ visitor \in [Visitor -> VisitorType]
  BY CtlServes, RegisterTypes DEF Inv, RequestsHeld
<1>2. CASE visitor[v].at \in {"meter", "capture"} /\ Dispatch(v)
  <2>1. visitor'[v].at = "sent"
    BY <1>1, <1>2 DEF Dispatch, To, VisitorType
  <2>2. toClient' = [toClient EXCEPT ![visitor[v].ctl] = Append(@, [type |-> "request", req |-> v])]
    BY <1>1, <1>2 DEF Dispatch, Forward
  <2> QED BY <1>1, <1>2, <2>1, <2>2 DEF Early
<1>3. CASE \E g \in {0, ctl} : Forward(g, [type |-> "request-abort", req |-> v])
  BY <1>1, <1>3 DEF Forward
<1>4. \/ UNCHANGED toClient
      \/ visitor[v].at \in {"meter", "capture"} /\ Dispatch(v)
      \/ \E g \in {0, ctl} : Forward(g, [type |-> "request-abort", req |-> v])
  BY DEF RequestStep, Arrive, Preamble, ReadLoss, Authorized, Metered, Captured, WaitEnds, Abort,
     PendingTimeout, IdleTimeout, At, Unsent
<1> QED BY <1>2, <1>3, <1>4

LEMMA BrowserSends ==
  ASSUME Inv, NEW b \in Browser, BrowserStep(b)
  PROVE  \/ UNCHANGED toClient
         \/ \E g \in Gen : \E type \in {"ws-upgrade", "ws-message", "ws-close"} :
              /\ toClient' = [toClient EXCEPT ![g] = Append(@, [type |-> type, id |-> b])]
              /\ browser'[b].at \notin EarlyWs /\ browser'[b].ctl = g
              /\ type = "ws-upgrade" => browser[b].at \in EarlyWs
<1>1. ctl = 0 \/ ctl \in Gen
  BY CtlServes DEF Inv
<1>2. browser \in [Browser -> BrowserType] /\ (frame[b] # "none" => browser[b].at \notin EarlyWs)
  BY DEF Inv, BrowsersHeld, FramesUp
<1> SUFFICES ASSUME ~UNCHANGED toClient
             PROVE  /\ ctl \in Gen /\ browser'[b].at \notin EarlyWs /\ browser'[b].ctl = ctl
                    /\ \E type \in {"ws-upgrade", "ws-message", "ws-close"} :
                         /\ toClient' = [toClient EXCEPT ![ctl] = Append(@, [type |-> type, id |-> b])]
                         /\ type = "ws-upgrade" => browser[b].at \in EarlyWs
  OBVIOUS
<1>3. UpgradeMetered(b) \/ BrowserMessage(b) \/ Charged(b) \/ BrowserClose(b)
  BY DEF BrowserStep, Upgrade, UpgradeAuthorized, UpgradeTimeout
<1>4. CASE UpgradeMetered(b)
  <2>1. browser[b].at = "meter" /\ ctl = browser[b].ctl /\ BrowserTo(b, "upgrading")
        /\ Forward(ctl, [type |-> "ws-upgrade", id |-> b])
    BY <1>4 DEF UpgradeMetered
  <2>2. browser'[b].at = "upgrading" /\ browser'[b].ctl = ctl
    BY <1>2, <2>1 DEF BrowserTo, BrowserType
  <2>3. ctl # 0 /\ toClient' = [toClient EXCEPT ![ctl] = Append(@, [type |-> "ws-upgrade", id |-> b])]
    BY <2>1 DEF Forward
  <2> QED BY <1>1, <2>1, <2>2, <2>3 DEF EarlyWs
<1>5. CASE BrowserMessage(b) \/ Charged(b)
  <2>1. browser[b].at \notin EarlyWs /\ ctl = browser[b].ctl /\ UNCHANGED browser /\ Relayed(b)
    BY <1>2, <1>5 DEF BrowserMessage, Charged, EarlyWs
  <2>2. ctl # 0 /\ toClient' = [toClient EXCEPT ![ctl] = Append(@, [type |-> "ws-message", id |-> b])]
    BY <2>1 DEF Forward, Relayed
  <2> QED BY <1>1, <2>1, <2>2
<1>6. CASE BrowserClose(b)
  <2>1. browser[b].at = "open" /\ BrowserTo(b, "closed") /\ ctl = browser[b].ctl
        /\ Forward(ctl, [type |-> "ws-close", id |-> b])
    BY <1>6 DEF BrowserClose, Forward
  <2>2. browser'[b].at = "closed" /\ browser'[b].ctl = ctl
    BY <1>2, <2>1 DEF BrowserTo, BrowserType
  <2>3. ctl # 0 /\ toClient' = [toClient EXCEPT ![ctl] = Append(@, [type |-> "ws-close", id |-> b])]
    BY <2>1 DEF Forward
  <2> QED BY <1>1, <2>1, <2>2, <2>3 DEF EarlyWs
<1> QED BY <1>3, <1>4, <1>5, <1>6

LEMMA FramesUpStep == Inv /\ [Next]_vars => FramesUp'
<1> SUFFICES ASSUME Inv, [Next]_vars PROVE FramesUp'
  OBVIOUS
<1>1. toClient \in [Gen -> Seq(Up)]
  BY DEF Inv, FramesUp
<1>2. CASE UNCHANGED toClient /\ NoneKept
  BY <1>1, <1>2, FramesKept
<1>3. UNCHANGED <<connector, wsConnector>> => NoneKept
  BY DEF connector, wsConnector, NoneKept
<1>4. ASSUME NEW v \in Visitor, RequestStep(v), UNCHANGED wsVars PROVE FramesUp'
  <2>1. NoneKept
    BY <1>3, <1>4, RequestStepKeeps DEF wsVars
  <2>2. CASE \E g \in Gen : toClient' = [toClient EXCEPT ![g] = Append(@, [type |-> "request-abort", req |-> v])]
    <3> DEFINE n == [type |-> "request-abort", req |-> v]
    <3>1. n \in Up /\ IsHttp(n) /\ n.type = "request-abort"
      BY SentUp DEF Requests
    <3>2. PICK g \in Gen : toClient' = [toClient EXCEPT ![g] = Append(@, n)]
      BY <2>2
    <3>3. FrameSafe(g, n)' /\ n.type \notin Opening
      BY <3>1 DEF FrameSafe, IsHttp, Opening
    <3> HIDE DEF n
    <3> QED BY <2>1, <3>1, <3>2, <3>3, FramesSent
  <2>3. CASE /\ visitor[v].at \in Early /\ visitor'[v].at \notin Early
             /\ \E g \in Gen : toClient' = [toClient EXCEPT ![g] = Append(@, [type |-> "request", req |-> v])]
    <3> DEFINE n == [type |-> "request", req |-> v]
    <3>1. n \in Up /\ IsHttp(n) /\ n.type = "request" /\ n.req = v
      BY SentUp DEF Requests
    <3>2. PICK g \in Gen : toClient' = [toClient EXCEPT ![g] = Append(@, n)]
      BY <2>3
    <3>3. local'[v].at = "none"
      BY <2>1, <2>3 DEF Inv, LocalsHeld, NoneKept
    <3>4. FrameSafe(g, n)'
      BY <2>3, <3>1, <3>3 DEF FrameSafe, IsHttp
    <3>5. \A h \in Gen : ~FrameSafe(h, n)
      BY <2>3, <3>1 DEF FrameSafe
    <3> HIDE DEF n
    <3> QED BY <2>1, <3>1, <3>2, <3>4, <3>5, FramesSent
  <2> QED BY <1>2, <1>4, <2>1, <2>2, <2>3, RequestSends
<1>5. ASSUME NEW b \in Browser, BrowserStep(b), UNCHANGED httpVars PROVE FramesUp'
  <2>1. NoneKept
    BY <1>3, <1>5, BrowserStepKeeps DEF httpVars
  <2>2. ASSUME NEW g \in Gen, NEW type \in {"ws-upgrade", "ws-message", "ws-close"},
               toClient' = [toClient EXCEPT ![g] = Append(@, [type |-> type, id |-> b])],
               browser'[b].at \notin EarlyWs, browser'[b].ctl = g,
               type = "ws-upgrade" => browser[b].at \in EarlyWs
        PROVE  FramesUp'
    <3> DEFINE n == [type |-> type, id |-> b]
    <3>1. n \in Up /\ ~IsHttp(n) /\ n.type = type /\ n.id = b
      BY SentUp
    <3>2. toClient' = [toClient EXCEPT ![g] = Append(@, n)]
      BY <2>2
    <3>3. type = "ws-upgrade" => localWs'[b].at = "none"
      BY <2>1, <2>2 DEF Inv, SocketsHeld, NoneKept
    <3>4. n.type # "request"
      BY <3>1
    <3>5. FrameSafe(g, n)'
      BY <2>2, <3>1, <3>3, <3>4 DEF FrameSafe, IsHttp
    <3>6. n.type \in Opening => \A h \in Gen : ~FrameSafe(h, n)
      BY <2>2, <3>1 DEF FrameSafe, Opening
    <3> HIDE DEF n
    <3> QED BY <2>1, <3>1, <3>2, <3>5, <3>6, FramesSent
  <2> QED BY <1>2, <1>5, <2>1, <2>2, BrowserSends
<1>6. ASSUME NEW v \in Visitor, Serve(v), UNCHANGED wsVars PROVE FramesUp'
  BY <1>2, <1>6, ServeHeld, ServeKeeps DEF NoneKept, wsVars, wsConnector
<1>7. ASSUME NEW b \in Browser, SocketStep(b), UNCHANGED httpVars PROVE FramesUp'
  BY <1>2, <1>7, SocketStepHeld, SocketStepKeeps DEF NoneKept, httpVars, connector
<1>8. ASSUME NEW g \in Gen, Quiet(g) PROVE FramesUp'
  <2>1. NoneKept
    BY <1>3, <1>8 DEF Quiet, httpVars, wsVars
  <2>2. toClient' \in [Gen -> Seq(Up)] /\ \A h \in Gen : toClient'[h] \in {toClient[h], << >>}
    BY <1>1, <1>8, EmptySeq, ZenonT(30) DEF Quiet, Accept, Drop
  <2> QED BY <2>1, <2>2, FramesKept
<1>9. ASSUME NEW g \in Gen, ended(g) PROVE FramesUp'
  <2>1. NoneKept
    BY <1>9, EndSockets DEF ended, httpVars, connector, NoneKept, Inv
  <2>2. UNCHANGED toClient
    BY <1>9 DEF ended, EndLink
  <2> QED BY <1>2, <2>1, <2>2
<1>10. ASSUME NEW g \in Gen, Publish(g) \/ webSocketClose(g) \/ ControlMessage(g) PROVE FramesUp'
  <2>1. UNCHANGED <<connector, wsConnector>>
    BY <1>10 DEF Publish, webSocketClose, disconnectTraffic, DisconnectHttp, DisconnectWs, ControlMessage,
       HttpControlMessage, WsControlMessage, httpVars, wsVars
  <2>2. UNCHANGED toClient
    BY <1>10 DEF Publish, PublishLink, webSocketClose, CloseLink, ControlMessage
  <2> QED BY <1>2, <1>3, <2>1, <2>2
<1>11. CASE Wake \/ UNCHANGED vars
  <2>1. UNCHANGED <<connector, wsConnector, toClient>>
    BY <1>11 DEF Wake, WakeReads, httpVars, wsVars, vars
  <2> QED BY <1>2, <1>3, <2>1
<1>13. CASE (Claim \/ Elapse) /\ UNCHANGED <<httpVars, wsVars>>
  <2>1. UNCHANGED <<connector, wsConnector, toClient>>
    BY <1>13 DEF Claim, Elapse, httpVars, wsVars
  <2> QED BY <1>2, <1>3, <2>1
<1>12. CASE Exhausted /\ UNCHANGED httpVars
  BY <1>2, <1>3, <1>12 DEF Exhausted, RelayStep, httpVars
<1> QED BY <1>4, <1>5, <1>6, <1>7, <1>8, <1>9, <1>10, <1>11, <1>12, <1>13, Steps, FramesReceived
-----------------------------------------------------------------------------
(* Frames on their way to the relay, and the streams they keep              *)

Well(m) == ~Malformed => (m.type = "response-chunk" => m.fine)
Streamed == ~Malformed => \A v \in Visitor : visitor[v].at = "stream" => v \in streaming
Heeded == /\ toRelay \in [Gen -> Seq(Down)]
          /\ \A g \in Gen : \A i \in 1..Len(toRelay[g]) : Well(toRelay[g][i])

LEMMA FramesDownParts == FramesDown <=> Heeded /\ Streamed
BY DEF FramesDown, Heeded, Streamed, Well

LEMMA Replied ==
  ASSUME Heeded, up \subseteq Gen, NEW g, NEW m \in Down, Well(m), Reply(g, m)
  PROVE  Heeded'
<1>1. CASE g \notin up
  BY <1>1 DEF Reply, Heeded, Well
<1>2. CASE g \in up
  <2>1. g \in Gen /\ toRelay' = [toRelay EXCEPT ![g] = Append(@, m)] /\ toRelay \in [Gen -> Seq(Down)]
    BY <1>2 DEF Reply, Heeded
  <2>2. /\ toRelay' \in [Gen -> Seq(Down)]
        /\ \A h \in Gen : \A i \in 1..Len(toRelay'[h]) :
             \/ i \in 1..Len(toRelay[h]) /\ toRelay'[h][i] = toRelay[h][i]
             \/ h = g /\ i = Len(toRelay[g]) + 1 /\ toRelay'[h][i] = m
    BY <2>1, Sent
  <2> QED BY <2>2 DEF Heeded, Well
<1> QED BY <1>1, <1>2

LEMMA ReplyTypes ==
  /\ \A v \in Visitor, type \in Responses, fine \in BOOLEAN :
       /\ [type |-> type, req |-> v, fine |-> fine] \in Down
       /\ type # "response-chunk" \/ fine \/ Malformed => Well([type |-> type, req |-> v, fine |-> fine])
  /\ \A b \in Browser, type \in {"ws-ready", "ws-error", "ws-close"} :
       [type |-> type, id |-> b] \in Down /\ Well([type |-> type, id |-> b])
BY DEF Down, HttpDown, WsDown, Well, Responses

LEMMA HeedStep == Inv /\ [Next]_vars => Heeded'
<1> SUFFICES ASSUME Inv, [Next]_vars PROVE Heeded'
  OBVIOUS
<1>1. Heeded /\ up \subseteq Gen
  BY FramesDownParts DEF Inv, LinksHeld, TypeOKLinks
<1>2. CASE UNCHANGED toRelay
  BY <1>1, <1>2 DEF Heeded, Well
<1>3. ASSUME NEW v \in Visitor, NEW type \in Responses, NEW fine \in BOOLEAN, Send(v, type, fine),
             type # "response-chunk" \/ fine \/ Malformed
      PROVE  Heeded'
  <2> DEFINE m == [type |-> type, req |-> v, fine |-> fine]
  <2>1. m \in Down /\ Well(m) /\ Reply(visitor[v].ctl, m)
    BY <1>3, ReplyTypes DEF Send
  <2> HIDE DEF m
  <2> QED BY <1>1, <2>1, Replied
<1>4. ASSUME NEW b \in Browser, NEW type \in {"ws-ready", "ws-error", "ws-close"}, Tell(b, type) PROVE Heeded'
  <2> DEFINE m == [type |-> type, id |-> b]
  <2>1. m \in Down /\ Well(m) /\ Reply(browser[b].ctl, m)
    BY <1>4, ReplyTypes DEF Tell
  <2> HIDE DEF m
  <2> QED BY <1>1, <2>1, Replied
<1>5. ASSUME NEW v \in Visitor, Serve(v) PROVE Heeded'
  <2>1. \/ UNCHANGED toRelay
        \/ \E type \in Responses, fine \in BOOLEAN :
             Send(v, type, fine) /\ (type # "response-chunk" \/ fine \/ Malformed)
    <3>1. Send(v, "response", TRUE) \/ Send(v, "response-end", TRUE) =>
          \E type \in Responses, fine \in BOOLEAN :
             Send(v, type, fine) /\ (type # "response-chunk" \/ fine \/ Malformed)
      BY DEF Responses
    <3>2. CASE Answer(v)
      BY <3>2 DEF Answer, Responses
    <3>3. CASE Chunk(v)
      <4>1. PICK fine \in {TRUE, ~Malformed} : Send(v, "response-chunk", fine)
        BY <3>3 DEF Chunk
      <4>2. fine \in BOOLEAN /\ (fine \/ Malformed)
        BY <4>1, HttpRelayAssumption
      <4> QED BY <4>1, <4>2 DEF Responses
    <3>4. CASE ~Answer(v) /\ ~Chunk(v)
      BY <1>5, <3>1, <3>4 DEF Serve, Refused, Resolved, Take, Fail, End, Break, send502
    <3> QED BY <3>2, <3>3, <3>4
  <2> QED BY <1>2, <1>3, <2>1
<1>6. ASSUME NEW b \in Browser, SocketStep(b) PROVE Heeded'
  BY <1>2, <1>4, <1>6 DEF SocketStep, LocalOpen, LocalError, LocalClose, DialTimeout
<1>7. ASSUME NEW g \in Gen, Quiet(g) PROVE Heeded'
  <2>1. toRelay' \in [Gen -> Seq(Down)] /\ \A h \in Gen : toRelay'[h] \in {toRelay[h], << >>}
    <3>1. toRelay \in [Gen -> Seq(Down)] /\ << >> \in Seq(Down)
      BY <1>1, EmptySeq DEF Heeded
    <3>2. UNCHANGED toRelay \/ toRelay' = [toRelay EXCEPT ![g] = << >>]
      BY <1>7 DEF Quiet, Accept, Drop
    <3> QED BY <3>1, <3>2
  <2>2. \A h \in Gen : \A i \in 1..Len(toRelay'[h]) : i \in 1..Len(toRelay[h]) /\ toRelay'[h][i] = toRelay[h][i]
    BY <2>1, EmptySeq
  <2> QED BY <1>1, <2>1, <2>2 DEF Heeded, Well
<1>8. ASSUME NEW g \in Gen, ControlMessage(g) PROVE Heeded'
  <2>1. toRelay \in [Gen -> Seq(Down)] /\ toRelay[g] # << >> /\ toRelay' = [toRelay EXCEPT ![g] = Tail(@)]
    BY <1>1, <1>8 DEF ControlMessage, Heeded
  <2>2. /\ toRelay' \in [Gen -> Seq(Down)]
        /\ \A h \in Gen : h # g => toRelay'[h] = toRelay[h]
        /\ \A i \in 1..Len(toRelay'[g]) : i + 1 \in 1..Len(toRelay[g]) /\ toRelay'[g][i] = toRelay[g][i + 1]
    BY <2>1, Received
  <2> QED BY <1>1, <2>2 DEF Heeded, Well
<1>9. ASSUME NEW g \in Gen, ClientMessage(g) PROVE Heeded'
  <2> DEFINE m == Head(toClient[g])
  <2>0. m \in Up
    BY <1>9, Received DEF ClientMessage, Inv, FramesUp
  <2>1. CASE IsHttp(m)
    <3>1. m.req \in Visitor
      BY <2>0, <2>1, UpTypes
    <3>2. UNCHANGED toRelay \/ Send(m.req, "response", TRUE)
      BY <1>9, <2>1 DEF ClientMessage, HttpClientMessage, send502
    <3> HIDE DEF m
    <3>3. "response" \in Responses /\ TRUE \in BOOLEAN
      BY DEF Responses
    <3> QED BY <1>2, <1>3, <3>1, <3>2, <3>3
  <2>2. CASE ~IsHttp(m)
    <3>1. m.id \in Browser
      BY <2>0, <2>2, UpTypes
    <3>2. UNCHANGED toRelay \/ Tell(m.id, "ws-error")
      BY <1>9, <2>2 DEF ClientMessage, WsClientMessage, WsDial
    <3> HIDE DEF m
    <3> QED BY <1>2, <1>4, <3>1, <3>2
  <2> QED BY <2>1, <2>2
<1>10. ASSUME NEW g \in Gen, Publish(g) \/ webSocketClose(g) \/ ended(g) PROVE UNCHANGED toRelay
  BY <1>10 DEF Publish, PublishLink, webSocketClose, CloseLink, ended, EndLink
<1>11. (Wake \/ Claim \/ Elapse \/ Exhausted \/ UNCHANGED vars) => UNCHANGED toRelay
  BY DEF Wake, Claim, Elapse, Exhausted, RelayStep, vars
<1> QED BY <1>2, <1>5, <1>6, <1>7, <1>8, <1>9, <1>10, <1>11, Steps, RequestStepKeeps, BrowserStepKeeps

LEMMA RequestStreams ==
  ASSUME Inv, NEW v \in Visitor, RequestStep(v)
  PROVE  Streamed'
<1>1. visitor \in [Visitor -> VisitorType] /\ \A at : [visitor[v] EXCEPT !.at = at].at = at
  BY DEF Inv, RequestsHeld, VisitorType
<1>2. \A w \in Visitor : w # v => visitor'[w] = visitor[w]
  BY <1>1 DEF RequestStep, Arrive, Preamble, ReadLoss, Authorized, Metered, Captured, WaitEnds, Abort,
       PendingTimeout, IdleTimeout, To, Resume, Dispatch
<1>3. streaming \ {v} \subseteq streaming'
  BY DEF RequestStep, Arrive, Preamble, ReadLoss, Authorized, Metered, Captured, WaitEnds, Abort,
       PendingTimeout, IdleTimeout, Unsent, maps, Dispatch
<1>4. visitor'[v].at # "stream"
  <2>1. ASSUME NEW at \in {"loss", "waiting", "answered", "meter", "sent", "capture", "cut"}, To(v, at)
        PROVE  visitor'[v].at # "stream"
    BY <1>1, <2>1 DEF To
  <2>2. ASSUME NEW g \in {0, ctl}, Resume(v, g) PROVE visitor'[v].at # "stream"
    BY <1>1, <2>2 DEF Resume, Resumed, VisitorType
  <2>3. CASE Abort(v)
    <3> DEFINE at == CASE visitor[v].at = "waiting" -> "answered"
                       [] visitor[v].at = "stream" -> "ended" [] OTHER -> visitor[v].at
    <3>1. visitor' = [visitor EXCEPT ![v].gone = TRUE, ![v].at = at]
      BY <2>3 DEF Abort
    <3>2. at # "stream"
      OBVIOUS
    <3> HIDE DEF at
    <3> QED BY <1>1, <3>1, <3>2 DEF VisitorType
  <2> QED BY <2>1, <2>2, <2>3 DEF RequestStep, Arrive, Preamble, ReadLoss, Authorized, Metered, Captured, WaitEnds,
       PendingTimeout, IdleTimeout, Dispatch
<1> QED BY <1>2, <1>3, <1>4, FramesDownParts DEF Inv, Streamed

LEMMA StreamStep == Inv /\ [Next]_vars => Streamed'
<1> SUFFICES ASSUME Inv, [Next]_vars PROVE Streamed'
  OBVIOUS
<1>1. Streamed /\ visitor \in [Visitor -> VisitorType]
      /\ \A v \in Visitor : \A at : [visitor[v] EXCEPT !.at = at].at = at
  BY FramesDownParts DEF Inv, RequestsHeld, VisitorType
<1>2. CASE UNCHANGED <<visitor, maps>>
  BY <1>1, <1>2 DEF Streamed, maps
<1>3. CASE DisconnectHttp
  <2> SUFFICES ASSUME NEW v \in Visitor, ~Malformed PROVE visitor'[v].at # "stream"
    BY DEF Streamed
  <2>1. ~(v \in pendingHttp /\ v \in streaming) /\ visitor[v] \in VisitorType
    BY <1>1 DEF Inv, RequestsHeld
  <2>2. CASE v \in pendingHttp
    <3>1. visitor'[v] = [visitor[v] EXCEPT !.at = "answered"]
      BY <1>3, <2>1, <2>2 DEF DisconnectHttp
    <3> QED BY <2>1, <3>1 DEF VisitorType
  <2>3. CASE v \in streaming
    <3>1. visitor'[v] = [visitor[v] EXCEPT !.at = "cut"]
      BY <1>3, <2>1, <2>3 DEF DisconnectHttp
    <3> QED BY <2>1, <3>1 DEF VisitorType
  <2>4. CASE v \notin pendingHttp \cup streaming
    <3>1. visitor'[v] = visitor[v]
      BY <1>3, <2>4 DEF DisconnectHttp
    <3> QED BY <1>1, <2>4, <3>1 DEF Streamed
  <2> QED BY <2>2, <2>3, <2>4
<1>4. CASE Wake
  <2>1. UNCHANGED maps /\ \A v \in Visitor : visitor'[v] # visitor[v] => visitor'[v] = Resumed(v, ctl)
    BY <1>4 DEF Wake, WakeReads
  <2>2. \A v \in Visitor : Resumed(v, ctl).at # "stream"
    BY <1>1 DEF Resumed, VisitorType
  <2> QED BY <1>1, <2>1, <2>2 DEF Streamed, maps
<1>5. ASSUME NEW g \in Gen, ControlMessage(g) PROVE Streamed'
  <2> DEFINE m == Head(toRelay[g])
  <2>1. CASE UNCHANGED <<visitor, maps>>
    BY <1>2, <2>1
  <2>2. CASE ~UNCHANGED <<visitor, maps>>
    <3>1. Heard(g, m) /\ HttpControlMessage(g, m)
      BY <1>5, <2>2 DEF ControlMessage, HttpControlMessage, httpVars
    <3>2. Well(m)
      <4>1. toRelay \in [Gen -> Seq(Down)] /\ toRelay[g] # << >>
        BY <1>5, FramesDownParts DEF ControlMessage, Heeded, Inv
      <4>2. m = toRelay[g][1] /\ 1 \in 1..Len(toRelay[g])
        BY <4>1, Received
      <4> QED BY <4>2, FramesDownParts DEF Heeded, Inv
    <3> HIDE DEF m
    <3>3. m.req \in Visitor
      BY <3>1 DEF Heard, Inv, RequestsHeld
    <3>4. CASE m.type \in {"response", "response-end"}
      <4>1. \E at \in {"answered", "ended"} : Ends(m.req, at)
        BY <2>2, <3>1, <3>4 DEF HttpControlMessage
      <4> QED BY <1>1, <3>3, <4>1 DEF Ends, To, Streamed
    <3>5. CASE m.type = "response-start"
      <4>1. ResponseStart(m.req, m)
        BY <2>2, <3>1, <3>5 DEF HttpControlMessage
      <4> QED BY <1>1, <3>3, <4>1 DEF ResponseStart, To, Streamed
    <3>6. CASE m.type = "response-chunk"
      <4>1. ResponseChunk(m.req, m)
        BY <2>2, <3>1, <3>6 DEF HttpControlMessage
      <4> QED BY <1>1, <3>2, <3>6, <4>1 DEF ResponseChunk, Streamed, Well
    <3> QED BY <2>2, <3>1, <3>4, <3>5, <3>6 DEF HttpControlMessage
  <2> QED BY <2>1, <2>2
<1>6. ASSUME NEW g \in Gen, Publish(g) \/ webSocketClose(g) PROVE Streamed'
  BY <1>2, <1>3, <1>6 DEF Publish, webSocketClose, disconnectTraffic, httpVars
<1>7. ASSUME NEW g \in Gen, Quiet(g) \/ ended(g) \/ ClientMessage(g) PROVE UNCHANGED <<visitor, maps>>
  BY <1>7 DEF Quiet, ended, ClientMessage, HttpClientMessage, httpVars
<1>8. UNCHANGED httpVars \/ UNCHANGED vars => UNCHANGED <<visitor, maps>>
  BY DEF httpVars, vars
<1>9. ASSUME NEW v \in Visitor, Serve(v) PROVE UNCHANGED <<visitor, maps>>
  BY <1>9, ServeKeeps
<1>10. (Claim \/ Elapse) /\ UNCHANGED <<httpVars, wsVars>> => UNCHANGED httpVars
  OBVIOUS
<1> QED BY <1>2, <1>4, <1>5, <1>6, <1>7, <1>8, <1>9, <1>10, Steps, RequestStreams

LEMMA FramesDownStep == Inv /\ [Next]_vars => FramesDown'
<1>1. Heeded' /\ Streamed' => FramesDown'
  BY DEF FramesDown, Heeded, Streamed, Well
<1> QED BY <1>1, HeedStep, StreamStep

-----------------------------------------------------------------------------
(* The reads that wait                                                      *)

LEMMA WaitsStep ==
  ASSUME Inv, [Next]_vars
  PROVE  \A v \in Visitor : visitor'[v].at = "waiting" =>
           visitor[v].at = "waiting" \/ (ctl = 0 /\ UNCHANGED <<conn, up>>)
<1>1. visitor \in [Visitor -> VisitorType] /\ \A v \in Visitor : \A at : [visitor[v] EXCEPT !.at = at].at = at
  BY DEF Inv, RequestsHeld, VisitorType
<1>2. CASE UNCHANGED visitor
  BY <1>2
<1>3. CASE DisconnectHttp
  <2> SUFFICES ASSUME NEW v \in Visitor, visitor'[v].at = "waiting" PROVE visitor[v].at = "waiting"
    OBVIOUS
  <2>1. ~(v \in pendingHttp /\ v \in streaming) /\ visitor[v] \in VisitorType
    BY <1>1 DEF Inv, RequestsHeld
  <2>2. CASE v \in pendingHttp
    <3>1. visitor'[v] = [visitor[v] EXCEPT !.at = "answered"]
      BY <1>3, <2>1, <2>2 DEF DisconnectHttp
    <3> QED BY <2>1, <3>1 DEF VisitorType
  <2>3. CASE v \in streaming
    <3>1. visitor'[v] = [visitor[v] EXCEPT !.at = "cut"]
      BY <1>3, <2>1, <2>3 DEF DisconnectHttp
    <3> QED BY <2>1, <3>1 DEF VisitorType
  <2>4. CASE v \notin pendingHttp \cup streaming
    BY <1>3, <2>4 DEF DisconnectHttp
  <2> QED BY <2>2, <2>3, <2>4
<1>4. CASE Wake
  BY <1>4 DEF Wake, WakeReads
<1>5. ASSUME NEW g \in Gen, ControlMessage(g), ~UNCHANGED visitor, NEW v \in Visitor, visitor'[v].at = "waiting"
      PROVE  visitor[v].at = "waiting"
  <2> DEFINE r == Head(toRelay[g]).req
  <2>1. \E at \in {"answered", "stream", "ended"} : To(r, at)
    BY <1>5 DEF ControlMessage, HttpControlMessage, ResponseStart, ResponseChunk, Ends, httpVars
  <2> HIDE DEF r
  <2> QED BY <1>1, <1>5, <2>1 DEF To
<1>6. ASSUME NEW v \in Visitor, RequestStep(v), NEW w \in Visitor, visitor'[w].at = "waiting"
      PROVE  visitor[w].at = "waiting" \/ (ctl = 0 /\ UNCHANGED <<conn, up>>)
  <2>1. CASE w # v
    <3>1. visitor'[w] = visitor[w]
      BY <1>1, <1>6, <2>1 DEF RequestStep, Arrive, Preamble, ReadLoss, Authorized, Metered, Captured, WaitEnds, Abort,
           PendingTimeout, IdleTimeout, To, Resume, Dispatch
    <3> QED BY <1>6, <3>1
  <2>2. CASE w = v
    <3>1. ASSUME NEW at \in {"loss", "answered", "meter", "sent", "capture", "cut"}, To(v, at) PROVE FALSE
      BY <1>1, <1>6, <2>2, <3>1 DEF To
    <3>2. ASSUME NEW g \in {0, ctl}, Resume(v, g) PROVE FALSE
      BY <1>1, <1>6, <2>2, <3>2 DEF Resume, Resumed, VisitorType
    <3>3. ASSUME Abort(v) PROVE FALSE
      <4> DEFINE at == CASE visitor[v].at = "waiting" -> "answered"
                         [] visitor[v].at = "stream" -> "ended" [] OTHER -> visitor[v].at
      <4>1. visitor' = [visitor EXCEPT ![v].gone = TRUE, ![v].at = at]
        BY <3>3 DEF Abort
      <4>2. at # "waiting"
        OBVIOUS
      <4> HIDE DEF at
      <4> QED BY <1>1, <1>6, <2>2, <4>1, <4>2 DEF VisitorType
    <3>4. ReadLoss(v)
      BY <1>6, <3>1, <3>2, <3>3 DEF RequestStep, Arrive, Preamble, Authorized, Metered, Captured, WaitEnds,
           PendingTimeout, IdleTimeout, Dispatch
    <3> QED BY <3>2, <3>4, RequestStepKeeps, <1>6 DEF ReadLoss, links
  <2> QED BY <2>1, <2>2
<1>7. ASSUME NEW g \in Gen, Publish(g) \/ webSocketClose(g) PROVE DisconnectHttp \/ UNCHANGED visitor
  BY <1>7 DEF Publish, webSocketClose, disconnectTraffic, httpVars
<1>8. \/ UNCHANGED visitor \/ Wake
      \/ \E v \in Visitor : RequestStep(v)
      \/ \E g \in Gen : Publish(g) \/ webSocketClose(g) \/ ControlMessage(g)
  BY Steps, ServeKeeps DEF Quiet, ended, ClientMessage, HttpClientMessage, httpVars, vars
<1> QED BY <1>2, <1>3, <1>4, <1>5, <1>6, <1>7, <1>8

LEMMA NoReadStep == Inv /\ [Next]_vars /\ LinksHeld' => NoReadLeftWaiting'
<1> SUFFICES ASSUME Inv, [Next]_vars, LinksHeld', NEW v \in Visitor, visitor'[v].at = "waiting", ctl' # 0
             PROVE  reg'.conn = ctl'
  BY DEF NoReadLeftWaiting
<1>1. CASE \E g \in Gen : Publish(g) /\ ctl' \in {0, g}
  BY <1>1 DEF Publish, PublishLink
<1>2. CASE ctl' = ctl
  <2>1. visitor[v].at = "waiting"
    BY <1>2, WaitsStep
  <2>2. reg.conn = ctl /\ LinksHeld /\ reg \in Registering /\ 0 \notin Gen
    BY <1>2, <2>1, RegisterTypes DEF Inv, NoReadLeftWaiting, LinksHeld, TypeOKLinks
  <2>3. ctl \in Gen /\ ctl \in up
    BY <1>2, <2>2, CtlServes
  <2>4. CASE Wake
    <3>1. visitor'[v] = Resumed(v, ctl)
      BY <2>1, <2>2, <2>4 DEF Wake, WakeReads
    <3>2. Resumed(v, ctl).at = "auth"
      BY <1>2 DEF Resumed, Inv, RequestsHeld, VisitorType
    <3> QED BY <3>1, <3>2
  <2>5. CASE Claim
    BY <1>2, <2>2, <2>3, <2>5 DEF Claim, Registering
  <2>6. \A g \in Gen : ~Publish(g)
    BY <2>2, <2>3 DEF Publish, PublishLink, Idle
  <2>7. Wake \/ Claim \/ UNCHANGED reg
    BY <2>6, Steps, RequestStepKeeps, ServeKeeps, BrowserStepKeeps, SocketStepKeeps
       DEF links, Elapse, Quiet, Accept, Drop, webSocketClose, CloseLink, ended, EndLink, ControlMessage, ClientMessage,
           Exhausted, RelayStep, vars
  <2> QED BY <1>2, <2>2, <2>4, <2>5, <2>7
<1> QED BY <1>1, <1>2, CtlChanges
-----------------------------------------------------------------------------
LEMMA InitInv == Init => Inv
<1> SUFFICES ASSUME Init PROVE Inv
  OBVIOUS
<1>1. LinksHeld
  BY RegisterTypes DEF Init, InitLinks, LinksHeld, TypeOKLinks, ConnStates, Idle
<1>2. RequestsHeld
  <2>1. visitor \in [Visitor -> VisitorType] /\ \A v \in Visitor : visitor[v].at = "new"
    <3>1. 0 \in 0..Gens
      BY GensAssumption
    <3>2. [at : {"new"}, read : BOOLEAN, gone : {FALSE}, ctl : {0}] \subseteq VisitorType
      BY <3>1 DEF VisitorType
    <3> QED BY <3>2 DEF Init, InitHttp
  <2> QED BY <2>1 DEF Init, InitHttp, RequestsHeld
<1>3. BrowsersHeld
  <2>1. 0 \in 0..Gens
    BY GensAssumption
  <2>2. [at |-> "new", ctl |-> 0, shut |-> FALSE] \in BrowserType
    BY <2>1 DEF BrowserType
  <2> QED BY <2>2 DEF Init, InitWs, BrowsersHeld, HeldWs
<1>4. LocalsHeld
  <2>1. [at |-> "none", dials |-> 0, chunks |-> 0] \in Local
    BY HttpRelayAssumption DEF Local
  <2> QED BY <2>1 DEF Init, InitHttp, LocalsHeld, Abortable
<1>5. SocketsHeld
  <2>1. [at |-> "none", opened |-> FALSE] \in LocalWs
    BY DEF LocalWs
  <2> QED BY <2>1 DEF Init, InitWs, SocketsHeld, Reachable
<1>6. FramesUp
  BY EmptySeq DEF Init, InitLinks, InitWs, FramesUp
<1>7. FramesDown
  <2>1. \A v \in Visitor : visitor[v].at = "new"
    BY DEF Init, InitHttp
  <2> QED BY <2>1, EmptySeq DEF Init, InitLinks, FramesDown
<1>8. NoReadLeftWaiting
  BY DEF Init, InitHttp, NoReadLeftWaiting
<1> QED BY <1>1, <1>2, <1>3, <1>4, <1>5, <1>6, <1>7, <1>8 DEF Inv

LEMMA InvStep == Inv /\ [Next]_vars => Inv'
BY LinksStep, RequestsStep, BrowsersStep, LocalsStep, SocketsStep, FramesUpStep, FramesDownStep, NoReadStep DEF Inv

LEMMA Invariant == Spec => []Inv
BY InitInv, InvStep, PTL DEF Spec

-----------------------------------------------------------------------------
(* What holds of every tunnel                                               *)

(* Every variable of the relay, its connections and their connectors keeps  *)
(* its type, whatever the number of connections and callers.                *)
THEOREM TypeCorrect == Spec => []TypeOK
<1>1. Inv => TypeOK
  <2>1. \A S : [S -> 0..1] \subseteq [S -> Nat]
    OBVIOUS
  <2> QED BY <2>1 DEF Inv, TypeOK, TypeOKHttp, TypeOKWs, LinksHeld, RequestsHeld, BrowsersHeld, HeldWs,
                      LocalsHeld, SocketsHeld, FramesUp, FramesDown, Up, Down
<1> QED BY <1>1, Invariant, PTL

(* At whichever await a connection is lost or replaced: nothing hangs on    *)
(* one that was closed or replaced, frames of a socket go to the connector  *)
(* of its registration only, and no read is left waiting behind a           *)
(* registration that is complete.                                           *)
THEOREM BoundToConnection == Spec => [](SentOnServing /\ BoundToRegistration /\ NoReadLeftWaiting)
<1>1. Inv => BoundToRegistration
  BY DEF Inv, FramesUp, FrameSafe, BoundToRegistration
<1>2. Inv => SentOnServing
  BY DEF Inv, RequestsHeld, BrowsersHeld, SentOnServing
<1> QED BY <1>1, <1>2, Invariant, PTL DEF Inv

(* Whatever waits has an entry that will answer it, and no entry outlives   *)
(* it, where connectors encode their chunks.                                *)
THEOREM NobodyForgotten == ASSUME ~Malformed PROVE Spec => []Held
<1>1. Inv => Held
  BY DEF Inv, RequestsHeld, BrowsersHeld, FramesDown, Held, HeldHttp
<1> QED BY <1>1, Invariant, PTL

(* The local server takes a request once at most, and what it works on or   *)
(* is asked to open can be reached by an abort or a close.                  *)
THEOREM ConnectorCorrect == Spec => [](TakenOnce /\ Abortable /\ Reachable)
<1>1. Inv => TakenOnce /\ Abortable /\ Reachable
  BY DEF Inv, LocalsHeld, SocketsHeld, TakenOnce
<1> QED BY <1>1, Invariant, PTL

-----------------------------------------------------------------------------
(* Relay implements Exchange, by this invariant: a step of the relay begins *)
(* one call, takes one, or ends some.                                       *)

OverWs == {"closed", "refused", "failed"}

LEMMA PhaseOfVisitor ==
  ASSUME NEW v \in Visitor
  PROVE  /\ PhaseOf(v) = "new" <=> visitor[v].at = "new"
         /\ PhaseOf(v) = "over" <=> visitor[v].at \in Over
         /\ PhaseOf(v) \in {"new", "open", "over"}
BY DEF PhaseOf, Over

LEMMA PhaseOfBrowser ==
  ASSUME NEW b \in Browser
  PROVE  /\ PhaseOf(b) = "new" <=> browser[b].at = "new"
         /\ PhaseOf(b) = "over" <=> browser[b].at \in OverWs
         /\ PhaseOf(b) \in {"new", "open", "over"}
BY RelayAssumption DEF PhaseOf, OverWs

(* A request begins when it arrives, and what is over stays so. *)
LEMMA RequestPhase ==
  ASSUME Inv, NEW v \in Visitor, RequestStep(v)
  PROVE  /\ \A w \in Visitor : w # v => visitor'[w] = visitor[w]
         /\ visitor[v].at \in Over => visitor'[v].at \in Over
         /\ visitor'[v].at # "new"
         /\ visitor[v].at = "new" => Arrive(v)
<1>1. visitor \in [Visitor -> VisitorType] /\ \A at : [visitor[v] EXCEPT !.at = at].at = at
      /\ pendingHttp = {w \in Visitor : visitor[w].at = "sent"}
      /\ (v \in streaming => visitor[v].at = "stream")
  BY DEF Inv, RequestsHeld, VisitorType
<1>2. \A w \in Visitor : w # v => visitor'[w] = visitor[w]
  BY <1>1 DEF RequestStep, Arrive, Preamble, ReadLoss, Authorized, Metered, Captured, WaitEnds, Abort,
       PendingTimeout, IdleTimeout, To, Resume, Dispatch
<1>3. visitor[v].at \notin Over
  BY <1>1 DEF RequestStep, Arrive, Preamble, ReadLoss, Authorized, Metered, Captured, WaitEnds, Abort,
       PendingTimeout, IdleTimeout, At, Over, Waits
<1>4. visitor[v].at = "new" => Arrive(v)
  BY <1>1 DEF RequestStep, Preamble, ReadLoss, Authorized, Metered, Captured, WaitEnds, Abort,
       PendingTimeout, IdleTimeout, At, Waits
<1>5. visitor'[v].at # "new"
  <2>1. ASSUME NEW at \in {"loss", "waiting", "answered", "meter", "sent", "capture", "cut"}, To(v, at)
        PROVE  visitor'[v].at # "new"
    BY <1>1, <2>1 DEF To
  <2>2. ASSUME NEW g \in {0, ctl}, Resume(v, g) PROVE visitor'[v].at # "new"
    BY <1>1, <2>2 DEF Resume, Resumed, VisitorType
  <2>3. CASE Abort(v)
    <3> DEFINE at == CASE visitor[v].at = "waiting" -> "answered"
                       [] visitor[v].at = "stream" -> "ended" [] OTHER -> visitor[v].at
    <3>1. visitor' = [visitor EXCEPT ![v].gone = TRUE, ![v].at = at] /\ visitor[v].at \in Waits
      BY <2>3 DEF Abort
    <3>2. at # "new"
      BY <3>1 DEF Waits
    <3> HIDE DEF at
    <3> QED BY <1>1, <3>1, <3>2 DEF VisitorType
  <2> QED BY <2>1, <2>2, <2>3 DEF RequestStep, Arrive, Preamble, ReadLoss, Authorized, Metered, Captured, WaitEnds,
       PendingTimeout, IdleTimeout, Dispatch
<1> QED BY <1>2, <1>3, <1>4, <1>5

(* No event of the connections or of the connector begins a request, nor    *)
(* brings one back.                                                         *)
LEMMA OtherPhases ==
  ASSUME Inv, [Next]_vars, \A v \in Visitor : ~(RequestStep(v) /\ UNCHANGED wsVars)
  PROVE  \A v \in Visitor : /\ visitor[v].at = "new" <=> visitor'[v].at = "new"
                            /\ visitor[v].at \in Over => visitor'[v].at \in Over
<1>1. /\ visitor \in [Visitor -> VisitorType]
      /\ \A v \in Visitor : \A at : [visitor[v] EXCEPT !.at = at].at = at
      /\ pendingHttp = {w \in Visitor : visitor[w].at = "sent"}
      /\ \A v \in streaming : v \in Visitor /\ visitor[v].at = "stream"
  BY DEF Inv, RequestsHeld, VisitorType
<1>2. CASE UNCHANGED visitor
  BY <1>2
<1>3. CASE DisconnectHttp
  <2> SUFFICES ASSUME NEW v \in Visitor
               PROVE  /\ visitor[v].at = "new" <=> visitor'[v].at = "new"
                      /\ visitor[v].at \in Over => visitor'[v].at \in Over
    OBVIOUS
  <2>1. CASE v \in pendingHttp
    <3>1. visitor'[v] = [visitor[v] EXCEPT !.at = "answered"] /\ visitor[v].at = "sent"
      BY <1>1, <1>3, <2>1 DEF DisconnectHttp
    <3> QED BY <1>1, <3>1 DEF Over
  <2>2. CASE v \in streaming
    <3>1. visitor'[v] = [visitor[v] EXCEPT !.at = "cut"] /\ visitor[v].at = "stream"
      BY <1>1, <1>3, <2>2 DEF DisconnectHttp
    <3> QED BY <1>1, <3>1 DEF Over
  <2>3. CASE v \notin pendingHttp \cup streaming
    BY <1>3, <2>3 DEF DisconnectHttp
  <2> QED BY <2>1, <2>2, <2>3
<1>4. CASE Wake
  <2>1. \A v \in Visitor : visitor'[v] # visitor[v] => visitor[v].at = "waiting" /\ visitor'[v] = Resumed(v, ctl)
    BY <1>4 DEF Wake, WakeReads
  <2>2. \A v \in Visitor : Resumed(v, ctl).at \in {"answered", "auth"}
    BY <1>1 DEF Resumed, VisitorType
  <2> QED BY <2>1, <2>2 DEF Over
<1>5. ASSUME NEW g \in Gen, ControlMessage(g), ~UNCHANGED visitor
      PROVE  \A v \in Visitor : /\ visitor[v].at = "new" <=> visitor'[v].at = "new"
                                /\ visitor[v].at \in Over => visitor'[v].at \in Over
  <2> DEFINE m == Head(toRelay[g])
             r == m.req
  <2>1. HttpControlMessage(g, m) /\ Heard(g, m)
    BY <1>5 DEF ControlMessage, HttpControlMessage, httpVars
  <2>2. r \in Visitor /\ visitor[r].at \in {"sent", "stream"}
    <3>1. r \in pendingHttp \cup streaming
      BY <2>1 DEF Heard
    <3>2. /\ pendingHttp \subseteq {v \in Visitor : visitor[v].at \in {"sent", "stream"}}
          /\ streaming \subseteq {v \in Visitor : visitor[v].at \in {"sent", "stream"}}
      BY DEF Inv, RequestsHeld
    <3> QED BY <3>1, <3>2
  <2>3. \E at \in {"answered", "stream", "ended"} : To(r, at)
    BY <1>5, <2>1 DEF HttpControlMessage, ResponseStart, ResponseChunk, Ends
  <2> HIDE DEF r, m
  <2> QED BY <1>1, <2>2, <2>3 DEF To, Over
<1>6. ASSUME NEW g \in Gen, Publish(g) \/ webSocketClose(g) PROVE DisconnectHttp \/ UNCHANGED visitor
  BY <1>6 DEF Publish, webSocketClose, disconnectTraffic, httpVars
<1>7. \/ UNCHANGED visitor \/ Wake
      \/ \E g \in Gen : Publish(g) \/ webSocketClose(g) \/ ControlMessage(g)
  BY Steps, ServeKeeps DEF Quiet, ended, ClientMessage, HttpClientMessage, httpVars, vars
<1> QED BY <1>2, <1>3, <1>4, <1>5, <1>6, <1>7

(* The same of the browser sockets. *)
LEMMA BrowserPhase ==
  ASSUME Inv, NEW b \in Browser, BrowserStep(b)
  PROVE  /\ \A c \in Browser : c # b => browser'[c] = browser[c]
         /\ browser[b].at \in OverWs => browser'[b].at \in OverWs
         /\ browser'[b].at # "new"
         /\ browser[b].at = "new" => Upgrade(b)
<1>1. browser \in [Browser -> BrowserType] /\ pendingUpgrades = {c \in Browser : browser[c].at = "upgrading"}
      /\ (frame[b] # "none" => browser[b].at \notin EarlyWs)
  BY DEF Inv, BrowsersHeld, HeldWs, FramesUp
<1>2. \A c \in Browser : c # b => browser'[c] = browser[c]
  BY <1>1 DEF BrowserStep, Upgrade, UpgradeAuthorized, UpgradeMetered, UpgradeTimeout, BrowserMessage,
       Charged, BrowserClose, BrowserTo, Shut
<1>3. \/ UNCHANGED browser /\ browser[b].at # "new"
      \/ Shut(b) /\ browser[b].at # "new"
      \/ browser[b].at \notin OverWs /\ \E at \in {"refused", "meter", "upgrading", "closed"} : BrowserTo(b, at)
      \/ browser' = [browser EXCEPT ![b] = Failed(b)]
      \/ Upgrade(b)
  BY <1>1 DEF BrowserStep, UpgradeAuthorized, UpgradeMetered, UpgradeTimeout, BrowserMessage,
       Charged, BrowserClose, EarlyWs, OverWs
<1>4. browser[b].at = "new" => Upgrade(b)
  BY <1>1 DEF BrowserStep, UpgradeAuthorized, UpgradeMetered, UpgradeTimeout, BrowserMessage,
       Charged, BrowserClose, EarlyWs
<1>5. CASE UNCHANGED browser /\ browser[b].at # "new"
  BY <1>2, <1>5
<1>6. CASE Shut(b) /\ browser[b].at # "new"
  BY <1>1, <1>2, <1>6 DEF Shut, BrowserType
<1>7. CASE browser[b].at \notin OverWs /\ \E at \in {"refused", "meter", "upgrading", "closed"} : BrowserTo(b, at)
  BY <1>1, <1>2, <1>4, <1>7 DEF BrowserTo, BrowserType
<1>8. CASE browser' = [browser EXCEPT ![b] = Failed(b)]
  BY <1>1, <1>2, <1>4, <1>8, FailedType DEF Inv, OverWs
<1>9. CASE Upgrade(b)
  BY <1>1, <1>2, <1>9 DEF Upgrade, BrowserType, OverWs
<1> QED BY <1>3, <1>5, <1>6, <1>7, <1>8, <1>9

LEMMA OtherPhasesWs ==
  ASSUME Inv, [Next]_vars, \A b \in Browser : ~(BrowserStep(b) /\ UNCHANGED httpVars)
  PROVE  \A b \in Browser : /\ browser[b].at = "new" <=> browser'[b].at = "new"
                            /\ browser[b].at \in OverWs => browser'[b].at \in OverWs
<1> DEFINE Kept(b) == /\ browser[b].at = "new" <=> browser'[b].at = "new"
                      /\ browser[b].at \in OverWs => browser'[b].at \in OverWs
<1>1. browser \in [Browser -> BrowserType] /\ pendingUpgrades = {c \in Browser : browser[c].at = "upgrading"}
  BY DEF Inv, BrowsersHeld, HeldWs
<1>2. CASE UNCHANGED browser
  BY <1>2
<1>3. CASE DisconnectWs
  <2> SUFFICES ASSUME NEW b \in Browser PROVE Kept(b)
    OBVIOUS
  <2>1. CASE browser[b].at = "upgrading"
    <3>1. browser'[b] = Failed(b)
      BY <1>1, <1>3, <2>1 DEF DisconnectWs
    <3> QED BY <2>1, <3>1, FailedType DEF OverWs, Inv
  <2>2. CASE browser[b].at = "open"
    <3>1. browser'[b] = [browser[b] EXCEPT !.shut = TRUE]
      BY <1>1, <1>3, <2>2 DEF DisconnectWs
    <3> QED BY <1>1, <2>2, <3>1 DEF BrowserType
  <2>3. CASE browser[b].at \notin {"upgrading", "open"}
    BY <1>1, <1>3, <2>3 DEF DisconnectWs
  <2> QED BY <2>1, <2>2, <2>3
<1>4. CASE Exhausted
  BY <1>1, <1>4 DEF Exhausted, BrowserType
<1>5. ASSUME NEW g \in Gen, ControlMessage(g), ~UNCHANGED browser PROVE \A b \in Browser : Kept(b)
  <2> DEFINE c == Head(toRelay[g]).id
  <2>1. \/ Shut(c)
        \/ c \in pendingUpgrades /\ (BrowserTo(c, "open") \/ browser' = [browser EXCEPT ![c] = Failed(c)])
    BY <1>5 DEF ControlMessage, WsControlMessage, WsReady, WsError, WsClose, wsVars, wsRelay
  <2> HIDE DEF c
  <2>2. CASE Shut(c)
    BY <1>1, <2>2 DEF Shut, BrowserType
  <2>3. CASE c \in pendingUpgrades /\ BrowserTo(c, "open")
    BY <1>1, <2>3 DEF BrowserTo, BrowserType, OverWs
  <2>4. CASE c \in pendingUpgrades /\ browser' = [browser EXCEPT ![c] = Failed(c)]
    BY <1>1, <2>4, FailedType DEF OverWs, Inv
  <2> QED BY <2>1, <2>2, <2>3, <2>4
<1>6. ASSUME NEW g \in Gen, Publish(g) \/ webSocketClose(g) PROVE DisconnectWs \/ UNCHANGED browser
  BY <1>6 DEF Publish, webSocketClose, disconnectTraffic, wsVars, wsRelay
<1>7. \/ UNCHANGED browser \/ Exhausted
      \/ \E g \in Gen : Publish(g) \/ webSocketClose(g) \/ ControlMessage(g)
  BY Steps, SocketStepKeeps DEF Wake, Quiet, ended, EndWs, ClientMessage, WsClientMessage, wsVars, wsRelay, vars
<1> HIDE DEF Kept
<1> SUFFICES \A b \in Browser : Kept(b)
  BY DEF Kept
<1> QED BY <1>2, <1>3, <1>4, <1>5, <1>6, <1>7 DEF Kept

(* How a step of the relay appears to the callers. *)
LEMMA MapsToFinish ==
  ASSUME UNCHANGED <<accepted, servedWs>>,
         \A c \in Visitor \cup Browser : PhaseOf(c)' = PhaseOf(c) \/ (PhaseOf(c) = "open" /\ PhaseOf(c)' = "over")
  PROVE  E!Next
<1> DEFINE C == {c \in Visitor \cup Browser : PhaseOf(c) # PhaseOf(c)'}
<1>1. \A c \in C : PhaseOf(c) = "open"
  OBVIOUS
<1>2. [c \in Visitor \cup Browser |-> PhaseOf(c)]'
      = [c \in Visitor \cup Browser |-> IF c \in C THEN "over" ELSE PhaseOf(c)]
  OBVIOUS
<1>3. [c \in Visitor \cup Browser |-> IF c \in Visitor THEN accepted[c] ELSE servedWs[c]]'
      = [c \in Visitor \cup Browser |-> IF c \in Visitor THEN accepted[c] ELSE servedWs[c]]
  OBVIOUS
<1>4. C \in SUBSET (Visitor \cup Browser)
  OBVIOUS
<1> HIDE DEF C
<1>5. E!Finish(C)
  BY <1>1, <1>2, <1>3, <1>4 DEF E!Finish
<1> QED BY <1>4, <1>5 DEF E!Next

LEMMA MapsToBegin ==
  ASSUME UNCHANGED <<accepted, servedWs>>, NEW c \in Visitor \cup Browser,
         PhaseOf(c) = "new", PhaseOf(c)' \in {"open", "over"},
         \A d \in Visitor \cup Browser : d # c => PhaseOf(d)' = PhaseOf(d)
  PROVE  E!Next
<1> DEFINE phase == [d \in Visitor \cup Browser |-> PhaseOf(d)]
<1>1. phase' = [phase EXCEPT ![c] = PhaseOf(c)'] /\ phase[c] = "new"
  OBVIOUS
<1>2. [d \in Visitor \cup Browser |-> IF d \in Visitor THEN accepted[d] ELSE servedWs[d]]'
      = [d \in Visitor \cup Browser |-> IF d \in Visitor THEN accepted[d] ELSE servedWs[d]]
  OBVIOUS
<1>3. E!Begin(c)
  BY <1>1, <1>2 DEF E!Begin
<1> QED BY <1>3 DEF E!Next

LEMMA MapsToTake ==
  ASSUME NEW c \in Visitor \cup Browser, PhaseOf(c) # "new",
         \A d \in Visitor \cup Browser : PhaseOf(d)' = PhaseOf(d),
         (IF c \in Visitor THEN accepted[c] ELSE servedWs[c]) = 0,
         (IF c \in Visitor THEN accepted'[c] ELSE servedWs'[c]) = 1,
         \A v \in Visitor : v # c => accepted'[v] = accepted[v],
         \A b \in Browser : b # c => servedWs'[b] = servedWs[b]
  PROVE  E!Next
<1> DEFINE taken == [d \in Visitor \cup Browser |-> IF d \in Visitor THEN accepted[d] ELSE servedWs[d]]
<1>1. taken' = [taken EXCEPT ![c] = 1] /\ taken[c] = 0
  OBVIOUS
<1>2. [d \in Visitor \cup Browser |-> PhaseOf(d)]' = [d \in Visitor \cup Browser |-> PhaseOf(d)]
  OBVIOUS
<1>3. [d \in Visitor \cup Browser |-> PhaseOf(d)][c] # "new"
  OBVIOUS
<1>4. E!Take(c)
  BY <1>1, <1>2, <1>3 DEF E!Take
<1> QED BY <1>4 DEF E!Next

(* A call that is new begins, and every other goes on, by a step that takes *)
(* none.                                                                    *)
LEMMA RequestMaps ==
  ASSUME Inv, NEW v \in Visitor, RequestStep(v), UNCHANGED wsVars
  PROVE  E!Next
<1>1. UNCHANGED <<accepted, servedWs>>
  BY RequestStepKeeps DEF connector, wsVars, wsConnector
<1>2. \A c \in Visitor \cup Browser : c # v => PhaseOf(c)' = PhaseOf(c)
  <2>1. \A w \in Visitor : w # v => visitor'[w] = visitor[w]
    BY RequestPhase
  <2>2. UNCHANGED browser
    BY DEF wsVars, wsRelay
  <2> QED BY <2>1, <2>2 DEF PhaseOf
<1>3. /\ PhaseOf(v) = "new" <=> visitor[v].at = "new"
      /\ PhaseOf(v) = "over" <=> visitor[v].at \in Over
      /\ PhaseOf(v) \in {"new", "open", "over"}
  BY PhaseOfVisitor
<1>4. /\ PhaseOf(v)' = "new" <=> visitor'[v].at = "new"
      /\ PhaseOf(v)' = "over" <=> visitor'[v].at \in Over
      /\ PhaseOf(v)' \in {"new", "open", "over"}
  BY DEF PhaseOf, Over
<1>5. PhaseOf(v)' # "new" /\ (PhaseOf(v) = "over" => PhaseOf(v)' = "over")
  BY <1>3, <1>4, RequestPhase
<1>6. CASE PhaseOf(v) = "new"
  <2>1. PhaseOf(v)' \in {"open", "over"}
    BY <1>4, <1>5
  <2> QED BY <1>1, <1>2, <1>6, <2>1, MapsToBegin
<1>7. CASE PhaseOf(v) # "new"
  <2>1. PhaseOf(v)' = PhaseOf(v) \/ (PhaseOf(v) = "open" /\ PhaseOf(v)' = "over")
    BY <1>3, <1>4, <1>5, <1>7
  <2> QED BY <1>1, <1>2, <2>1, MapsToFinish
<1> QED BY <1>6, <1>7

LEMMA BrowserMaps ==
  ASSUME Inv, NEW b \in Browser, BrowserStep(b), UNCHANGED httpVars
  PROVE  E!Next
<1>1. UNCHANGED <<accepted, servedWs>>
  BY BrowserStepKeeps DEF wsConnector, httpVars, connector
<1>2. \A c \in Visitor \cup Browser : c # b => PhaseOf(c)' = PhaseOf(c)
  <2>1. \A c \in Browser : c # b => browser'[c] = browser[c]
    BY BrowserPhase
  <2>2. UNCHANGED visitor
    BY DEF httpVars
  <2> QED BY <2>1, <2>2 DEF PhaseOf
<1>3. /\ PhaseOf(b) = "new" <=> browser[b].at = "new"
      /\ PhaseOf(b) = "over" <=> browser[b].at \in OverWs
      /\ PhaseOf(b) \in {"new", "open", "over"}
  BY PhaseOfBrowser
<1>4. /\ PhaseOf(b)' = "new" <=> browser'[b].at = "new"
      /\ PhaseOf(b)' = "over" <=> browser'[b].at \in OverWs
      /\ PhaseOf(b)' \in {"new", "open", "over"}
  BY RelayAssumption DEF PhaseOf, OverWs
<1>5. PhaseOf(b)' # "new" /\ (PhaseOf(b) = "over" => PhaseOf(b)' = "over")
  BY <1>3, <1>4, BrowserPhase
<1>6. CASE PhaseOf(b) = "new"
  <2>1. PhaseOf(b)' \in {"open", "over"}
    BY <1>4, <1>5
  <2> QED BY <1>1, <1>2, <1>6, <2>1, MapsToBegin
<1>7. CASE PhaseOf(b) # "new"
  <2>1. PhaseOf(b)' = PhaseOf(b) \/ (PhaseOf(b) = "open" /\ PhaseOf(b)' = "over")
    BY <1>3, <1>4, <1>5, <1>7
  <2> QED BY <1>1, <1>2, <2>1, MapsToFinish
<1> QED BY <1>6, <1>7

LEMMA OtherMaps ==
  ASSUME Inv, [Next]_vars, UNCHANGED <<accepted, servedWs>>,
         \A v \in Visitor : ~(RequestStep(v) /\ UNCHANGED wsVars),
         \A b \in Browser : ~(BrowserStep(b) /\ UNCHANGED httpVars)
  PROVE  E!Next
<1>1. ASSUME NEW v \in Visitor
      PROVE  PhaseOf(v)' = PhaseOf(v) \/ (PhaseOf(v) = "open" /\ PhaseOf(v)' = "over")
  <2>1. /\ PhaseOf(v) = "new" <=> visitor[v].at = "new"
        /\ PhaseOf(v) = "over" <=> visitor[v].at \in Over
        /\ PhaseOf(v) \in {"new", "open", "over"}
    BY PhaseOfVisitor
  <2>2. /\ PhaseOf(v)' = "new" <=> visitor'[v].at = "new"
        /\ PhaseOf(v)' = "over" <=> visitor'[v].at \in Over
        /\ PhaseOf(v)' \in {"new", "open", "over"}
    BY DEF PhaseOf, Over
  <2>3. /\ visitor[v].at = "new" <=> visitor'[v].at = "new"
        /\ visitor[v].at \in Over => visitor'[v].at \in Over
    BY OtherPhases
  <2> QED BY <2>1, <2>2, <2>3
<1>2. ASSUME NEW b \in Browser
      PROVE  PhaseOf(b)' = PhaseOf(b) \/ (PhaseOf(b) = "open" /\ PhaseOf(b)' = "over")
  <2>1. /\ PhaseOf(b) = "new" <=> browser[b].at = "new"
        /\ PhaseOf(b) = "over" <=> browser[b].at \in OverWs
        /\ PhaseOf(b) \in {"new", "open", "over"}
    BY PhaseOfBrowser
  <2>2. /\ PhaseOf(b)' = "new" <=> browser'[b].at = "new"
        /\ PhaseOf(b)' = "over" <=> browser'[b].at \in OverWs
        /\ PhaseOf(b)' \in {"new", "open", "over"}
    BY RelayAssumption DEF PhaseOf, OverWs
  <2>3. /\ browser[b].at = "new" <=> browser'[b].at = "new"
        /\ browser[b].at \in OverWs => browser'[b].at \in OverWs
    BY OtherPhasesWs
  <2> QED BY <2>1, <2>2, <2>3
<1> QED BY <1>1, <1>2, MapsToFinish

(* The local server takes what was sent on, and nothing twice. *)
LEMMA TakeMaps ==
  ASSUME Inv, NEW v \in Visitor, Take(v), UNCHANGED wsVars
  PROVE  E!Next
<1>1. local[v].at = "dialed" /\ accepted' = [accepted EXCEPT ![v] = @ + 1]
      /\ UNCHANGED <<visitor, browser, servedWs>>
  BY DEF Take, LocalStep, wsVars, wsRelay, wsConnector
<1>2. accepted \in [Visitor -> 0..1] /\ accepted[v] = 0 /\ visitor[v].at # "new"
  BY <1>1 DEF Inv, LocalsHeld, Early
<1>3. PhaseOf(v) # "new"
  BY <1>2, PhaseOfVisitor
<1>4. \A d \in Visitor \cup Browser : PhaseOf(d)' = PhaseOf(d)
  BY <1>1 DEF PhaseOf
<1>5. accepted'[v] = 1 /\ \A w \in Visitor : w # v => accepted'[w] = accepted[w]
  BY <1>1, <1>2
<1> QED BY <1>1, <1>2, <1>3, <1>4, <1>5, MapsToTake

LEMMA OpenMaps ==
  ASSUME Inv, NEW b \in Browser, LocalOpen(b), UNCHANGED httpVars
  PROVE  E!Next
<1>1. localWs[b].at \in {"dialing", "doomed"} /\ servedWs' = [servedWs EXCEPT ![b] = @ + 1]
      /\ UNCHANGED <<visitor, browser, accepted>>
  BY DEF LocalOpen, Served, ConnectorStep, httpVars, connector, wsRelay
<1>2. servedWs \in [Browser -> 0..1] /\ servedWs[b] = 0 /\ browser[b].at # "new" /\ b \notin Visitor
  BY <1>1, RelayAssumption DEF Inv, SocketsHeld, EarlyWs
<1>3. PhaseOf(b) # "new"
  BY <1>2, PhaseOfBrowser
<1>4. \A d \in Visitor \cup Browser : PhaseOf(d)' = PhaseOf(d)
  BY <1>1 DEF PhaseOf
<1>5. servedWs'[b] = 1 /\ \A c \in Browser : c # b => servedWs'[c] = servedWs[c]
  BY <1>1, <1>2
<1> QED BY <1>1, <1>2, <1>3, <1>4, <1>5, MapsToTake

LEMMA StepMaps == Inv /\ [Next]_vars => E!Next
<1> SUFFICES ASSUME Inv, [Next]_vars, ~E!Next PROVE FALSE
  OBVIOUS
<1>1. \A v \in Visitor : ~(RequestStep(v) /\ UNCHANGED wsVars)
  BY RequestMaps
<1>2. \A b \in Browser : ~(BrowserStep(b) /\ UNCHANGED httpVars)
  BY BrowserMaps
<1>3. UNCHANGED accepted
  <2>1. \A v \in Visitor : ~(Take(v) /\ UNCHANGED wsVars)
    BY TakeMaps
  <2>2. ASSUME NEW v \in Visitor, Serve(v), UNCHANGED wsVars PROVE UNCHANGED accepted
    BY <2>1, <2>2 DEF Serve, Refused, Resolved, Fail, Answer, Chunk, End, Break
  <2>3. UNCHANGED httpVars \/ UNCHANGED vars => UNCHANGED accepted
    BY DEF httpVars, connector, vars
  <2>4. ASSUME NEW g \in Gen, \/ Quiet(g) \/ Publish(g) \/ webSocketClose(g) \/ ended(g)
                              \/ ControlMessage(g) \/ ClientMessage(g)
        PROVE  UNCHANGED accepted
    BY <2>4 DEF Quiet, Publish, webSocketClose, ended, ControlMessage, ClientMessage, disconnectTraffic, DisconnectHttp,
       HttpControlMessage, HttpClientMessage, httpVars, connector
  <2>5. Wake \/ ((Claim \/ Elapse) /\ UNCHANGED <<httpVars, wsVars>>) => UNCHANGED accepted
    BY DEF Wake, WakeReads, httpVars, connector
  <2> QED BY <1>1, <2>2, <2>3, <2>4, <2>5, Steps
<1>4. UNCHANGED servedWs
  <2>1. \A b \in Browser : ~(LocalOpen(b) /\ UNCHANGED httpVars)
    BY OpenMaps
  <2>2. ASSUME NEW b \in Browser, SocketStep(b), UNCHANGED httpVars PROVE UNCHANGED servedWs
    BY <2>1, <2>2 DEF SocketStep, LocalError, LocalClose, DialTimeout
  <2>3. UNCHANGED wsVars \/ UNCHANGED vars \/ Exhausted => UNCHANGED servedWs
    BY DEF wsVars, wsConnector, vars, Exhausted, RelayStep
  <2>4. ASSUME NEW g \in Gen, \/ Quiet(g) \/ Publish(g) \/ webSocketClose(g) \/ ended(g)
                              \/ ControlMessage(g) \/ ClientMessage(g)
        PROVE  UNCHANGED servedWs
    BY <2>4 DEF Quiet, Publish, webSocketClose, ended, ControlMessage, ClientMessage, disconnectTraffic, DisconnectWs, EndWs,
       WsControlMessage, WsClientMessage, wsVars, wsConnector
  <2>5. Wake \/ ((Claim \/ Elapse) /\ UNCHANGED <<httpVars, wsVars>>) => UNCHANGED servedWs
    BY DEF Wake, wsVars, wsConnector
  <2> QED BY <1>2, <2>2, <2>3, <2>4, <2>5, Steps
<1> QED BY <1>1, <1>2, <1>3, <1>4, OtherMaps

LEMMA InitMaps == Init => E!Init
<1> SUFFICES ASSUME Init PROVE E!Init
  OBVIOUS
<1>1. \A v \in Visitor : visitor[v].at = "new" /\ accepted[v] = 0
  BY DEF Init, InitHttp
<1>2. \A b \in Browser : browser[b].at = "new" /\ servedWs[b] = 0
  BY DEF Init, InitWs
<1>3. \A c \in Visitor \cup Browser : PhaseOf(c) = "new"
  BY <1>1, <1>2, PhaseOfVisitor, PhaseOfBrowser
<1> QED BY <1>1, <1>2, <1>3 DEF E!Init

(* Whatever is lost, replaced or retried, a caller sees an exchange: its    *)
(* call is begun once, taken at most once, ends at most once, and does not  *)
(* come back.                                                               *)
THEOREM RelayImplementsExchange == Spec => Exchanged
<1>1. Inv /\ [Next]_vars => [E!Next]_E!vars
  BY StepMaps
<1> QED BY <1>1, InitMaps, Invariant, PTL DEF Spec, Exchanged, E!Spec
=============================================================================

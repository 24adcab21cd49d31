----------------------------- MODULE HttpRelay -----------------------------
(* Visitor requests through one tunnel: the relay object                   *)
(* (src/server-cf/src/tunnel-do.ts) and the connector                      *)
(* (src/client/tunnel-client.ts, src/client/transport.ts) with the local   *)
(* server it forwards to.                                                  *)
(*                                                                         *)
(* A request yields at the storage, at authorization, at the account and   *)
(* at the capture; the connection may be lost or replaced at each of them. *)
EXTENDS ControlConnections

CONSTANTS
  Visitor,     \* requests; each is made once
  MaxChunks,   \* bound on the chunks of one answer
  Capture,     \* INSPECT_REPLAY
  Malformed    \* whether a connector may send a chunk that is not base64

ASSUME HttpRelayAssumption ==
  MaxChunks \in Nat /\ Capture \in BOOLEAN /\ Malformed \in BOOLEAN

VARIABLES
  visitor,    \* each request: where it is, and the connection it was given
  pendingHttp,
  streaming,
  local,      \* each request at its connector
  activeRequests,
  accepted    \* history: how often the local server took each request

maps == <<pendingHttp, streaming>>
connector == <<local, activeRequests, accepted>>
httpVars == <<visitor, maps, connector>>

Waits == {"loss", "waiting", "auth", "meter", "capture", "sent", "stream"}
Over == {"answered", "ended", "cut"}
VisitorType == [at : {"new"} \cup Waits \cup Over, read : BOOLEAN, gone : BOOLEAN, ctl : 0..Gens]
Local == [at : {"none", "dialed", "refused", "taken", "answering", "broken", "over"},
          dials : 0..2, chunks : 0..MaxChunks]
Requests == {"request", "request-abort"}
Responses == {"response", "response-start", "response-chunk", "response-end"}
HttpUp == [type : Requests, req : Visitor]
HttpDown == [type : Responses, req : Visitor, fine : BOOLEAN]

--------------------------------------------------------------------------
InitHttp ==
  /\ visitor \in [Visitor -> [at : {"new"}, read : BOOLEAN, gone : {FALSE}, ctl : {0}]]
  /\ pendingHttp = {} /\ streaming = {}
  /\ local = [v \in Visitor |-> [at |-> "none", dials |-> 0, chunks |-> 0]]
  /\ activeRequests = {} /\ accepted = [v \in Visitor |-> 0]

To(v, at) == visitor' = [visitor EXCEPT ![v].at = at]

\* What follows readControl: 502 without a connection.
Resumed(v, g) == [visitor[v] EXCEPT !.at = IF g = 0 THEN "answered" ELSE "auth", !.ctl = g]
Resume(v, g) == visitor' = [visitor EXCEPT ![v] = Resumed(v, g)]

--------------------------------------------------------------------------
(* The request, up to its dispatch                                         *)

At(v, at) == /\ visitor[v].at = at
             /\ UNCHANGED <<links, toRelay, connector>>
Unsent == UNCHANGED <<maps, toClient>>

\* readControl: a read without a connection looks for a recent loss.
Arrive(v) ==
  /\ At(v, "new") /\ Unsent
  /\ IF ctl = 0 /\ visitor[v].read THEN To(v, "loss") ELSE Resume(v, ctl)

\* Mutant: the connection not looked up again after the storage read.
ReadLossOnce(v) ==
  /\ At(v, "loss") /\ Unsent
  /\ \/ recent /\ To(v, "waiting")
     \/ Resume(v, ctl)

\* readControl after the storage read: wait for a registration if the loss is
\* recent, unless it came during the read or READ_RECONNECT_CAP others wait.
ReadLoss(v) ==
  /\ At(v, "loss") /\ Unsent
  /\ \/ recent /\ ctl = 0 /\ ~ visitor[v].gone /\ To(v, "waiting")
     \/ recent /\ visitor[v].gone /\ Resume(v, 0)
     \/ Resume(v, ctl)

WaitEnds(v) == At(v, "waiting") /\ Unsent /\ Resume(v, ctl)

\* Authorization and the body were awaited; the request may be refused, and
\* goes to the account only on the connection it was authorized by.
Authorized(v) ==
  /\ At(v, "auth") /\ Unsent
  /\ \/ To(v, "answered")
     \/ ~ visitor[v].gone /\ ctl = visitor[v].ctl /\ To(v, "meter")

\* sendFrame of the request, with its entry and its timer.
Dispatch(v) ==
  /\ To(v, "sent")
  /\ pendingHttp' = pendingHttp \cup {v}
  /\ Forward(visitor[v].ctl, [type |-> "request", req |-> v])
  /\ UNCHANGED streaming

\* The account answered: refused, or charged; the request is dropped if its
\* connection was lost or replaced meanwhile.
Metered(v) ==
  /\ At(v, "meter")
  /\ \/ To(v, "answered") /\ Unsent
     \/ /\ ~ visitor[v].gone /\ ctl = visitor[v].ctl
        /\ IF Capture THEN To(v, "capture") /\ Unsent ELSE Dispatch(v)

Captured(v) ==
  /\ At(v, "capture")
  /\ IF ctl = visitor[v].ctl THEN Dispatch(v) ELSE To(v, "answered") /\ Unsent

\* The caller leaves: a waiting read is released, a stream is cancelled and its
\* connector told.
Abort(v) ==
  /\ visitor[v].at \in Waits
  /\ LET cancelled == visitor[v].at = "stream"
     IN  /\ cancelled \/ ~ visitor[v].gone
         /\ visitor' = [visitor EXCEPT ![v].gone = TRUE,
                          ![v].at = CASE @ = "waiting" -> "answered"
                                      [] @ = "stream" -> "ended" [] OTHER -> @]
         /\ streaming' = streaming \ {v}
         /\ Forward(IF cancelled THEN ctl ELSE 0, [type |-> "request-abort", req |-> v])
  /\ UNCHANGED <<links, pendingHttp, toRelay, connector>>

--------------------------------------------------------------------------
(* The timers                                                              *)

\* 30 s without an answer: 504; the connector is not told.
PendingTimeout(v) ==
  /\ v \in pendingHttp
  /\ pendingHttp' = pendingHttp \ {v} /\ streaming' = streaming \ {v}
  /\ To(v, "answered")
  /\ UNCHANGED <<links, toClient, toRelay, connector>>

\* armStreamIdle: 120 s without a chunk.
IdleTimeout(v) ==
  /\ v \in streaming
  /\ streaming' = streaming \ {v} /\ To(v, "cut")
  /\ Forward(ctl, [type |-> "request-abort", req |-> v])
  /\ UNCHANGED <<links, pendingHttp, toRelay, connector>>

--------------------------------------------------------------------------
(* Frames of the connector                                                 *)

\* Mutant: the answer begins, the stream is not registered.
StreamUnkept(v, m) ==
  /\ pendingHttp' = pendingHttp \ {v} /\ UNCHANGED streaming
  /\ To(v, IF m.fine THEN "stream" ELSE "answered")

\* response-start; `fine`: the answer has a body.
ResponseStart(v, m) ==
  /\ pendingHttp' = pendingHttp \ {v}
  /\ streaming' = IF m.fine THEN streaming \cup {v} ELSE streaming
  /\ To(v, IF m.fine THEN "stream" ELSE "answered")

\* response-chunk; `fine`: the chunk is base64.  One that is not clears the
\* timer and the entry and leaves the stream open.
ResponseChunk(v, m) ==
  /\ streaming' = IF m.fine THEN streaming ELSE streaming \ {v}
  /\ UNCHANGED <<visitor, pendingHttp>>

\* What a frame must find to be heard: the connection serving, and its request
\* where the frame expects it.
Heard(g, m) ==
  ctl = g /\ m.req \in IF m.type \in {"response", "response-start"} THEN pendingHttp ELSE streaming

Ends(v, at) ==
  pendingHttp' = pendingHttp \ {v} /\ streaming' = streaming \ {v} /\ To(v, at)

HttpControlMessage(g, m) ==
  /\ \/ ~ Heard(g, m) /\ UNCHANGED <<visitor, maps>>
     \/ Heard(g, m) /\ m.type = "response" /\ Ends(m.req, "answered")
     \/ Heard(g, m) /\ m.type = "response-start" /\ ResponseStart(m.req, m)
     \/ Heard(g, m) /\ m.type = "response-chunk" /\ ResponseChunk(m.req, m)
     \/ Heard(g, m) /\ m.type = "response-end" /\ Ends(m.req, "ended")
  /\ UNCHANGED connector

\* Mutant: streams that were cut keep their entry.
DisconnectPending ==
  /\ visitor' = [v \in Visitor |->
       CASE v \in pendingHttp -> [visitor[v] EXCEPT !.at = "answered"]
         [] v \in streaming -> [visitor[v] EXCEPT !.at = "cut"]
         [] OTHER -> visitor[v]]
  /\ pendingHttp' = {} /\ UNCHANGED <<streaming, connector>>

\* disconnectTraffic, of the requests.
DisconnectHttp ==
  /\ visitor' = [v \in Visitor |->
       CASE v \in pendingHttp -> [visitor[v] EXCEPT !.at = "answered"]
         [] v \in streaming -> [visitor[v] EXCEPT !.at = "cut"]
         [] OTHER -> visitor[v]]
  /\ pendingHttp' = {} /\ streaming' = {} /\ UNCHANGED connector

\* The register of connection g ended: the waiting reads go on.
WakeReads(g) ==
  /\ visitor' = [v \in Visitor |->
       IF visitor[v].at = "waiting" /\ ctl = g THEN Resumed(v, ctl) ELSE visitor[v]]
  /\ UNCHANGED <<maps, connector>>

--------------------------------------------------------------------------
(* The connector                                                           *)

LocalStep == UNCHANGED <<links, visitor, maps, toClient>>
LocalTo(v, at) == local' = [local EXCEPT ![v].at = at]

\* ws.send, where readyState is OPEN.
Send(v, type, fine) ==
  Reply(visitor[v].ctl, [type |-> type, req |-> v, fine |-> fine])
send502(v) == Send(v, "response", TRUE)

\* Mutant: the retried request is not remembered.
DialUnkept(v) == /\ local' = [local EXCEPT ![v].at = "dialed", ![v].dials = @ + 1]
                 /\ activeRequests' = IF local[v].dials = 0 THEN activeRequests \cup {v}
                                      ELSE activeRequests

\* The local request of a dial: dispatched and remembered for an abort.
Dial(v) == /\ local' = [local EXCEPT ![v].at = "dialed", ![v].dials = @ + 1]
           /\ activeRequests' = activeRequests \cup {v}

\* A frame of the relay, which may have closed the connection since: a request,
\* or an abort, which destroys the local request; one that was not answered yet
\* then says 502.
HttpClientMessage(g, m) ==
  LET v == m.req
      active == v \in activeRequests /\ visitor[v].ctl = g
  IN  /\ \/ m.type = "request" /\ Dial(v) /\ UNCHANGED toRelay
         \/ m.type = "request-abort" /\ ~ active /\ UNCHANGED <<toRelay, local, activeRequests>>
         \/ /\ m.type = "request-abort" /\ active
            /\ LocalTo(v, "over") /\ activeRequests' = activeRequests \ {v}
            /\ IF local[v].at \in {"dialed", "taken"} THEN send502(v) ELSE UNCHANGED toRelay
      /\ UNCHANGED <<visitor, maps, accepted>>

\* Mutant: the retry may be refused and retried in turn.
RefusedAgain(v) ==
  /\ local[v].at = "dialed"
  /\ activeRequests' = activeRequests \ {v}
  /\ LocalTo(v, "refused") /\ UNCHANGED toRelay
  /\ LocalStep /\ UNCHANGED accepted

\* ECONNREFUSED: the first time the loopback address is resolved again.
Refused(v) ==
  /\ local[v].at = "dialed"
  /\ activeRequests' = activeRequests \ {v}
  /\ IF local[v].dials = 1 THEN LocalTo(v, "refused") /\ UNCHANGED toRelay
     ELSE LocalTo(v, "over") /\ send502(v)
  /\ LocalStep /\ UNCHANGED accepted

\* The address changed: dialed again, once.  It did not: 502.
Resolved(v) ==
  /\ local[v].at = "refused"
  /\ \/ Dial(v) /\ UNCHANGED toRelay
     \/ LocalTo(v, "over") /\ send502(v) /\ UNCHANGED activeRequests
  /\ LocalStep /\ UNCHANGED accepted

\* The local server takes the request.
Take(v) ==
  /\ local[v].at = "dialed" /\ LocalTo(v, "taken")
  /\ accepted' = [accepted EXCEPT ![v] = @ + 1]
  /\ LocalStep /\ UNCHANGED <<toRelay, activeRequests>>

\* Mutant: any error is tried again.
FailRetried(v) ==
  /\ local[v].at = "taken" /\ local[v].dials = 1 /\ LocalTo(v, "refused")
  /\ activeRequests' = activeRequests \ {v} /\ UNCHANGED toRelay
  /\ LocalStep /\ UNCHANGED accepted

\* The local connection fails before an answer: 502, and no retry.
Fail(v) ==
  /\ local[v].at = "taken" /\ LocalTo(v, "over")
  /\ activeRequests' = activeRequests \ {v} /\ send502(v)
  /\ LocalStep /\ UNCHANGED accepted

Answer(v) ==
  /\ local[v].at = "taken" /\ LocalTo(v, "answering")
  /\ \E body \in BOOLEAN : Send(v, "response-start", body)
  /\ LocalStep /\ UNCHANGED <<activeRequests, accepted>>

Chunk(v) ==
  /\ local[v].at = "answering" /\ local[v].chunks < MaxChunks
  /\ local' = [local EXCEPT ![v].chunks = @ + 1]
  /\ \E fine \in {TRUE, ~ Malformed} : Send(v, "response-chunk", fine)
  /\ LocalStep /\ UNCHANGED <<activeRequests, accepted>>

End(v) ==
  /\ local[v].at = "answering" /\ LocalTo(v, "over")
  /\ activeRequests' = activeRequests \ {v} /\ Send(v, "response-end", TRUE)
  /\ LocalStep /\ UNCHANGED accepted

\* The local server dies inside an answer: nothing listens for it.
Break(v) ==
  /\ local[v].at = "answering" /\ LocalTo(v, "broken")
  /\ LocalStep /\ UNCHANGED <<toRelay, activeRequests, accepted>>

--------------------------------------------------------------------------
Preamble(v) == ReadLoss(v) \/ Authorized(v) \/ Metered(v) \/ Captured(v)
Serve(v) == \/ Refused(v) \/ Resolved(v) \/ Take(v) \/ Fail(v)
            \/ Answer(v) \/ Chunk(v) \/ End(v) \/ Break(v)

\* What a request does after it arrived, frames and connections apart.
HttpStep(v) ==
  \/ Preamble(v) \/ WaitEnds(v) \/ Abort(v)
  \/ PendingTimeout(v) \/ IdleTimeout(v) \/ Serve(v)

--------------------------------------------------------------------------
TypeOKHttp ==
  /\ visitor \in [Visitor -> VisitorType]
  /\ pendingHttp \subseteq Visitor /\ streaming \subseteq Visitor
  /\ local \in [Visitor -> Local] /\ activeRequests \subseteq Visitor
  /\ accepted \in [Visitor -> Nat]

(* Nobody is left hanging: a request that was sent has an entry whose      *)
(* timer will answer it, an open stream one whose timer will cut it, and   *)
(* no entry outlives its request.                                          *)
HeldHttp ==
  /\ pendingHttp = {v \in Visitor : visitor[v].at = "sent"}
  /\ streaming = {v \in Visitor : visitor[v].at = "stream"}

(* A read waits only while no registration is complete: the registration   *)
(* that ends the wait has still to wake it.                                *)
NoReadLeftWaiting ==
  (\E v \in Visitor : visitor[v].at = "waiting") /\ ctl # 0 => reg.conn = ctl

(* README: writes and requests already sent upstream are never retried.    *)
(* Through losses, replacements, refusals and retries the local server     *)
(* takes a request at most once.                                           *)
TakenOnce == \A v \in Visitor : accepted[v] <= 1

(* A stream that is cut or cancelled can be stopped where it comes from:   *)
(* what the local server is still working on can be found by an abort.     *)
Abortable ==
  \A v \in Visitor : local[v].at \in {"dialed", "taken", "answering"} => v \in activeRequests
==========================================================================

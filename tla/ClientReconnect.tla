-------------------------- MODULE ClientReconnect --------------------------
(***************************************************************************)
(* createTunnel(): the connection loop of the client library. One call     *)
(* holds at most one control socket at a time; every end of a socket, once *)
(* the tunnel has registered, schedules the next attempt with a delay that *)
(* doubles. What a socket carries (requests, WebSockets) is the subject of *)
(* the relay modules.                                                      *)
(***************************************************************************)
EXTENDS Naturals

CONSTANTS Sock,       \* control sockets; one that is gone is used again
          MaxDelay,   \* MAX_RECONNECT_DELAY, in units of the first delay
          NoSock      \* no socket

ASSUME ClientAssumption == NoSock \notin Sock /\ MaxDelay \in Nat \ {0}

VARIABLES at,             \* where each socket stands
          timeout,        \* sockets whose connection timeout is pending
          stable,         \* sockets whose stableTimer is pending
          keepalive,      \* sockets whose keepaliveInterval runs
          firstError,     \* the socket that holds onFirstError, or NoSock
          timers,         \* reconnect timers pending
          reconnectDelay,
          closed, everRegistered,
          promise,        \* of createTunnel
          handle          \* the socket the caller's handle closes, or NoSock

vars == <<at, timeout, stable, keepalive, firstError, timers, reconnectDelay,
          closed, everRegistered, promise, handle>>

(* "connecting": not yet open; "open": register sent; "refused": an error   *)
(* frame came; "closing": its handle asked to close it; "terminated": ended,*)
(* its own close event may still come; "gone": no event of it will come.    *)
Stages == {"gone", "connecting", "open", "refused", "registered", "closing", "terminated"}
Going  == {"connecting", "open", "refused", "registered", "closing"}
Live   == {s \in Sock : at[s] \in Going}

Init ==
  /\ at = [s \in Sock |-> "gone"]
  /\ timeout = {} /\ stable = {} /\ keepalive = {}
  /\ firstError = NoSock /\ handle = NoSock
  /\ timers = 0 /\ reconnectDelay = 1
  /\ closed = FALSE /\ everRegistered = FALSE
  /\ promise = "resolving"

\* Mutant: the delay grows without the cap.
DoubledUncapped(d) == 2 * d

Doubled(d) == IF 2 * d <= MaxDelay THEN 2 * d ELSE MaxDelay

(* connect(): a new socket with its timeout. A socket is a new object: any  *)
(* name stands for it that neither an event nor the handle still refers to. *)
Dial(s) ==
  /\ at[s] \in {"gone", "terminated"} /\ s # handle
  /\ at' = [at EXCEPT ![s] = "connecting"]
  /\ timeout' = timeout \cup {s}

(* scheduleReconnect(), of a tunnel that is not closed. *)
Schedule ==
  /\ timers' = timers + 1
  /\ reconnectDelay' = Doubled(reconnectDelay)

\* Mutant: every event that ends a socket schedules an attempt.
EndedTwice(s) ==
  /\ timeout' = timeout \ {s} /\ stable' = stable \ {s} /\ keepalive' = keepalive \ {s}
  /\ IF ~closed /\ everRegistered THEN Schedule ELSE UNCHANGED <<timers, reconnectDelay>>

\* Mutant: an attempt that did not register is not followed by another.
EndedUnregistered(s) ==
  /\ timeout' = timeout \ {s} /\ stable' = stable \ {s} /\ keepalive' = keepalive \ {s}
  /\ IF ~closed /\ at[s] = "registered" THEN Schedule ELSE UNCHANGED <<timers, reconnectDelay>>

\* Mutant: the keepalive of a socket outlives it.
EndedLeaks(s) ==
  IF at[s] \notin Going
  THEN UNCHANGED <<timeout, stable, keepalive, timers, reconnectDelay>>
  ELSE /\ timeout' = timeout \ {s} /\ stable' = stable \ {s} /\ UNCHANGED keepalive
       /\ IF ~closed /\ everRegistered THEN Schedule ELSE UNCHANGED <<timers, reconnectDelay>>

(* ended(): this attempt's end, once. It clears the timers of the socket    *)
(* and, if the tunnel ever registered, schedules the next attempt.          *)
Ended(s) ==
  IF at[s] \notin Going
  THEN UNCHANGED <<timeout, stable, keepalive, timers, reconnectDelay>>
  ELSE /\ timeout' = timeout \ {s}
       /\ stable' = stable \ {s}
       /\ keepalive' = keepalive \ {s}
       /\ IF ~closed /\ everRegistered THEN Schedule
          ELSE UNCHANGED <<timers, reconnectDelay>>

(* onFirstError(): only the first attempt has one, and it is called once. *)
FirstError(s) ==
  IF firstError = s
  THEN /\ firstError' = NoSock
       /\ promise' = IF promise = "pending" THEN "rejected" ELSE promise
  ELSE UNCHANGED <<firstError, promise>>

-----------------------------------------------------------------------------
(* resolveLocalHost() settled: the first connect(). *)
Start(s) ==
  /\ promise = "resolving"
  /\ Dial(s)
  /\ firstError' = s
  /\ promise' = "pending"
  /\ UNCHANGED <<stable, keepalive, timers, reconnectDelay, closed, everRegistered, handle>>

(* The first connect() throws, as it does for an address that is no URL. *)
StartThrows ==
  /\ promise = "resolving"
  /\ promise' = "rejected"
  /\ UNCHANGED <<at, timeout, stable, keepalive, firstError, timers, reconnectDelay,
                 closed, everRegistered, handle>>

(* ws 'open': the register message is sent. *)
Open(s) ==
  /\ at[s] = "connecting"
  /\ at' = [at EXCEPT ![s] = "open"]
  /\ UNCHANGED <<timeout, stable, keepalive, firstError, timers, reconnectDelay,
                 closed, everRegistered, promise, handle>>

(* An error message of the relay; a fatal one closes the tunnel for good. *)
ErrorMessage(s, fatal) ==
  /\ at[s] \in {"open", "refused", "registered"}
  /\ at' = [at EXCEPT ![s] = IF @ = "open" THEN "refused" ELSE @]
  /\ timeout' = timeout \ {s}
  /\ closed' = (closed \/ fatal)
  /\ FirstError(s)
  /\ UNCHANGED <<stable, keepalive, timers, reconnectDelay, everRegistered, handle>>

\* Mutant: a registration resets the backoff.
RegisteredResets(s) ==
  /\ at[s] = "open" /\ at' = [at EXCEPT ![s] = "registered"]
  /\ timeout' = timeout \ {s} /\ stable' = stable \cup {s} /\ keepalive' = keepalive \cup {s}
  /\ everRegistered' = TRUE /\ reconnectDelay' = 1
  /\ IF promise = "pending" THEN promise' = "resolved" /\ handle' = s
     ELSE UNCHANGED <<promise, handle>>
  /\ UNCHANGED <<firstError, timers, closed>>

(* The registered message: the first one resolves the promise with the      *)
(* handle; the handle closes the socket it was made for.                    *)
Registered(s) ==
  /\ at[s] = "open"
  /\ at' = [at EXCEPT ![s] = "registered"]
  /\ timeout' = timeout \ {s}
  /\ stable' = stable \cup {s}
  /\ keepalive' = keepalive \cup {s}
  /\ everRegistered' = TRUE
  /\ IF promise = "pending"
     THEN promise' = "resolved" /\ handle' = s
     ELSE UNCHANGED <<promise, handle>>
  /\ UNCHANGED <<firstError, timers, reconnectDelay, closed>>

(* The link held for 30 s: the backoff starts over. *)
StableTimer(s) ==
  /\ s \in stable
  /\ stable' = stable \ {s}
  /\ reconnectDelay' = 1
  /\ UNCHANGED <<at, timeout, keepalive, firstError, timers, closed, everRegistered,
                 promise, handle>>

(* The attempt took 10 s: it ends whether or not its socket says so. *)
Timeout(s) ==
  /\ s \in timeout
  /\ at' = [at EXCEPT ![s] = "terminated"]
  /\ FirstError(s)
  /\ Ended(s)
  /\ UNCHANGED <<closed, everRegistered, handle>>

(* ws 'error'; a 'close' usually follows it, and need not. *)
SocketError(s) ==
  /\ at[s] \in Going
  /\ at' = [at EXCEPT ![s] = "terminated"]
  /\ FirstError(s)
  /\ Ended(s)
  /\ UNCHANGED <<closed, everRegistered, handle>>

(* ws 'close', of a socket that is still going or of one already ended. *)
SocketClose(s) ==
  /\ at[s] # "gone"
  /\ at' = [at EXCEPT ![s] = "gone"]
  /\ Ended(s)
  /\ UNCHANGED <<firstError, closed, everRegistered, promise, handle>>

(* The reconnect timer: connect(), unless the tunnel was closed meanwhile. *)
Reconnect(s) ==
  /\ timers > 0 /\ ~closed
  /\ Dial(s)
  /\ timers' = timers - 1
  /\ UNCHANGED <<stable, keepalive, firstError, reconnectDelay, closed, everRegistered,
                 promise, handle>>

ReconnectThrows ==
  /\ timers > 0 /\ ~closed
  /\ reconnectDelay' = Doubled(reconnectDelay)
  /\ UNCHANGED <<at, timeout, stable, keepalive, firstError, timers, closed, everRegistered,
                 promise, handle>>

ReconnectClosed ==
  /\ timers > 0 /\ closed
  /\ timers' = timers - 1
  /\ UNCHANGED <<at, timeout, stable, keepalive, firstError, reconnectDelay, closed,
                 everRegistered, promise, handle>>

(* TunnelHandle.close(), which the caller may call at any time and again. *)
Close ==
  /\ handle # NoSock
  /\ closed' = TRUE
  /\ keepalive' = keepalive \ {handle}
  /\ stable' = stable \ {handle}
  /\ at' = [at EXCEPT ![handle] = IF @ \in Going THEN "closing" ELSE @]
  /\ UNCHANGED <<timeout, firstError, timers, reconnectDelay, everRegistered, promise, handle>>

-----------------------------------------------------------------------------
Event(s) ==
  \/ Start(s) \/ Open(s) \/ Registered(s) \/ StableTimer(s) \/ Timeout(s)
  \/ SocketError(s) \/ SocketClose(s) \/ Reconnect(s)
  \/ \E fatal \in BOOLEAN : ErrorMessage(s, fatal)

Next == StartThrows \/ ReconnectThrows \/ ReconnectClosed \/ Close \/ \E s \in Sock : Event(s)

Spec == Init /\ [][Next]_vars

-----------------------------------------------------------------------------
(* Every variable has its type. *)
TypeOK ==
  /\ at \in [Sock -> Stages]
  /\ timeout \subseteq Sock /\ stable \subseteq Sock /\ keepalive \subseteq Sock
  /\ firstError \in Sock \cup {NoSock} /\ handle \in Sock \cup {NoSock}
  /\ timers \in Nat /\ reconnectDelay \in 1..MaxDelay
  /\ closed \in BOOLEAN /\ everRegistered \in BOOLEAN
  /\ promise \in {"resolving", "pending", "resolved", "rejected"}

(* However a socket ends - by its error, its timeout, its close, or by      *)
(* several of them - there is one connection loop: never two sockets going, *)
(* nor a socket and a timer that will open another, nor two timers. Two     *)
(* loops would take the registration from each other for ever.              *)
OneLoop ==
  /\ timers <= 1
  /\ timers = 1 => Live = {}
  /\ \A s, t \in Live : s = t

(* A tunnel that registered once is never left without a socket or a timer, *)
(* unless it was closed: the client does not give up and does not exit.     *)
NeverGivesUp == everRegistered /\ ~closed => timers = 1 \/ Live # {}

(* Timers belong to the socket that is going: every attempt that waits for  *)
(* the relay has its timeout and no other socket has; exactly the link that *)
(* is registered is kept alive, no interval pings a socket that ended; and  *)
(* no stable timer of a dead link resets the backoff.                       *)
TimersOwned ==
  /\ timeout = {s \in Sock : at[s] \in {"connecting", "open"}}
  /\ keepalive = {s \in Sock : at[s] = "registered"}
  /\ stable \subseteq keepalive

(* The backoff starts over only while a registered link is up: a relay that *)
(* accepts a registration and drops it is met with growing delays.          *)
BackoffEarned ==
  [][reconnectDelay' < reconnectDelay =>
       \E s \in stable \ stable' : at[s] = "registered" /\ at'[s] = "registered"]_vars

(* After the caller closed its handle no connection of the tunnel serves    *)
(* and none will: all that is left is to finish closing.                    *)
TornDown ==
  [][Close => \A s \in Live' : at'[s] = "closing"]_vars
=============================================================================

----------------------- MODULE ClientReconnectProofs -----------------------
(* The theorems of ClientReconnect, for every set of sockets and every cap  *)
(* of the backoff.                                                          *)
EXTENDS ClientReconnect, TLAPS

(* Before the first attempt there is nothing that could make a second one. *)
Unstarted == promise = "resolving" => Live = {} /\ timers = 0 /\ ~everRegistered

(* The socket of the caller's handle has registered, and its name is not    *)
(* taken for a new socket.                                                  *)
HandleHeld == handle # NoSock => at[handle] \notin {"connecting", "open", "refused"}

(* The inductive invariant. *)
Inv == TypeOK /\ OneLoop /\ NeverGivesUp /\ TimersOwned /\ Unstarted /\ HandleHeld

LEMMA FirstDelay == 1 \in 1..MaxDelay
BY ClientAssumption

(* The delay stays between the first one and the cap, and never shrinks.    *)
LEMMA DoubledGrows ==
  ASSUME NEW d \in 1..MaxDelay
  PROVE  Doubled(d) \in 1..MaxDelay /\ Doubled(d) >= d
BY ClientAssumption DEF Doubled

(* A dial happens where no socket is going and leaves one, with its timeout.*)
LEMMA DialOpens ==
  ASSUME Inv, NEW s \in Sock, Dial(s), Live = {},
         timers' \in Nat, timers' = 0,
         UNCHANGED <<stable, keepalive, closed, handle, reconnectDelay>>,
         firstError' \in Sock \cup {NoSock}, everRegistered' = everRegistered,
         promise' \in {"pending", "resolved", "rejected"}
  PROVE  Inv'
<1>1. Live' = {s}
  BY DEF Inv, TypeOK, Dial, Live, Going, Stages
<1>2. TypeOK'
  BY DEF Inv, TypeOK, Dial, Stages
<1>3. OneLoop' /\ NeverGivesUp' /\ Unstarted'
  BY <1>1 DEF OneLoop, NeverGivesUp, Unstarted
<1>4. TimersOwned' /\ HandleHeld'
  BY DEF Inv, TypeOK, TimersOwned, HandleHeld, Dial, Stages
<1> QED BY <1>2, <1>3, <1>4 DEF Inv

(* The end of a socket, from whatever event it is heard: its timers go, and *)
(* the next attempt is scheduled, once.                                     *)
LEMMA EndedOnce ==
  ASSUME Inv, NEW s \in Sock, Ended(s), NEW x \in {"gone", "terminated"},
         at[s] # "gone", at' = [at EXCEPT ![s] = x],
         UNCHANGED <<closed, everRegistered, handle>>,
         firstError' \in Sock \cup {NoSock},
         promise' \in {"resolving", "pending", "resolved", "rejected"},
         promise' = "resolving" => promise = "resolving"
  PROVE  Inv'
<1>1. Live' = Live \ {s}
  BY DEF Inv, TypeOK, Live, Going, Stages
<1>2. CASE at[s] \notin Going
  <2>1. UNCHANGED <<timeout, stable, keepalive, timers, reconnectDelay>>
    BY <1>2 DEF Ended
  <2>2. Live' = Live
    BY <1>1, <1>2 DEF Live
  <2>3. TypeOK'
    BY <2>1 DEF Inv, TypeOK, Stages
  <2>4. OneLoop' /\ NeverGivesUp' /\ Unstarted'
    BY <2>1, <2>2 DEF Inv, OneLoop, NeverGivesUp, Unstarted
  <2>5. TimersOwned' /\ HandleHeld'
    BY <1>2, <2>1 DEF Inv, TypeOK, TimersOwned, HandleHeld, Going
  <2> QED BY <2>3, <2>4, <2>5 DEF Inv
<1>3. CASE at[s] \in Going
  <2>1. /\ timeout' = timeout \ {s} /\ stable' = stable \ {s} /\ keepalive' = keepalive \ {s}
        /\ IF ~closed /\ everRegistered THEN Schedule ELSE UNCHANGED <<timers, reconnectDelay>>
    BY <1>3 DEF Ended
  <2>2. Live = {s} /\ timers = 0
    BY <1>3 DEF Inv, TypeOK, OneLoop, Live
  <2>3. Live' = {}
    BY <1>1, <2>2
  <2>4. timers' \in {0, 1} /\ (~closed /\ everRegistered => timers' = 1)
    BY <2>1, <2>2 DEF Schedule
  <2>5. reconnectDelay' \in 1..MaxDelay
    BY <2>1, DoubledGrows DEF Schedule, Inv, TypeOK
  <2>6. TypeOK'
    BY <2>1, <2>4, <2>5 DEF Inv, TypeOK, Stages
  <2>7. OneLoop' /\ NeverGivesUp'
    BY <2>3, <2>4 DEF OneLoop, NeverGivesUp
  <2>8. Unstarted'
    BY <2>2 DEF Inv, Unstarted
  <2>9. TimersOwned' /\ HandleHeld'
    BY <1>3, <2>1 DEF Inv, TypeOK, TimersOwned, HandleHeld, Going
  <2> QED BY <2>6, <2>7, <2>8, <2>9 DEF Inv
<1> QED BY <1>2, <1>3

LEMMA InitInv == Init => Inv
<1> SUFFICES ASSUME Init PROVE Inv
  OBVIOUS
<1>1. Live = {}
  BY DEF Init, Live, Going
<1>2. TypeOK
  BY FirstDelay DEF Init, TypeOK, Stages
<1>3. TimersOwned
  BY DEF Init, TimersOwned
<1> QED BY <1>1, <1>2, <1>3 DEF Init, Inv, OneLoop, NeverGivesUp, Unstarted, HandleHeld

(* What the events of a socket that leave it going preserve. *)
LEMMA StaysGoing ==
  ASSUME Inv, NEW s \in Sock, NEW x \in Going, at[s] \in Going,
         at' = [at EXCEPT ![s] = x], timers' = timers, everRegistered' = (everRegistered \/ x = "registered"),
         closed => closed', closed' \in BOOLEAN,
         promise' = "resolving" => promise = "resolving"
  PROVE  Live' = Live /\ OneLoop' /\ NeverGivesUp' /\ Unstarted'
<1>1. Live' = Live
  BY DEF Inv, TypeOK, Live, Going
<1>2. s \in Live
  BY DEF Live
<1> QED BY <1>1, <1>2 DEF Inv, OneLoop, NeverGivesUp, Unstarted

LEMMA EventInv ==
  ASSUME Inv, NEW s \in Sock, Event(s)
  PROVE  Inv'
<1>1. CASE Start(s)
  <2>1. Live = {} /\ timers = 0
    BY <1>1 DEF Start, Inv, Unstarted
  <2> QED BY <1>1, <2>1, DialOpens DEF Start, Inv, TypeOK
<1>2. CASE Open(s)
  <2>1. OneLoop' /\ NeverGivesUp' /\ Unstarted'
    BY <1>2, StaysGoing DEF Open, Going, Inv, TypeOK
  <2>2. TypeOK'
    BY <1>2 DEF Open, Inv, TypeOK, Stages
  <2>3. TimersOwned' /\ HandleHeld'
    BY <1>2 DEF Open, Inv, TypeOK, TimersOwned, HandleHeld
  <2> QED BY <2>1, <2>2, <2>3 DEF Inv
<1>3. CASE Registered(s)
  <2>1. OneLoop' /\ NeverGivesUp' /\ Unstarted'
    BY <1>3, StaysGoing DEF Registered, Going, Inv, TypeOK
  <2>2. TypeOK'
    BY <1>3 DEF Registered, Inv, TypeOK, Stages
  <2>3. TimersOwned'
    BY <1>3 DEF Registered, Inv, TypeOK, TimersOwned
  <2>4. HandleHeld'
    BY <1>3 DEF Registered, Inv, TypeOK, HandleHeld
  <2> QED BY <2>1, <2>2, <2>3, <2>4 DEF Inv
<1>4. CASE StableTimer(s)
  <2>1. TypeOK' /\ TimersOwned' /\ HandleHeld'
    BY <1>4, FirstDelay DEF StableTimer, Inv, TypeOK, TimersOwned, HandleHeld
  <2>2. Live' = Live
    BY <1>4 DEF StableTimer, Live
  <2> QED BY <1>4, <2>1, <2>2 DEF StableTimer, Inv, OneLoop, NeverGivesUp, Unstarted
<1>5. CASE Timeout(s)
  <2>1. at[s] # "gone"
    BY <1>5 DEF Timeout, Inv, TimersOwned
  <2>2. /\ firstError' \in Sock \cup {NoSock}
        /\ promise' \in {"resolving", "pending", "resolved", "rejected"}
        /\ promise' = "resolving" => promise = "resolving"
    BY <1>5 DEF Timeout, FirstError, Inv, TypeOK
  <2> QED BY <1>5, <2>1, <2>2, EndedOnce DEF Timeout
<1>6. CASE SocketError(s)
  <2>1. at[s] # "gone"
    BY <1>6 DEF SocketError, Going
  <2>2. /\ firstError' \in Sock \cup {NoSock}
        /\ promise' \in {"resolving", "pending", "resolved", "rejected"}
        /\ promise' = "resolving" => promise = "resolving"
    BY <1>6 DEF SocketError, FirstError, Inv, TypeOK
  <2> QED BY <1>6, <2>1, <2>2, EndedOnce DEF SocketError
<1>7. CASE SocketClose(s)
  BY <1>7, EndedOnce DEF SocketClose, Inv, TypeOK
<1>8. CASE Reconnect(s)
  <2>1. timers = 1 /\ Live = {} /\ promise # "resolving"
    BY <1>8 DEF Reconnect, Inv, TypeOK, OneLoop, Unstarted
  <2> QED BY <1>8, <2>1, DialOpens DEF Reconnect, Inv, TypeOK
<1>9. ASSUME NEW fatal \in BOOLEAN, ErrorMessage(s, fatal)
      PROVE  Inv'
  <2>1. /\ firstError' \in Sock \cup {NoSock}
        /\ promise' \in {"resolving", "pending", "resolved", "rejected"}
        /\ promise' = "resolving" => promise = "resolving"
    BY <1>9 DEF ErrorMessage, FirstError, Inv, TypeOK
  <2>2. Live' = Live
    BY <1>9 DEF ErrorMessage, Inv, TypeOK, Live, Going
  <2>3. TypeOK'
    BY <1>9, <2>1 DEF ErrorMessage, Inv, TypeOK, Stages
  <2>4. TimersOwned' /\ HandleHeld'
    BY <1>9 DEF ErrorMessage, Inv, TypeOK, TimersOwned, HandleHeld
  <2> QED BY <1>9, <2>1, <2>2, <2>3, <2>4
          DEF ErrorMessage, Inv, OneLoop, NeverGivesUp, Unstarted
<1> QED BY <1>1, <1>2, <1>3, <1>4, <1>5, <1>6, <1>7, <1>8, <1>9 DEF Event

LEMMA StepInv == Inv /\ [Next]_vars => Inv'
<1> SUFFICES ASSUME Inv, [Next]_vars PROVE Inv'
  OBVIOUS
<1>1. CASE StartThrows
  <2>1. Live' = Live
    BY <1>1 DEF StartThrows, Live
  <2> QED BY <1>1, <2>1 DEF StartThrows, Inv, TypeOK, OneLoop, NeverGivesUp, TimersOwned,
                            Unstarted, HandleHeld
<1>2. CASE ReconnectThrows
  <2>1. Live' = Live
    BY <1>2 DEF ReconnectThrows, Live
  <2>2. reconnectDelay' \in 1..MaxDelay
    BY <1>2, DoubledGrows DEF ReconnectThrows, Inv, TypeOK
  <2> QED BY <1>2, <2>1, <2>2 DEF ReconnectThrows, Inv, TypeOK, OneLoop, NeverGivesUp,
                                  TimersOwned, Unstarted, HandleHeld
<1>3. CASE ReconnectClosed
  <2>1. Live' = Live
    BY <1>3 DEF ReconnectClosed, Live
  <2>2. timers' = 0
    BY <1>3 DEF ReconnectClosed, Inv, TypeOK, OneLoop
  <2> QED BY <1>3, <2>1, <2>2 DEF ReconnectClosed, Inv, TypeOK, OneLoop, NeverGivesUp,
                                  TimersOwned, Unstarted, HandleHeld
<1>4. CASE Close
  <2>1. handle \in Sock
    BY <1>4 DEF Close, Inv, TypeOK
  <2>2. Live' = Live
    BY <1>4, <2>1 DEF Close, Inv, TypeOK, Live, Going
  <2>3. TypeOK'
    BY <1>4, <2>1 DEF Close, Inv, TypeOK, Stages, Going
  <2>4. TimersOwned' /\ HandleHeld'
    BY <1>4, <2>1 DEF Close, Inv, TypeOK, TimersOwned, HandleHeld, Going, Stages
  <2> QED BY <1>4, <2>2, <2>3, <2>4 DEF Close, Inv, OneLoop, NeverGivesUp, Unstarted
<1>5. ASSUME NEW s \in Sock, Event(s) PROVE Inv'
  BY <1>5, EventInv
<1>6. CASE UNCHANGED vars
  <2>1. Live' = Live
    BY <1>6 DEF vars, Live
  <2> QED BY <1>6, <2>1 DEF vars, Inv, TypeOK, OneLoop, NeverGivesUp, TimersOwned,
                            Unstarted, HandleHeld
<1> QED BY <1>1, <1>2, <1>3, <1>4, <1>5, <1>6 DEF Next

(* Only the stable timer of a registered link makes the delay shorter.      *)
LEMMA ShorterByStable ==
  ASSUME Inv, [Next]_vars, reconnectDelay' < reconnectDelay
  PROVE  \E s \in stable \ stable' : at[s] = "registered" /\ at'[s] = "registered"
<1>1. reconnectDelay \in 1..MaxDelay
  BY DEF Inv, TypeOK
<1>2. Doubled(reconnectDelay) \in Nat /\ Doubled(reconnectDelay) >= reconnectDelay
  BY <1>1, DoubledGrows
<1>3. ~Schedule /\ ~(reconnectDelay' = reconnectDelay)
  BY <1>1, <1>2 DEF Schedule
<1>4. \A s \in Sock : ~Ended(s)
  BY <1>3 DEF Ended
<1>5. PICK s \in Sock : StableTimer(s)
  BY <1>1, <1>2, <1>3, <1>4 DEF Next, Event, vars, Start, StartThrows, Open, ErrorMessage,
     Registered, Timeout, SocketError, SocketClose, Reconnect, ReconnectThrows,
     ReconnectClosed, Close
<1> QED BY <1>5 DEF StableTimer, Inv, TypeOK, TimersOwned

(* The connection loop is one and is never given up, and its timers belong  *)
(* to the socket that is going, whatever order the errors, closes and       *)
(* timeouts of its sockets come in.                                         *)
THEOREM OneLoopForever == Spec => [](TypeOK /\ OneLoop /\ NeverGivesUp /\ TimersOwned)
<1>1. Inv => TypeOK /\ OneLoop /\ NeverGivesUp /\ TimersOwned
  BY DEF Inv
<1> QED BY <1>1, InitInv, StepInv, PTL DEF Spec

(* The delay before the next attempt shrinks only when a registered link    *)
(* has proven stable.                                                       *)
THEOREM BackoffIsEarned == Spec => BackoffEarned
<1>1. Inv /\ [Next]_vars =>
        [reconnectDelay' < reconnectDelay =>
           \E s \in stable \ stable' : at[s] = "registered" /\ at'[s] = "registered"]_vars
  BY ShorterByStable
<1> QED BY <1>1, InitInv, StepInv, PTL DEF Spec, BackoffEarned
=============================================================================

-------------------------- MODULE ReservationProofs --------------------------
(* The theorems of Reservation, for every set of accounts, devices,          *)
(* connections and revocations, and whatever calls may be given up.          *)
EXTENDS Reservation, TLAPS

Registering == queue # << >> /\ task.kind = "register"

(* Every task is of a connection that was accepted, and a settlement of one *)
(* that is lost.                                                            *)
Queued == \A i \in DOMAIN queue :
            /\ conn[queue[i].sock].state # "none"
            /\ queue[i].kind = "settle" => queue[i].sock \notin up

(* The locals of a register are those of the task at the head.              *)
AtRest == ~ Registering => reg.at = "start"

OneRegistered == \A s, o \in Sock : Registered(s) /\ Registered(o) => s = o

Deciding == reg.at \in {"fence", "authorize", "granted"}

(* Nobody registers while a register decides: the connections it found are  *)
(* all there are, and once it published none is left but its own.           *)
OthersKnown == /\ Deciding => Others \subseteq reg.others
               /\ reg.at = "published" => Others = {}

(* The connection that serves is the owner's, or about to write its claim.  *)
Owned ==
  \A s \in ctl : \/ record # NoRecord /\ record.owner = SlugOf(s)
                 \/ reg.at = "published" /\ s = me

ClockBehind == /\ record # NoRecord => record.seen <= now
               /\ \A s \in Sock : conn[s].lost <= now

(* The register at the head may take over from o.                           *)
Passed(o) == \/ SlugOf(o) # SlugOf(me)
             \/ conn[o].device \in Legacy \/ conn[me].device \in Legacy
             \/ conn[o].device <= conn[me].device
             \/ conn[o].device \in lapsed

FenceKept == /\ Device \ tokens \subseteq lapsed
             /\ reg.at \in {"authorize", "granted"} => \A o \in reg.others : Passed(o)

(* A revocation that has given the slot up clears the record, whatever it   *)
(* is by then, and every connection with it.                                *)
Clearing == \E r \in Rev : rev[r].at = "released"
Counts(a) == a \in slot \cup misfreed \/ Clearing

Counted ==
  /\ record # NoRecord => Counts(record.owner)
  /\ reg.at \in {"granted", "published"} /\ me \in up => Counts(SlugOf(me))

(* Slots are given up for the account that was found in the record, and by  *)
(* a register not for its own.                                              *)
Named == /\ \A r \in Rev : rev[r].at = "calling" => rev[r].owner \in Slug
         /\ reg.at = "release" => /\ reg.prior # NoRecord /\ reg.prior.owner # SlugOf(me)
                                  /\ record = NoRecord \/ record.owner = SlugOf(me)

(* The inductive invariant. *)
Inv == /\ TypeOK /\ Queued /\ AtRest /\ OneRegistered /\ OthersKnown
       /\ Owned /\ ClockBehind /\ FenceKept /\ Counted /\ Named

--------------------------------------------------------------------------
(* The queue of accountChain                                               *)

\* The head of the queue is a task, of a connection.
LEMMA HeadTyped ==
  ASSUME TypeOK, queue # << >>
  PROVE  task \in Task /\ me \in Sock /\ task = queue[1] /\ 1 \in DOMAIN queue
<1>1. queue \in Seq(Task) /\ 1 \in DOMAIN queue /\ Head(queue) = queue[1]
  BY DEF TypeOK
<1>2. task \in Task
  BY <1>1 DEF task
<1> QED BY <1>1, <1>2 DEF task, me, Task

LEMMA TaskTyped == ASSUME TypeOK, NEW i \in DOMAIN queue PROVE queue[i] \in Task
BY DEF TypeOK

\* A task queued behind others leaves the head as it is.
LEMMA Enqueued ==
  ASSUME TypeOK, NEW x \in Task, queue' = Append(queue, x)
  PROVE  /\ queue' \in Seq(Task) /\ queue' # << >>
         /\ \A i \in DOMAIN queue' : (i \in DOMAIN queue /\ queue'[i] = queue[i]) \/ queue'[i] = x
         /\ queue # << >> => task' = task /\ me' = me
         /\ queue = << >> => task' = x /\ me' = x.sock
BY DEF TypeOK, task, me

\* The tasks left when the head is done were queued before.
LEMMA Dequeued ==
  ASSUME TypeOK, queue # << >>, queue' = Tail(queue)
  PROVE  /\ queue' \in Seq(Task)
         /\ \A i \in DOMAIN queue' : i + 1 \in DOMAIN queue /\ queue'[i] = queue[i + 1]
BY DEF TypeOK

\* The accounts and devices of connections.
LEMMA SlugTyped == ASSUME TypeOK, NEW s \in Sock
                   PROVE  SlugOf(s) \in Slug /\ conn[s].device \in Device /\ conn[s].device \in Nat
BY ReservationAssumption DEF TypeOK, Conn, SlugOf

\* No step gives a connection another device.
LEMMA SameSlug == ASSUME NEW s \in Sock, conn'[s].device = conn[s].device
                  PROVE  SlugOf(s)' = SlugOf(s)
BY DEF SlugOf

--------------------------------------------------------------------------
(* Types                                                                   *)

LEMMA InitTyped == Init => TypeOK
<1> SUFFICES ASSUME Init PROVE TypeOK
  OBVIOUS
<1>1. conn \in [Sock -> Conn]
  BY ReservationAssumption DEF Init, Conn
<1>2. rev \in [Rev -> Revocation]
  BY DEF Init, Revocation
<1>3. reg \in Reg
  BY DEF Init, Reg, Start
<1> QED BY <1>1, <1>2, <1>3 DEF Init, TypeOK

\* Claim keeps the types, whatever the connections have become.
LEMMA ClaimTyped ==
  ASSUME TypeOK, queue # << >>, NEW c \in [Sock -> Conn], Claim(c), reg.others \subseteq Sock,
         \A s \in up \ reg.others : c[s].state \in {"accepted", "registered"}
  PROVE  /\ record' \in Record \cup {NoRecord} /\ conn' \in [Sock -> Conn] /\ up' \subseteq Sock
         /\ \A s \in up' : conn'[s].state \in {"accepted", "registered"}
         /\ queue' \in Seq(Task) /\ reg' \in Reg
<1> USE HeadTyped, SlugTyped
<1>1. record' \in Record \cup {NoRecord}
  BY DEF Claim, TypeOK, Record
<1>2. CASE me \in up
  BY <1>1, <1>2, Dequeued DEF Claim, TypeOK, Pop, Goes, Start, Reg
<1>3. CASE me \notin up
  <2>1. record' = record /\ conn' = [c EXCEPT ![me].state = "closed"] /\ up' = up \ reg.others /\ Pop
    BY <1>3 DEF Claim
  <2>2. conn' \in [Sock -> Conn] /\ \A s \in Sock \ {me} : conn'[s] = c[s]
    BY <2>1 DEF Conn
  <2>3. queue' \in Seq(Task) /\ reg' \in Reg
    BY <2>1, Dequeued DEF Pop, Start, Reg
  <2> QED BY <1>1, <1>3, <2>1, <2>2, <2>3 DEF TypeOK
<1> QED BY <1>2, <1>3

\* A rejection keeps the types.
LEMMA RejectTyped ==
  ASSUME TypeOK, queue # << >>, Reject
  PROVE  /\ conn' \in [Sock -> Conn] /\ up' \subseteq Sock
         /\ \A s \in up' : conn'[s].state \in {"accepted", "registered"}
         /\ queue' \in Seq(Task) /\ reg' \in Reg
<1>1. conn' \in [Sock -> Conn]
  BY HeadTyped DEF Reject, TypeOK, Conn
<1>2. queue' \in Seq(Task) /\ reg' \in Reg
  BY Dequeued DEF Reject, Pop, Start, Reg
<1> QED BY <1>1, <1>2, HeadTyped DEF Reject, TypeOK

LEMMA ContendTyped ==
  ASSUME TypeOK, queue # << >>, NEW r \in Reg, Contend(r)
  PROVE  /\ conn' \in [Sock -> Conn] /\ up' \subseteq Sock
         /\ \A s \in up' : conn'[s].state \in {"accepted", "registered"}
         /\ queue' \in Seq(Task) /\ reg' \in Reg
<1>1. CASE Reject
  BY <1>1, RejectTyped
<1>2. CASE ~ Reject
  <2>1. UNCHANGED <<conn, up, queue>> 
    BY <1>2 DEF Contend, Goes
  <2>2. reg' \in Reg
    BY <1>2, ZenonT(30) DEF Contend, Goes, Reg, Others
  <2> QED BY <2>1, <2>2 DEF TypeOK
<1> QED BY <1>1, <1>2

LEMMA TypeStep == Inv /\ [Next]_vars => TypeOK'
<1> SUFFICES ASSUME TypeOK, Queued, Named, [Next]_vars PROVE TypeOK'
  BY DEF Inv
<1>1. ASSUME NEW s \in Sock, NEW replace \in BOOLEAN, Connect(s, replace) PROVE TypeOK'
  <2>1. queue' \in Seq(Task)
    BY <1>1, Enqueued DEF Connect, Task
  <2>2. conn' \in [Sock -> Conn] /\ conn'[s].state = "accepted" /\ \A o \in Sock \ {s} : conn'[o] = conn[o]
    BY <1>1 DEF Connect, TypeOK, Conn
  <2> QED BY <1>1, <2>1, <2>2 DEF Connect, TypeOK, slots
<1>2. ASSUME NEW s \in Sock, Drop(s) PROVE TypeOK'
  BY <1>2 DEF Drop, TypeOK, slots
<1>3. ASSUME NEW s \in Sock, webSocketClose(s) PROVE TypeOK'
  <2>1. queue' \in Seq(Task)
    BY <1>3, Enqueued DEF webSocketClose, Task
  <2>2. conn' \in [Sock -> Conn]
    BY <1>3 DEF webSocketClose, TypeOK, Conn
  <2> QED BY <1>3, <2>1, <2>2 DEF webSocketClose, TypeOK, slots
<1>4. ASSUME NEW s \in Sock, Stamp(s) PROVE TypeOK'
  <2>1. conn' \in [Sock -> Conn] /\ conn[s].lost \in Nat
    BY <1>4 DEF Stamp, TypeOK, Conn
  <2>2. record' \in Record \cup {NoRecord}
    BY <1>4, <2>1 DEF Stamp, TypeOK, Record
  <2> QED BY <1>4, <2>1, <2>2 DEF Stamp, TypeOK, slots
<1>5. CASE Begin
  <2>1. queue # << >> /\ UNCHANGED <<now, tokens, changes, rev, record, slot, stray, misfreed>>
        /\ lapsed' = Device \ tokens
    BY <1>5 DEF Begin, Runs, Quiet, slots
  <2>2. [Start EXCEPT !.at = "resolve", !.prior = record] \in Reg
    BY DEF TypeOK, Start, Reg
  <2>3. /\ conn' \in [Sock -> Conn] /\ up' \subseteq Sock
        /\ \A s \in up' : conn'[s].state \in {"accepted", "registered"}
        /\ queue' \in Seq(Task) /\ reg' \in Reg
    <3>1. CASE Reject
      BY <3>1, <2>1, RejectTyped
    <3>2. CASE Contend([Start EXCEPT !.at = "resolve", !.prior = record])
      BY <3>2, <2>1, <2>2, ContendTyped
    <3>3. CASE Pop /\ UNCHANGED <<conn, up>>
      BY <3>3, <2>1, Dequeued DEF TypeOK, Pop, Start, Reg
    <3>4. CASE Goes([Start EXCEPT !.at = "resolve", !.prior = record]) /\ UNCHANGED <<conn, up>>
      BY <3>4, <2>1, <2>2 DEF TypeOK, Goes
    <3> QED BY <1>5, <3>1, <3>2, <3>3, <3>4 DEF Begin
  <2> QED BY <2>1, <2>3 DEF TypeOK
<1>6. CASE Resolve
  <2>1. /\ conn' \in [Sock -> Conn] /\ up' \subseteq Sock
        /\ \A s \in up' : conn'[s].state \in {"accepted", "registered"}
        /\ queue' \in Seq(Task) /\ reg' \in Reg
    BY <1>6, RejectTyped, ContendTyped DEF Resolve, Runs, TypeOK
  <2> QED BY <1>6, <2>1 DEF Resolve, Same, Quiet, slots, TypeOK
<1>7. CASE Fence
  <2>1. /\ conn' \in [Sock -> Conn] /\ up' \subseteq Sock
        /\ \A s \in up' : conn'[s].state \in {"accepted", "registered"}
        /\ queue' \in Seq(Task) /\ reg' \in Reg
    <3>1. CASE Reject
      BY <1>7, <3>1, RejectTyped DEF Fence, Runs
    <3>2. CASE Goes([reg EXCEPT !.at = "authorize"]) /\ UNCHANGED <<conn, up>>
      BY <3>2 DEF TypeOK, Goes, Reg
    <3> QED BY <1>7, <3>1, <3>2 DEF Fence
  <2>2. lapsed' \subseteq Device
    BY <1>7 DEF Fence, TypeOK
  <2> QED BY <1>7, <2>1, <2>2 DEF Fence, Quiet, slots, TypeOK
<1>8. CASE Authorize
  <2>1. /\ conn' \in [Sock -> Conn] /\ up' \subseteq Sock
        /\ \A s \in up' : conn'[s].state \in {"accepted", "registered"}
        /\ queue' \in Seq(Task) /\ reg' \in Reg
    <3>1. CASE Reject
      BY <1>8, <3>1, RejectTyped DEF Authorize, Runs
    <3>2. CASE Goes([reg EXCEPT !.at = "granted"]) /\ UNCHANGED <<conn, up>>
      BY <3>2 DEF TypeOK, Goes, Reg
    <3> QED BY <1>8, <3>1, <3>2 DEF Authorize
  <2>2. SlugOf(me) \in Slug
    BY <1>8, HeadTyped, SlugTyped DEF Authorize, Runs
  <2>3. slot' \subseteq Slug /\ misfreed' \subseteq Slug
    BY <1>8, <2>2 DEF Authorize, TypeOK
  <2> QED BY <1>8, <2>1, <2>3 DEF Authorize, Same, Quiet, TypeOK
<1>9. ASSUME Publish \/ Settled PROVE TypeOK'
  <2>1. queue # << >> /\ me \in Sock /\ reg.others \subseteq Sock
    BY <1>9, HeadTyped DEF Publish, Settled, Runs, TypeOK, Reg
  <2>2. Supersede \in [Sock -> Conn]
    BY <2>1 DEF TypeOK, Supersede, Conn
  <2>3. \A s \in up \ reg.others : Supersede[s].state \in {"accepted", "registered"}
    BY DEF TypeOK, Supersede, Conn
  <2>4. /\ record' \in Record \cup {NoRecord} /\ conn' \in [Sock -> Conn] /\ up' \subseteq Sock
        /\ \A s \in up' : conn'[s].state \in {"accepted", "registered"}
        /\ queue' \in Seq(Task) /\ reg' \in Reg
    <3>1. CASE Claim(Supersede)
      BY <3>1, <2>1, <2>2, <2>3, ClaimTyped
    <3>2. CASE Claim(conn)
      BY <3>2, <2>1, ClaimTyped DEF TypeOK
    <3>3. CASE /\ conn' = Supersede /\ up' = up \ reg.others
               /\ Goes([reg EXCEPT !.at = "published"]) /\ record' = record
      BY <3>3, <2>2, <2>3 DEF TypeOK, Goes, Reg
    <3> QED BY <1>9, <3>1, <3>2, <3>3 DEF Publish, Settled
  <2> QED BY <1>9, <2>4 DEF Publish, Settled, Same, Quiet, slots, TypeOK
<1>10. CASE Release
  <2>1. queue' \in Seq(Task) /\ reg' \in Reg
    BY <1>10, Dequeued DEF Release, Runs, Pop, Start, Reg
  <2>2. reg.prior.owner \in Slug
    BY <1>10 DEF Release, Runs, Named, TypeOK, Reg, Record
  <2> QED BY <1>10, <2>1, <2>2 DEF Release, ReleaseId, Same, Quiet, TypeOK
<1>11. CASE Settle
  <2>1. me \in Sock /\ me \notin up /\ queue' \in Seq(Task)
    BY <1>11, HeadTyped, Dequeued DEF Settle, Queued, me
  <2> QED BY <1>11, <2>1 DEF Settle, TypeOK, Conn, slots
<1>12. ASSUME NEW r \in Rev, NEW e \in Slug \cup {Root}, Revoke(r, e) PROVE TypeOK'
  BY <1>12 DEF Revoke, World, slots, TypeOK, Revocation
<1>13. ASSUME NEW r \in Rev, RevokeArrives(r) PROVE TypeOK'
  <2>1. rev' \in [Rev -> Revocation]
    <3>1. CASE rev' = [rev EXCEPT ![r].at = "done"]
      BY <3>1 DEF TypeOK, Revocation
    <3>2. CASE record # NoRecord /\ rev' = [rev EXCEPT ![r].at = "calling", ![r].owner = record.owner]
      <4>1. record.owner \in Slug
        BY <3>2 DEF TypeOK, Record
      <4> QED BY <3>2, <4>1 DEF TypeOK, Revocation
    <3> QED BY <1>13, <3>1, <3>2 DEF RevokeArrives, Clear
  <2> QED BY <1>13, <2>1 DEF RevokeArrives, Clear, World, slots, TypeOK
<1>14. ASSUME NEW r \in Rev, RevokeCalls(r) PROVE TypeOK'
  <2>1. rev[r].owner \in Slug /\ rev' \in [Rev -> Revocation]
    BY <1>14 DEF RevokeCalls, Named, TypeOK, Revocation
  <2> QED BY <1>14, <2>1 DEF RevokeCalls, ReleaseId, World, TypeOK
<1>15. ASSUME NEW r \in Rev, RevokeEnds(r) PROVE TypeOK'
  BY <1>15 DEF RevokeEnds, Clear, World, slots, TypeOK, Revocation
<1>16. ASSUME NEW d \in Device, ChangeToken(d) PROVE TypeOK'
  BY <1>16 DEF ChangeToken, slots, TypeOK
<1>17. CASE ServeStray
  BY <1>17 DEF ServeStray, TypeOK
<1>18. CASE Tick
  BY <1>18 DEF Tick, slots, TypeOK
<1>19. CASE UNCHANGED vars
  BY <1>19 DEF vars, slots, TypeOK
<1> QED BY <1>1, <1>2, <1>3, <1>4, <1>5, <1>6, <1>7, <1>8, <1>9, <1>10, <1>11, <1>12,
           <1>13, <1>14, <1>15, <1>16, <1>17, <1>18, <1>19 DEF Next

--------------------------------------------------------------------------
(* How each part of the state moves                                        *)

\* A rejection closes the connection of the head and ends its register.
LEMMA Rejected ==
  ASSUME TypeOK, queue # << >>, Reject
  PROVE  /\ \A s \in Sock \ {me} : conn'[s] = conn[s]
         /\ conn'[me].state = "closed" /\ conn'[me].device = conn[me].device
         /\ conn'[me].lost = conn[me].lost
         /\ up' = up \ {me} /\ queue' = Tail(queue) /\ reg'.at = "start"
BY HeadTyped DEF Reject, Pop, Start, TypeOK, Conn

\* What the end of a register does to the connections.
LEMMA Claimed ==
  ASSUME TypeOK, queue # << >>, NEW c \in [Sock -> Conn], Claim(c)
  PROVE  /\ up' = up \ reg.others
         /\ \A s \in Sock \ {me} : conn'[s] = c[s]
         /\ conn'[me].device = c[me].device /\ conn'[me].lost = c[me].lost
         /\ me \in up => /\ conn' = c /\ record' = [owner |-> SlugOf(me), seen |-> now]
                         /\ \/ queue' = Tail(queue) /\ reg'.at = "start"
                            \/ /\ queue' = queue /\ reg.prior # NoRecord
                               /\ reg.prior.owner # SlugOf(me)
                               /\ reg' = [reg EXCEPT !.at = "release"]
         /\ me \notin up => /\ conn'[me].state = "closed" /\ record' = record
                            /\ queue' = Tail(queue) /\ reg'.at = "start"
<1>1. me \in Sock
  BY HeadTyped
<1>2. CASE me \in up
  BY <1>1, <1>2 DEF Claim, Pop, Goes, Start
<1>3. CASE me \notin up
  BY <1>1, <1>3 DEF Claim, Pop, Start, Conn
<1> QED BY <1>2, <1>3

\* What the handoff does to the connections.
LEMMA Superseded ==
  ASSUME TypeOK, queue # << >>
  PROVE  /\ Supersede \in [Sock -> Conn]
         /\ \A s \in Sock :
              /\ Supersede[s].device = conn[s].device /\ Supersede[s].lost = conn[s].lost
              /\ s \in reg.others => Supersede[s].state = "superseded"
              /\ s = me /\ s \notin reg.others => Supersede[s].state = "registered"
              /\ s # me /\ s \notin reg.others => Supersede[s] = conn[s]
BY HeadTyped DEF Supersede, TypeOK, Conn

\* A register that was accepted: it is rejected, or decides among the
\* connections that are registered.
LEMMA Contended ==
  ASSUME NEW r \in Reg, Contend(r), ~ Reject
  PROVE  /\ UNCHANGED <<conn, up, queue>> /\ reg'.others = Others
         /\ reg'.at \in {"fence", "authorize"} /\ reg'.prior = r.prior
         /\ reg'.at = "authorize" => Newer(Others) = {}
BY DEF Contend, Goes, Reg

\* The steps of a register up to its grant leave the record alone; they end it,
\* with its connection closed or not, or go on and touch no connection.
LEMMA Decides ==
  ASSUME Inv, Begin \/ Resolve \/ Fence \/ Authorize
  PROVE  /\ Registering /\ UNCHANGED <<now, tokens, rev, record, stray>>
         /\ up' \subseteq up
         /\ \A s \in Sock : /\ conn'[s].device = conn[s].device /\ conn'[s].lost = conn[s].lost
                            /\ conn'[s] = conn[s] \/ conn'[s].state = "closed"
         /\ \/ queue' = Tail(queue) /\ reg'.at = "start"
            \/ /\ UNCHANGED <<conn, up, queue>>
               /\ reg'.at \in {"resolve", "fence", "authorize", "granted"}
               /\ reg'.at \in {"fence", "authorize", "granted"} => Others \subseteq reg'.others
<1> DEFINE Ends == queue' = Tail(queue) /\ reg'.at = "start"
           GoesOn == /\ UNCHANGED <<conn, up, queue>>
                     /\ reg'.at \in {"resolve", "fence", "authorize", "granted"}
                     /\ reg'.at \in {"fence", "authorize", "granted"} => Others \subseteq reg'.others
<1>1. /\ Registering /\ UNCHANGED <<now, tokens, rev, record, stray>>
      /\ TypeOK /\ queue # << >> /\ me \in Sock
  BY HeadTyped DEF Inv, Begin, Resolve, Fence, Authorize, Same, Quiet, slots, Runs, Registering
<1>2. CASE Reject
  BY <1>1, <1>2, Rejected
<1>3. CASE ~ Reject
  <2>1. UNCHANGED <<conn, up>> /\ (Ends \/ GoesOn)
    <3>1. ASSUME NEW r \in Reg, Contend(r) PROVE UNCHANGED <<conn, up>> /\ GoesOn
      BY <1>3, <3>1, Contended
    <3>2. CASE Begin
      <4>1. [Start EXCEPT !.at = "resolve", !.prior = record] \in Reg
        BY <1>1 DEF TypeOK, Start, Reg
      <4>2. CASE Contend([Start EXCEPT !.at = "resolve", !.prior = record])
        BY <3>1, <4>1, <4>2
      <4>3. CASE Pop /\ UNCHANGED <<conn, up>>
        BY <4>3 DEF Pop, Start
      <4>4. CASE Goes([Start EXCEPT !.at = "resolve", !.prior = record]) /\ UNCHANGED <<conn, up>>
        BY <4>4 DEF Goes, Start
      <4> QED BY <1>3, <3>2, <4>2, <4>3, <4>4 DEF Begin
    <3>3. CASE Resolve
      BY <1>1, <1>3, <3>1, <3>3 DEF Resolve, TypeOK
    <3>4. ASSUME Fence \/ Authorize PROVE UNCHANGED <<conn, up>> /\ GoesOn
      <4>1. Others \subseteq reg.others
        BY <3>4 DEF Fence, Authorize, Runs, Inv, OthersKnown, Deciding
      <4> QED BY <1>1, <1>3, <3>4, <4>1 DEF Fence, Authorize, Goes, TypeOK, Reg
    <3> QED BY <3>2, <3>3, <3>4
  <2> QED BY <1>1, <2>1
<1> QED BY <1>2, <1>3

\* The steps of a register after its grant leave no connection registered but
\* its own; they write its claim if it is still there.
LEMMA Publishes ==
  ASSUME Inv, Publish \/ Settled
  PROVE  /\ Registering /\ me \in Sock /\ reg.at \in {"granted", "published"}
         /\ UNCHANGED <<now, tokens, rev, slot, stray, misfreed, lapsed>>
         /\ up' \subseteq up
         /\ \A s \in Sock : /\ conn'[s].device = conn[s].device /\ conn'[s].lost = conn[s].lost
                            /\ conn'[s] = conn[s] \/ conn'[s].state # "none"
                            /\ conn'[s].state = "registered" => s = me
         /\ \/ /\ me \in up /\ record' = [owner |-> SlugOf(me), seen |-> now]
               /\ \/ queue' = Tail(queue) /\ reg'.at = "start"
                  \/ /\ queue' = queue /\ reg'.at = "release" /\ reg'.prior = reg.prior
                     /\ reg.prior # NoRecord /\ reg.prior.owner # SlugOf(me)
            \/ /\ me \notin up /\ record' = record
               /\ queue' = Tail(queue) /\ reg'.at = "start"
            \/ /\ record' = record /\ queue' = queue
               /\ reg.at = "granted" /\ reg'.at = "published"
<1>1. /\ Registering /\ reg.at \in {"granted", "published"} /\ reg \in Reg
      /\ UNCHANGED <<now, tokens, rev, slot, stray, misfreed, lapsed>>
      /\ TypeOK /\ queue # << >> /\ me \in Sock
  BY HeadTyped DEF Inv, Publish, Settled, Same, Quiet, slots, Runs, Registering, TypeOK
<1>2. CASE Publish
  <2>1. \A s \in Sock \ {me} : Supersede[s].state # "registered"
    BY <1>1, <1>2, Superseded DEF Publish, Runs, Inv, OthersKnown, Deciding, Others, Registered
  <2>2. CASE Claim(Supersede)
    BY <1>1, <2>1, <2>2, Superseded, Claimed DEF Reg
  <2>3. CASE /\ conn' = Supersede /\ up' = up \ reg.others
             /\ Goes([reg EXCEPT !.at = "published"]) /\ record' = record
    <3>1. queue' = queue /\ reg'.at = "published" /\ reg.at = "granted"
      BY <1>1, <1>2, <2>3 DEF Goes, Publish, Runs, Reg
    <3> QED BY <1>1, <2>1, <2>3, <3>1, Superseded
  <2> QED BY <1>2, <2>2, <2>3 DEF Publish
<1>3. CASE Settled
  <2>1. \A s \in Sock \ {me} : conn[s].state # "registered"
    BY <1>3 DEF Settled, Runs, Inv, OthersKnown, Others, Registered
  <2>2. Claim(conn) /\ conn \in [Sock -> Conn]
    BY <1>1, <1>3 DEF Settled, TypeOK
  <2> QED BY <1>1, <2>1, <2>2, Claimed DEF Reg
<1> QED BY <1>2, <1>3

\* The steps that are not on the chain and no new task leave the head alone.
LEMMA OtherSteps ==
  ASSUME Inv, [Next]_vars,
         ~ (Begin \/ Resolve \/ Fence \/ Authorize \/ Publish \/ Settled \/ Release \/ Settle)
  PROVE  /\ reg' = reg
         /\ \/ queue' = queue /\ me' = me /\ task' = task
            \/ \E x \in Task : queue' = Append(queue, x)
<1>1. ASSUME NEW s \in Sock, NEW replace \in BOOLEAN, Connect(s, replace)
      PROVE  reg' = reg /\ \E x \in Task : queue' = Append(queue, x)
  BY <1>1 DEF Connect, Task
<1>2. ASSUME NEW s \in Sock, webSocketClose(s)
      PROVE  reg' = reg /\ \E x \in Task : queue' = Append(queue, x)
  BY <1>2 DEF webSocketClose, Task
<1>3. ASSUME NEW s \in Sock, Drop(s) \/ Stamp(s) PROVE UNCHANGED <<reg, queue>>
  BY <1>3 DEF Drop, Stamp
<1>4. ASSUME NEW r \in Rev, \/ \E e \in Slug \cup {Root} : Revoke(r, e)
                            \/ RevokeArrives(r) \/ RevokeCalls(r) \/ RevokeEnds(r)
      PROVE  UNCHANGED <<reg, queue>>
  BY <1>4 DEF Revoke, RevokeArrives, RevokeCalls, RevokeEnds, World
<1>5. ASSUME \/ \E d \in Device : ChangeToken(d)
             \/ ServeStray \/ Tick \/ UNCHANGED vars
      PROVE  UNCHANGED <<reg, queue>>
  BY <1>5 DEF ChangeToken, ServeStray, Tick, vars
<1> QED BY <1>1, <1>2, <1>3, <1>4, <1>5 DEF Next, me, task

--------------------------------------------------------------------------
(* The invariants of the queue and of the register at its head             *)

\* Tasks that were queued stay fit while connections only come, fall and end.
LEMMA TasksKept ==
  ASSUME TypeOK, Queued,
         \A s \in Sock : conn[s].state # "none" => conn'[s].state # "none",
         \A s \in up' : s \in up \/ conn[s].state = "none",
         queue' = queue \/ (queue # << >> /\ queue' = Tail(queue))
  PROVE  Queued'
<1> SUFFICES ASSUME NEW i \in DOMAIN queue'
             PROVE  /\ conn'[queue'[i].sock].state # "none"
                    /\ queue'[i].kind = "settle" => queue'[i].sock \notin up'
  BY DEF Queued
<1>1. PICK j \in DOMAIN queue : queue'[i] = queue[j]
  BY Dequeued
<1>2. queue[j] \in Task
  BY DEF TypeOK
<1> QED BY <1>1, <1>2 DEF Queued, Task

LEMMA QueuedStep == Inv /\ [Next]_vars => Queued'
<1> SUFFICES ASSUME Inv, [Next]_vars PROVE Queued'
  OBVIOUS
<1> USE DEF Inv
<1>1. ASSUME NEW s \in Sock, NEW replace \in BOOLEAN, Connect(s, replace) PROVE Queued'
  <2>1. PICK x \in Task : x.sock = s /\ x.kind = "register" /\ queue' = Append(queue, x)
    BY <1>1 DEF Connect, Task
  <2>2. /\ conn[s].state = "none" /\ conn'[s].state = "accepted" /\ up' = up \cup {s}
        /\ \A o \in Sock \ {s} : conn'[o] = conn[o]
    BY <1>1 DEF Connect, TypeOK, Conn
  <2> SUFFICES ASSUME NEW i \in DOMAIN queue'
               PROVE  /\ conn'[queue'[i].sock].state # "none"
                      /\ queue'[i].kind = "settle" => queue'[i].sock \notin up'
    BY DEF Queued
  <2>3. CASE queue'[i] = x
    BY <2>1, <2>2, <2>3
  <2>4. CASE i \in DOMAIN queue /\ queue'[i] = queue[i]
    <3>1. queue[i] \in Task
      BY <2>4, TaskTyped
    <3> QED BY <2>2, <2>4, <3>1 DEF Queued, Task
  <2> QED BY <2>1, <2>3, <2>4, Enqueued
<1>2. ASSUME NEW s \in Sock, Drop(s) PROVE Queued'
  BY <1>2, TasksKept DEF Drop
<1>3. ASSUME NEW s \in Sock, webSocketClose(s) PROVE Queued'
  <2>1. PICK x \in Task : x.sock = s /\ queue' = Append(queue, x)
    BY <1>3 DEF webSocketClose, Task
  <2>2. s \notin up /\ up' = up /\ \A o \in Sock : conn[o].state # "none" => conn'[o].state # "none"
    BY <1>3 DEF webSocketClose, TypeOK, Conn
  <2>3. conn'[s].state = "closing"
    BY <1>3 DEF webSocketClose, TypeOK, Conn
  <2> SUFFICES ASSUME NEW i \in DOMAIN queue'
               PROVE  /\ conn'[queue'[i].sock].state # "none"
                      /\ queue'[i].kind = "settle" => queue'[i].sock \notin up'
    BY DEF Queued
  <2>4. CASE queue'[i] = x
    BY <2>1, <2>2, <2>3, <2>4
  <2>5. CASE i \in DOMAIN queue /\ queue'[i] = queue[i]
    <3>1. queue[i] \in Task
      BY <2>5, TaskTyped
    <3> QED BY <2>2, <2>5, <3>1 DEF Queued, Task
  <2> QED BY <2>1, <2>4, <2>5, Enqueued
<1>4. ASSUME NEW s \in Sock, Stamp(s) PROVE Queued'
  <2>1. \A o \in Sock : conn[o].state # "none" => conn'[o].state # "none"
    BY <1>4 DEF Stamp, TypeOK, Conn
  <2> QED BY <1>4, <2>1, TasksKept DEF Stamp
<1>5. CASE Begin \/ Resolve \/ Fence \/ Authorize
  BY <1>5, Decides, TasksKept DEF Registering
<1>6. CASE Publish \/ Settled
  <2>1. \A s \in Sock : conn[s].state # "none" => conn'[s].state # "none"
    BY <1>6, Publishes
  <2>2. Registering /\ up' \subseteq up /\ (queue' = queue \/ queue' = Tail(queue))
    BY <1>6, Publishes
  <2> QED BY <2>1, <2>2, TasksKept DEF Registering
<1>7. CASE Release
  BY <1>7, TasksKept DEF Release, Runs, Pop
<1>8. CASE Settle
  <2>1. \A o \in Sock : conn[o].state # "none" => conn'[o].state # "none"
    BY <1>8, HeadTyped DEF Settle, TypeOK, Conn
  <2> QED BY <1>8, <2>1, TasksKept DEF Settle
<1>9. ASSUME NEW r \in Rev, \/ \E e \in Slug \cup {Root} : Revoke(r, e)
                            \/ RevokeArrives(r) \/ RevokeCalls(r) \/ RevokeEnds(r)
      PROVE  Queued'
  <2>1. UNCHANGED <<conn, queue>> /\ up' \subseteq up
    BY <1>9 DEF Revoke, RevokeArrives, RevokeCalls, RevokeEnds, World, Clear
  <2> QED BY <2>1, TasksKept
<1>10. ASSUME \/ \E d \in Device : ChangeToken(d)
              \/ ServeStray \/ Tick \/ UNCHANGED vars
       PROVE  Queued'
  BY <1>10, TasksKept DEF ChangeToken, ServeStray, Tick, vars
<1> QED BY <1>1, <1>2, <1>3, <1>4, <1>5, <1>6, <1>7, <1>8, <1>9, <1>10 DEF Next

\* A task queued behind others, or before a register begins, changes no locals.
LEMMA HeadKept ==
  ASSUME Inv, NEW x \in Task, queue' = Append(queue, x), reg' = reg, reg.at # "start"
  PROVE  me' = me /\ task' = task /\ queue # << >>
BY Enqueued DEF Inv, AtRest, Registering

LEMMA AtRestStep == Inv /\ [Next]_vars => AtRest'
<1> SUFFICES ASSUME Inv, [Next]_vars PROVE AtRest'
  OBVIOUS
<1>1. CASE Begin \/ Resolve \/ Fence \/ Authorize
  BY <1>1, Decides DEF AtRest, Registering, task
<1>2. CASE Publish \/ Settled
  <2>1. Registering /\ (reg'.at = "start" \/ queue' = queue)
    BY <1>2, Publishes
  <2> QED BY <2>1 DEF AtRest, Registering, task
<1>3. CASE Release
  BY <1>3 DEF Release, Pop, Start, AtRest
<1>4. CASE Settle
  BY <1>4 DEF Settle, Inv, AtRest, Registering
<1>5. CASE ~ (Begin \/ Resolve \/ Fence \/ Authorize \/ Publish \/ Settled \/ Release \/ Settle)
  <2>1. CASE queue' = queue /\ task' = task
    BY <1>5, <2>1, OtherSteps DEF Inv, AtRest, Registering
  <2>2. ASSUME NEW x \in Task, queue' = Append(queue, x) PROVE AtRest'
    <3>1. reg' = reg
      BY <1>5, OtherSteps
    <3>2. CASE reg.at # "start"
      <4>1. task' = task /\ queue # << >> /\ queue' # << >> /\ Registering
        BY <2>2, <3>1, <3>2, HeadKept, Enqueued DEF Inv, AtRest
      <4> QED BY <4>1 DEF AtRest, Registering
    <3> QED BY <3>1, <3>2 DEF AtRest
  <2> QED BY <1>5, <2>1, <2>2, OtherSteps
<1> QED BY <1>1, <1>2, <1>3, <1>4, <1>5

--------------------------------------------------------------------------
(* Who is registered                                                       *)

\* Whatever is not a step of the register at the head leaves its locals alone.
LEMMA LocalsKept ==
  ASSUME Inv, [Next]_vars, reg.at # "start",
         ~ (Begin \/ Resolve \/ Fence \/ Authorize \/ Publish \/ Settled \/ Release \/ Settle)
  PROVE  reg' = reg /\ me' = me
BY OtherSteps, HeadKept

\* No step but the handoff registers a connection.
LEMMA NoneRegisters ==
  ASSUME Inv, [Next]_vars, ~ (Publish \/ Settled)
  PROVE  \A s \in Sock : /\ conn'[s].device = conn[s].device
                         /\ Registered(s)' => Registered(s)
                         /\ Registered(s)' /\ s \in up' => s \in up
<1> USE DEF Registered
<1>1. ASSUME NEW s \in Sock, NEW replace \in BOOLEAN, Connect(s, replace)
      PROVE  \A o \in Sock : /\ conn'[o].device = conn[o].device
                             /\ Registered(o)' => Registered(o)
                             /\ Registered(o)' /\ o \in up' => o \in up
  BY <1>1 DEF Connect, Inv, TypeOK, Conn
<1>2. ASSUME NEW s \in Sock, Drop(s) \/ webSocketClose(s) \/ Stamp(s)
      PROVE  \A o \in Sock : /\ conn'[o].device = conn[o].device
                             /\ Registered(o)' => Registered(o)
                             /\ Registered(o)' /\ o \in up' => o \in up
  <2>1. CASE Drop(s)
    BY <2>1 DEF Drop
  <2>2. CASE webSocketClose(s)
    BY <2>2 DEF webSocketClose, Inv, TypeOK, Conn
  <2>3. CASE Stamp(s)
    BY <2>3 DEF Stamp, Inv, TypeOK, Conn
  <2> QED BY <1>2, <2>1, <2>2, <2>3
<1>3. CASE Begin \/ Resolve \/ Fence \/ Authorize
  BY <1>3, Decides
<1>4. CASE Settle
  <2>1. me \in Sock
    BY <1>4, HeadTyped DEF Settle, Inv
  <2> QED BY <1>4, <2>1 DEF Settle, Inv, TypeOK, Conn
<1>5. ASSUME NEW r \in Rev, \/ \E e \in Slug \cup {Root} : Revoke(r, e)
                            \/ RevokeArrives(r) \/ RevokeCalls(r) \/ RevokeEnds(r)
      PROVE  conn' = conn /\ up' \subseteq up
  BY <1>5 DEF Revoke, RevokeArrives, RevokeCalls, RevokeEnds, World, Clear
<1>6. ASSUME \/ \E d \in Device : ChangeToken(d)
             \/ Release \/ ServeStray \/ Tick \/ UNCHANGED vars
      PROVE  conn' = conn /\ up' \subseteq up
  BY <1>6 DEF ChangeToken, Release, ServeStray, Tick, vars
<1> QED BY <1>1, <1>2, <1>3, <1>4, <1>5, <1>6 DEF Next

LEMMA OneRegisteredStep == Inv /\ [Next]_vars => OneRegistered'
<1> SUFFICES ASSUME Inv, [Next]_vars PROVE OneRegistered'
  OBVIOUS
<1>1. CASE Publish \/ Settled
  BY <1>1, Publishes DEF OneRegistered, Registered
<1>2. CASE ~ (Publish \/ Settled)
  BY <1>2, NoneRegisters DEF Inv, OneRegistered
<1> QED BY <1>1, <1>2

LEMMA OthersKnownStep == Inv /\ [Next]_vars => OthersKnown'
<1> SUFFICES ASSUME Inv, [Next]_vars PROVE OthersKnown'
  OBVIOUS
<1>1. CASE Begin \/ Resolve \/ Fence \/ Authorize
  <2>1. CASE reg'.at = "start"
    BY <2>1 DEF OthersKnown, Deciding
  <2>2. CASE UNCHANGED <<conn, queue>>
    <3>1. Others' = Others
      BY <2>2 DEF Others, Registered, me, task
    <3> QED BY <1>1, <2>2, <3>1, Decides DEF OthersKnown, Deciding
  <2> QED BY <1>1, <2>1, <2>2, Decides
<1>2. CASE Publish \/ Settled
  <2>1. CASE reg'.at = "published" /\ queue' = queue
    <3>1. me' = me /\ \A s \in Sock : conn'[s].state = "registered" => s = me
      BY <1>2, <2>1, Publishes DEF me, task
    <3> QED BY <2>1, <3>1 DEF OthersKnown, Deciding, Others, Registered
  <2>2. CASE reg'.at \in {"start", "release"}
    BY <2>2 DEF OthersKnown, Deciding
  <2> QED BY <1>2, <2>1, <2>2, Publishes
<1>3. CASE Release
  BY <1>3 DEF Release, Pop, Start, OthersKnown, Deciding
<1>4. CASE Settle
  BY <1>4 DEF Settle, Inv, AtRest, Registering, OthersKnown, Deciding
<1>5. CASE ~ (Begin \/ Resolve \/ Fence \/ Authorize \/ Publish \/ Settled \/ Release \/ Settle)
  <2>1. CASE reg.at = "start"
    BY <1>5, <2>1, OtherSteps DEF OthersKnown, Deciding
  <2>2. CASE reg.at # "start"
    <3>1. reg' = reg /\ me' = me
      BY <1>5, <2>2, LocalsKept
    <3>2. Others' \subseteq Others
      BY <1>5, <3>1, NoneRegisters DEF Others
    <3> QED BY <3>1, <3>2 DEF Inv, OthersKnown, Deciding
  <2> QED BY <2>1, <2>2
<1> QED BY <1>1, <1>2, <1>3, <1>4, <1>5

--------------------------------------------------------------------------
(* The record                                                              *)

\* What happens to the record outside of a claim: it goes, with every
\* connection, or stays its owner's.
LEMMA RecordKept ==
  ASSUME Inv, [Next]_vars, ~ (Publish \/ Settled)
  PROVE  \/ record' = record
         \/ record' = NoRecord /\ up' = {}
         \/ \E s \in Sock : /\ Stamp(s) /\ record # NoRecord /\ record.seen <= conn[s].lost
                             /\ record' \in Record /\ record'.owner = record.owner
                             /\ record'.seen = conn[s].lost
<1>1. CASE Begin \/ Resolve \/ Fence \/ Authorize
  BY <1>1, Decides
<1>2. ASSUME NEW s \in Sock, Stamp(s), record' # record
      PROVE  /\ record # NoRecord /\ record.seen <= conn[s].lost
             /\ record' \in Record /\ record'.owner = record.owner
             /\ record'.seen = conn[s].lost
  <2>1. /\ record # NoRecord /\ record.seen <= conn[s].lost
        /\ record' = [record EXCEPT !.seen = conn[s].lost]
    BY <1>2 DEF Stamp
  <2>2. record \in Record /\ conn[s].lost \in Nat
    BY <2>1 DEF Inv, TypeOK, Conn
  <2>3. record' \in Record /\ record'.owner = record.owner /\ record'.seen = conn[s].lost
    BY <2>1, <2>2 DEF Record
  <2> QED BY <2>1, <2>3
<1>3. ASSUME NEW r \in Rev, RevokeArrives(r) \/ RevokeEnds(r)
      PROVE  record' = record \/ (record' = NoRecord /\ up' = {})
  BY <1>3 DEF RevokeArrives, RevokeEnds, Clear
<1>4. ASSUME \/ \E s \in Sock : \/ \E replace \in BOOLEAN : Connect(s, replace)
                                \/ Drop(s) \/ webSocketClose(s)
             \/ \E r \in Rev : (\E e \in Slug \cup {Root} : Revoke(r, e)) \/ RevokeCalls(r)
             \/ \E d \in Device : ChangeToken(d)
             \/ Release \/ Settle \/ ServeStray \/ Tick \/ UNCHANGED vars
      PROVE  record' = record
  BY <1>4 DEF Connect, Drop, webSocketClose, Revoke, RevokeCalls, ChangeToken, Release, Settle,
              ServeStray, Tick, vars
<1> QED BY <1>1, <1>2, <1>3, <1>4 DEF Next

LEMMA OwnedStep == Inv /\ [Next]_vars => Owned'
<1> SUFFICES ASSUME Inv, [Next]_vars, NEW s \in ctl'
             PROVE  \/ record' # NoRecord /\ record'.owner = SlugOf(s)'
                    \/ reg'.at = "published" /\ s = me'
  BY DEF Owned
<1>1. s \in Sock /\ s \in up' /\ Registered(s)'
  BY TypeStep DEF ctl, TypeOK
<1>2. CASE Publish \/ Settled
  <2>1. s = me /\ SlugOf(s)' = SlugOf(s)
    BY <1>1, <1>2, Publishes DEF Registered, SlugOf
  <2>2. me \in up
    BY <1>1, <1>2, <2>1, Publishes
  <2>3. CASE record' = [owner |-> SlugOf(me), seen |-> now]
    <3>1. record' # NoRecord
      BY <1>1, <2>1, <2>3, SlugTyped, ReservationAssumption DEF Inv, TypeOK
    <3> QED BY <2>1, <2>3, <3>1
  <2>4. CASE reg'.at = "published" /\ queue' = queue
    BY <2>1, <2>4 DEF me, task
  <2> QED BY <1>2, <2>2, <2>3, <2>4, Publishes
<1>3. CASE ~ (Publish \/ Settled)
  <2>1. s \in ctl /\ SlugOf(s)' = SlugOf(s)
    BY <1>1, <1>3, NoneRegisters DEF ctl, SlugOf
  <2>2. CASE record # NoRecord /\ record.owner = SlugOf(s)
    <3>1. record' = record \/ (record' # NoRecord /\ record'.owner = record.owner)
      BY <1>1, <1>3, RecordKept, ReservationAssumption DEF Record
    <3> QED BY <2>1, <2>2, <3>1
  <2>3. CASE reg.at = "published" /\ s = me
    <3>1. ~ (Begin \/ Resolve \/ Fence \/ Authorize \/ Release \/ Settle)
      BY <2>3 DEF Begin, Resolve, Fence, Authorize, Release, Settle, Runs, Inv, AtRest, Registering
    <3> QED BY <1>3, <2>3, <3>1, LocalsKept
  <2> QED BY <2>1, <2>2, <2>3 DEF Inv, Owned
<1> QED BY <1>2, <1>3

LEMMA ClockStep == Inv /\ [Next]_vars => ClockBehind'
<1> SUFFICES ASSUME Inv, [Next]_vars PROVE ClockBehind'
  OBVIOUS
<1>1. now \in Nat /\ now' \in Nat /\ now' >= now
  <2>1. now' = now \/ now' = now + 1
    BY DEF Next, Connect, Drop, webSocketClose, Stamp, Begin, Resolve, Fence, Authorize, Publish, Settled,
           Release, Settle, Revoke, RevokeArrives, RevokeCalls, RevokeEnds, ChangeToken, ServeStray, Tick,
           World, Same, Quiet, vars
  <2> QED BY <2>1 DEF Inv, TypeOK
<1>2. \A s \in Sock : conn'[s].lost = conn[s].lost \/ conn'[s].lost = now
  <2>1. ASSUME NEW s \in Sock, (\E replace \in BOOLEAN : Connect(s, replace)) \/ webSocketClose(s) \/ Stamp(s)
        PROVE  \A o \in Sock : conn'[o].lost = conn[o].lost \/ conn'[o].lost = now
    <3>1. CASE \E replace \in BOOLEAN : Connect(s, replace)
      BY <3>1 DEF Connect, Inv, TypeOK, Conn
    <3>2. CASE webSocketClose(s)
      BY <3>2 DEF webSocketClose, Inv, TypeOK, Conn
    <3>3. CASE Stamp(s)
      BY <3>3 DEF Stamp, Inv, TypeOK, Conn
    <3> QED BY <2>1, <3>1, <3>2, <3>3
  <2>2. CASE Begin \/ Resolve \/ Fence \/ Authorize
    BY <2>2, Decides
  <2>3. CASE Publish \/ Settled
    BY <2>3, Publishes
  <2>4. CASE Settle
    BY <2>4, HeadTyped DEF Settle, Inv, TypeOK, Conn
  <2>5. ASSUME \/ \E s \in Sock : Drop(s)
               \/ \E r \in Rev : \/ \E e \in Slug \cup {Root} : Revoke(r, e)
                                 \/ RevokeArrives(r) \/ RevokeCalls(r) \/ RevokeEnds(r)
               \/ \E d \in Device : ChangeToken(d)
               \/ Release \/ ServeStray \/ Tick \/ UNCHANGED vars
        PROVE  conn' = conn
    BY <2>5 DEF Drop, Revoke, RevokeArrives, RevokeCalls, RevokeEnds, World, ChangeToken, Release,
                ServeStray, Tick, vars
  <2> QED BY <2>1, <2>2, <2>3, <2>4, <2>5 DEF Next
<1>3. \A s \in Sock : conn[s].lost \in Nat /\ conn[s].lost <= now
  BY DEF Inv, TypeOK, Conn, ClockBehind
<1>4. \A s \in Sock : conn'[s].lost <= now'
  BY <1>1, <1>2, <1>3
<1>5. record' # NoRecord => record'.seen <= now'
  <2>1. record # NoRecord => record.seen \in Nat /\ record.seen <= now
    BY DEF Inv, TypeOK, Record, ClockBehind
  <2>2. CASE Publish \/ Settled
    <3>1. record' = record \/ record' = [owner |-> SlugOf(me), seen |-> now]
      BY <2>2, Publishes
    <3> QED BY <1>1, <2>1, <3>1
  <2>3. CASE ~ (Publish \/ Settled)
    BY <1>1, <1>3, <2>1, <2>3, RecordKept
  <2> QED BY <2>2, <2>3
<1> QED BY <1>4, <1>5 DEF ClockBehind

--------------------------------------------------------------------------
(* The fence                                                               *)

\* What was seen revoked stays seen until the next register begins.
LEMMA LapsedKept ==
  ASSUME Inv, [Next]_vars
  PROVE  /\ Device \ tokens' \subseteq lapsed'
         /\ ~ Begin => lapsed \subseteq lapsed'
<1>1. Device \ tokens \subseteq lapsed /\ lapsed \subseteq Device
  BY DEF Inv, FenceKept, TypeOK
<1>2. CASE Begin
  BY <1>2 DEF Begin, Quiet
<1>3. CASE Fence
  BY <1>1, <1>3 DEF Fence, Quiet
<1>4. ASSUME NEW d \in Device, ChangeToken(d)
      PROVE  Device \ tokens' \subseteq lapsed' /\ lapsed \subseteq lapsed'
  BY <1>1, <1>4 DEF ChangeToken
<1>5. ASSUME \/ Resolve \/ Authorize \/ Publish \/ Settled \/ Release \/ Settle
             \/ \E s \in Sock : \/ \E replace \in BOOLEAN : Connect(s, replace)
                                \/ Drop(s) \/ webSocketClose(s) \/ Stamp(s)
             \/ \E r \in Rev : \/ \E e \in Slug \cup {Root} : Revoke(r, e)
                               \/ RevokeArrives(r) \/ RevokeCalls(r) \/ RevokeEnds(r)
             \/ ServeStray \/ Tick \/ UNCHANGED vars
      PROVE  UNCHANGED <<tokens, lapsed>>
  BY <1>5 DEF Resolve, Authorize, Publish, Settled, Release, Settle, Connect, Drop, webSocketClose, Stamp,
              Revoke, RevokeArrives, RevokeCalls, RevokeEnds, World, Same, Quiet, ServeStray, Tick, vars
<1> QED BY <1>1, <1>2, <1>3, <1>4, <1>5 DEF Next

\* A connection that may be superseded may still be while the register stays.
LEMMA PassedKept ==
  ASSUME NEW o \in Sock, me \in Sock, me' = me, lapsed \subseteq lapsed', Passed(o),
         \A s \in Sock : conn'[s].device = conn[s].device
  PROVE  Passed(o)'
BY DEF Passed, SlugOf

LEMMA FenceStep == Inv /\ [Next]_vars => FenceKept'
<1> SUFFICES ASSUME Inv, [Next]_vars PROVE FenceKept'
  OBVIOUS
<1>1. Device \ tokens' \subseteq lapsed' /\ (~ Begin => lapsed \subseteq lapsed')
  BY LapsedKept
<1>2. TypeOK /\ reg.others \subseteq Sock
  BY DEF Inv, TypeOK, Reg
<1> SUFFICES ASSUME reg'.at \in {"authorize", "granted"}, NEW o \in reg'.others
             PROVE  Passed(o)'
  BY <1>1 DEF FenceKept
<1>3. CASE Begin \/ Resolve \/ Fence \/ Authorize
  <2>1. /\ UNCHANGED <<conn, queue>> /\ me' = me /\ queue # << >> /\ me \in Sock
    BY <1>2, <1>3, Decides, HeadTyped DEF Registering, me, task
  <2>2. ASSUME o \in Others, Newer(Others) = {} PROVE Passed(o)'
    <3>1. o \in Sock /\ conn[o].device \in Nat /\ conn[me].device \in Nat
      BY <1>2, <2>1, <2>2, SlugTyped DEF Others
    <3>2. \/ conn[o].device \in Legacy \/ conn[me].device \in Legacy
          \/ conn[o].device <= conn[me].device
      BY <2>2, <3>1 DEF Newer
    <3> QED BY <2>1, <3>2 DEF Passed
  <2>3. CASE Begin \/ Resolve
    <3>1. ~ Reject
      BY <1>2, <2>1, Rejected
    <3>2. PICK r \in Reg : Contend(r)
      <4>1. [Start EXCEPT !.at = "resolve", !.prior = record] \in Reg /\ reg \in Reg
        BY <1>2 DEF TypeOK, Start, Reg
      <4>2. ~ Pop /\ ~ Goes([Start EXCEPT !.at = "resolve", !.prior = record])
        <5>1. Start.at = "start" /\ [Start EXCEPT !.at = "resolve", !.prior = record].at = "resolve"
          BY DEF Start
        <5>2. Pop => reg'.at = "start"
          BY <5>1 DEF Pop
        <5>3. Goes([Start EXCEPT !.at = "resolve", !.prior = record]) => reg'.at = "resolve"
          BY <5>1 DEF Goes
        <5> QED BY <5>2, <5>3
      <4> QED BY <2>3, <3>1, <4>1, <4>2 DEF Begin, Resolve, Goes
    <3>3. reg'.others = Others /\ (reg'.at = "authorize" => Newer(Others) = {})
          /\ reg'.at \in {"fence", "authorize"}
      BY <3>1, <3>2, Contended
    <3> QED BY <2>2, <3>3
  <2>4. CASE Fence
    <3>1. ~ Reject
      BY <1>2, <2>1, Rejected
    <3>2. /\ reg'.others = reg.others
          /\ \/ lapsed' = Device
             \/ ~ \E x \in Newer(reg.others) : conn[x].device \in tokens /\ SlugOf(x) = SlugOf(me)
      BY <1>2, <2>4, <3>1 DEF Fence, Goes, TypeOK, Reg
    <3>3. /\ o \in Sock /\ conn[o].device \in Device
          /\ conn[o].device \in Nat /\ conn[me].device \in Nat
      BY <1>2, <2>1, <3>2, SlugTyped
    <3>4. CASE lapsed' = Device
      BY <2>1, <3>3, <3>4 DEF Passed
    <3>5. CASE o \in Newer(reg.others) /\ SlugOf(o) = SlugOf(me) /\ lapsed' # Device
      BY <1>1, <2>1, <2>4, <3>2, <3>3, <3>5 DEF Passed, Fence, Quiet
    <3>6. CASE SlugOf(o) # SlugOf(me)
      BY <2>1, <3>6 DEF Passed, SlugOf
    <3>7. CASE o \notin Newer(reg.others)
      BY <2>1, <3>2, <3>3, <3>7 DEF Passed, Newer
    <3> QED BY <3>4, <3>5, <3>6, <3>7
  <2>5. CASE Authorize
    <3>1. ~ Reject
      BY <1>2, <2>1, Rejected
    <3>2. reg'.others = reg.others /\ reg.at = "authorize" /\ lapsed' = lapsed
      BY <1>2, <2>5, <3>1 DEF Authorize, Runs, Same, Goes, TypeOK, Reg
    <3>3. Passed(o) /\ o \in Sock
      BY <1>2, <3>2 DEF Inv, FenceKept
    <3> QED BY <2>1, <3>2, <3>3, PassedKept
  <2> QED BY <1>3, <2>3, <2>4, <2>5
<1>4. CASE Publish \/ Settled
  BY <1>4, Publishes
<1>5. CASE Release
  BY <1>5 DEF Release, Pop, Start
<1>6. CASE Settle
  BY <1>6 DEF Settle, Inv, AtRest, Registering
<1>7. CASE ~ (Begin \/ Resolve \/ Fence \/ Authorize \/ Publish \/ Settled \/ Release \/ Settle)
  <2>1. reg' = reg
    BY <1>7, OtherSteps
  <2>2. me' = me /\ queue # << >> /\ me \in Sock
    BY <1>2, <1>7, <2>1, LocalsKept, HeadTyped DEF Inv, AtRest, Registering
  <2>3. Passed(o) /\ o \in Sock
    BY <1>2, <2>1 DEF Inv, FenceKept
  <2>4. \A s \in Sock : conn'[s].device = conn[s].device
    BY <1>7, NoneRegisters
  <2> QED BY <1>1, <1>7, <2>2, <2>3, <2>4, PassedKept
<1> QED BY <1>3, <1>4, <1>5, <1>6, <1>7

--------------------------------------------------------------------------
(* The slots                                                               *)

\* Only the release of a register takes a slot of a record that stays: a
\* revocation clears the record it took it for, and what comes late is noted.
LEMMA CountsKept ==
  ASSUME Inv, [Next]_vars, ~ Release, NEW a, Counts(a)
  PROVE  Counts(a)' \/ (record' = NoRecord /\ up' = {})
<1> DEFINE Kept == slot \cup misfreed \subseteq slot' \cup misfreed'
           StillClearing == Clearing => Clearing'
<1>1. Kept /\ StillClearing => Counts(a)'
  BY DEF Counts
<1>2. rev \in [Rev -> Revocation]
  BY DEF Inv, TypeOK
<1>3. CASE Authorize
  <2>1. Kept /\ rev' = rev
    BY <1>3 DEF Authorize, Same, Quiet
  <2> QED BY <1>1, <2>1 DEF Clearing
<1>4. CASE ServeStray
  <2>1. Kept /\ rev' = rev
    BY <1>4 DEF ServeStray
  <2> QED BY <1>1, <2>1 DEF Clearing
<1>5. ASSUME NEW r \in Rev, NEW e \in Slug \cup {Root}, Revoke(r, e) PROVE Counts(a)'
  <2>1. Kept /\ rev[r].at = "idle" /\ \A q \in Rev \ {r} : rev'[q] = rev[q]
    BY <1>2, <1>5 DEF Revoke, slots
  <2> QED BY <1>1, <2>1 DEF Clearing
<1>6. ASSUME NEW r \in Rev, RevokeArrives(r) PROVE Counts(a)'
  <2>1. Kept /\ rev[r].at = "sent" /\ \A q \in Rev \ {r} : rev'[q] = rev[q]
    BY <1>2, <1>6 DEF RevokeArrives, Clear, slots
  <2> QED BY <1>1, <2>1 DEF Clearing
<1>7. ASSUME NEW r \in Rev, RevokeCalls(r) PROVE Counts(a)'
  BY <1>2, <1>7 DEF RevokeCalls, Revocation, Counts, Clearing
<1>8. ASSUME NEW r \in Rev, RevokeEnds(r) PROVE record' = NoRecord /\ up' = {}
  BY <1>8 DEF RevokeEnds, Clear
<1>9. ASSUME \/ Begin \/ Resolve \/ Fence \/ Publish \/ Settled \/ Settle
             \/ \E s \in Sock : \/ \E replace \in BOOLEAN : Connect(s, replace)
                                \/ Drop(s) \/ webSocketClose(s) \/ Stamp(s)
             \/ \E d \in Device : ChangeToken(d)
             \/ Tick \/ UNCHANGED vars
      PROVE  Counts(a)'
  <2>1. Kept /\ rev' = rev
    BY <1>9 DEF Begin, Resolve, Fence, Publish, Settled, Settle, Connect, Drop, webSocketClose, Stamp,
                ChangeToken, Tick, Same, Quiet, vars, slots
  <2> QED BY <1>1, <2>1 DEF Clearing
<1> QED BY <1>3, <1>4, <1>5, <1>6, <1>7, <1>8, <1>9 DEF Next

\* No record is counted as none.
LEMMA RecordNamed == ASSUME NEW x \in Record PROVE x # NoRecord
BY ReservationAssumption DEF Record

LEMMA CountedStep == Inv /\ [Next]_vars => Counted'
<1> SUFFICES ASSUME Inv, [Next]_vars PROVE Counted'
  OBVIOUS
<1> DEFINE R == (record # NoRecord => Counts(record.owner))'
           M == (reg.at \in {"granted", "published"} /\ me \in up => Counts(SlugOf(me)))'
<1>1. TypeOK /\ \A s \in Sock : conn[s].device = conn'[s].device
  <2>1. CASE Publish \/ Settled
    BY <2>1, Publishes DEF Inv
  <2>2. CASE ~ (Publish \/ Settled)
    BY <2>2, NoneRegisters DEF Inv
  <2> QED BY <2>1, <2>2
<1>2. CASE Release
  <2>1. /\ record' = record /\ rev' = rev /\ misfreed' = misfreed /\ reg'.at = "start"
        /\ slot \ {reg.prior.owner} \subseteq slot' /\ reg.at = "release"
    BY <1>2 DEF Release, Runs, ReleaseId, Same, Quiet, Pop, Start
  <2>2. record # NoRecord => record.owner # reg.prior.owner
    BY <2>1 DEF Inv, Named
  <2>3. R
    <3> SUFFICES ASSUME record # NoRecord PROVE Counts(record.owner)'
      BY <2>1
    <3>1. Counts(record.owner) /\ record.owner # reg.prior.owner
      BY <2>2 DEF Inv, Counted
    <3> QED BY <2>1, <3>1 DEF Counts, Clearing
  <2> QED BY <2>1, <2>3 DEF Counted
<1>3. CASE Publish \/ Settled
  <2>1. /\ me \in Sock /\ UNCHANGED <<slot, misfreed, rev>> /\ ~ Release
    BY <1>3, Publishes DEF Release, Runs
  <2>2. ASSUME NEW a PROVE Counts(a)' <=> Counts(a)
    BY <2>1 DEF Counts, Clearing
  <2>3. me \in up => Counts(SlugOf(me))
    BY <1>3, Publishes DEF Inv, Counted
  <2>4. CASE me \in up /\ record' = [owner |-> SlugOf(me), seen |-> now] /\ reg'.at \in {"start", "release"}
    <3>1. record'.owner = SlugOf(me)
      BY <2>4
    <3> QED BY <2>2, <2>3, <2>4, <3>1 DEF Counted
  <2>5. CASE record' = record /\ reg'.at = "start"
    BY <2>2, <2>5 DEF Inv, Counted
  <2>6. CASE record' = record /\ queue' = queue /\ reg'.at = "published"
    <3>1. me' = me /\ SlugOf(me)' = SlugOf(me) /\ up' \subseteq up
      BY <1>1, <1>3, <2>1, <2>6, Publishes DEF me, task, SlugOf
    <3> QED BY <2>2, <2>3, <2>6, <3>1 DEF Inv, Counted
  <2> QED BY <1>3, <2>4, <2>5, <2>6, Publishes
<1>4. CASE ~ Release /\ ~ (Publish \/ Settled)
  <2>1. \A a : Counts(a) => Counts(a)' \/ (record' = NoRecord /\ up' = {})
    BY <1>4, CountsKept
  <2>2. R
    <3> SUFFICES ASSUME record' # NoRecord PROVE Counts(record.owner)'
      OBVIOUS
    <3>1. PICK a : a = record'.owner
      OBVIOUS
    <3>2. record # NoRecord /\ record.owner = a
      BY <1>4, <3>1, RecordKept
    <3>3. Counts(a) 
      BY <3>2 DEF Inv, Counted
    <3>4. Counts(a)'
      BY <2>1, <3>3
    <3> QED BY <3>1, <3>4 DEF Counts
  <2>3. M
    <3> SUFFICES ASSUME reg'.at \in {"granted", "published"}, me' \in up' PROVE Counts(SlugOf(me))'
      OBVIOUS
    <3>1. CASE Authorize
      <4>1. me' = me /\ me \in Sock /\ up' = up /\ conn' = conn
        BY <1>1, <3>1, Decides, HeadTyped DEF Registering, me, task
      <4>2. SlugOf(me) \in slot'
        BY <1>1, <3>1, <4>1, Rejected DEF Authorize, Runs
      <4> QED BY <4>1, <4>2 DEF Counts, SlugOf
    <3>2. CASE Begin \/ Resolve \/ Fence
      <4>1. Reject => reg'.at = "start"
        BY <1>1, <3>2, Rejected DEF Begin, Resolve, Fence, Runs
      <4>3. ASSUME NEW r \in Reg, Contend(r) PROVE FALSE
        BY <4>1, <4>3, Contended
      <4>4. [Start EXCEPT !.at = "resolve", !.prior = record] \in Reg /\ reg \in Reg
        BY <1>1 DEF TypeOK, Start, Reg
      <4>5. ~ Pop /\ ~ Goes([Start EXCEPT !.at = "resolve", !.prior = record])
            /\ ~ Goes([reg EXCEPT !.at = "authorize"])
        <5>1. /\ Start.at = "start" /\ [reg EXCEPT !.at = "authorize"].at = "authorize"
              /\ [Start EXCEPT !.at = "resolve", !.prior = record].at = "resolve"
          BY <4>4 DEF Start, Reg
        <5>2. Pop => reg'.at = "start"
          BY <5>1 DEF Pop
        <5>3. Goes([Start EXCEPT !.at = "resolve", !.prior = record]) => reg'.at = "resolve"
          BY <5>1 DEF Goes
        <5>4. Goes([reg EXCEPT !.at = "authorize"]) => reg'.at = "authorize"
          BY <5>1 DEF Goes
        <5> QED BY <5>2, <5>3, <5>4
      <4> QED BY <3>2, <4>1, <4>3, <4>4, <4>5 DEF Begin, Resolve, Fence
    <3>3. CASE Settle
      BY <3>3 DEF Settle, Inv, AtRest, Registering
    <3>4. CASE ~ (Begin \/ Resolve \/ Fence \/ Authorize \/ Publish \/ Settled \/ Release \/ Settle)
      <4>1. reg' = reg
        BY <3>4, OtherSteps
      <4>2. me' = me /\ me \in Sock
        BY <1>1, <3>4, <4>1, LocalsKept, HeadTyped DEF Inv, AtRest, Registering
      <4>3. SlugOf(me)' = SlugOf(me)
        BY <1>1, <4>2 DEF SlugOf
      <4>4. me \in up
        <5>1. conn[me].state # "none" /\ up' \subseteq up \cup {s \in Sock : conn[s].state = "none"}
          <6>1. conn[me].state # "none"
            <7>1. queue # << >>
              BY <3>4, <4>1 DEF Inv, AtRest, Registering
            <7>2. 1 \in DOMAIN queue /\ me = queue[1].sock
              BY <1>1, <7>1, HeadTyped DEF me
            <7> QED BY <7>2 DEF Inv, Queued
          <6>2. up' \subseteq up \cup {s \in Sock : conn[s].state = "none"}
            BY <3>4 DEF Next, Connect, Drop, webSocketClose, Stamp, Revoke, RevokeArrives, RevokeCalls,
                        RevokeEnds, Clear, ChangeToken, ServeStray, Tick, vars
          <6> QED BY <6>1, <6>2
        <5> QED BY <4>2, <5>1
      <4> QED BY <2>1, <4>1, <4>2, <4>3, <4>4 DEF Inv, Counted
    <3> QED BY <1>4, <3>1, <3>2, <3>3, <3>4
  <2> QED BY <2>2, <2>3 DEF Counted
<1> QED BY <1>2, <1>3, <1>4

LEMMA NamedStep == Inv /\ [Next]_vars => Named'
<1> SUFFICES ASSUME Inv, [Next]_vars PROVE Named'
  OBVIOUS
<1> DEFINE Asked == (\A r \in Rev : rev[r].at = "calling" => rev[r].owner \in Slug)'
           Given == (reg.at = "release" => /\ reg.prior # NoRecord /\ reg.prior.owner # SlugOf(me)
                                           /\ record = NoRecord \/ record.owner = SlugOf(me))'
<1>1. TypeOK /\ rev \in [Rev -> Revocation]
  BY DEF Inv, TypeOK
<1>2. Asked
  <2>1. ASSUME NEW r \in Rev, NEW e \in Slug \cup {Root}, Revoke(r, e) PROVE Asked
    BY <1>1, <2>1 DEF Revoke, Inv, Named
  <2>2. ASSUME NEW r \in Rev, RevokeArrives(r) PROVE Asked
    <3>1. record # NoRecord => record.owner \in Slug
      BY <1>1 DEF TypeOK, Record
    <3>2. \A q \in Rev \ {r} : rev'[q] = rev[q]
      BY <1>1, <2>2 DEF RevokeArrives, Clear
    <3>3. rev'[r].at = "calling" => rev'[r].owner \in Slug
      <4>1. CASE rev' = [rev EXCEPT ![r].at = "done"]
        BY <1>1, <4>1 DEF Revocation
      <4>2. CASE record # NoRecord /\ rev' = [rev EXCEPT ![r].at = "calling", ![r].owner = record.owner]
        BY <1>1, <3>1, <4>2 DEF Revocation
      <4> QED BY <2>2, <4>1, <4>2 DEF RevokeArrives, Clear
    <3> QED BY <3>2, <3>3 DEF Inv, Named
  <2>3. ASSUME NEW r \in Rev, RevokeCalls(r) \/ RevokeEnds(r) PROVE Asked
    <3>1. \A q \in Rev \ {r} : rev'[q] = rev[q]
      BY <1>1, <2>3 DEF RevokeCalls, RevokeEnds, Clear
    <3>2. rev'[r].at # "calling"
      BY <1>1, <2>3 DEF RevokeCalls, RevokeEnds, Clear, Revocation
    <3> QED BY <3>1, <3>2 DEF Inv, Named
  <2>4. CASE rev' = rev
    BY <2>4 DEF Inv, Named
  <2>5. ASSUME \/ Begin \/ Resolve \/ Fence \/ Authorize \/ Publish \/ Settled \/ Release \/ Settle
               \/ \E s \in Sock : \/ \E replace \in BOOLEAN : Connect(s, replace)
                                  \/ Drop(s) \/ webSocketClose(s) \/ Stamp(s)
               \/ \E d \in Device : ChangeToken(d)
               \/ ServeStray \/ Tick \/ UNCHANGED vars
        PROVE  rev' = rev
    BY <2>5 DEF Begin, Resolve, Fence, Authorize, Publish, Settled, Release, Settle, Connect, Drop,
                webSocketClose, Stamp, ChangeToken, ServeStray, Tick, Same, Quiet, vars
  <2> QED BY <2>1, <2>2, <2>3, <2>4, <2>5 DEF Next
<1>3. Given
  <2>1. CASE Begin \/ Resolve \/ Fence \/ Authorize
    BY <2>1, Decides
  <2>2. CASE Publish \/ Settled
    <3> SUFFICES ASSUME reg'.at = "release" PROVE Given
      OBVIOUS
    <3>1. /\ me \in Sock /\ queue' = queue /\ reg'.prior = reg.prior
          /\ record' = [owner |-> SlugOf(me), seen |-> now]
          /\ reg.prior # NoRecord /\ reg.prior.owner # SlugOf(me)
      BY <2>2, Publishes
    <3>2. me' = me /\ SlugOf(me)' = SlugOf(me)
      BY <2>2, <3>1, Publishes DEF me, task, SlugOf
    <3>3. record'.owner = SlugOf(me)
      BY <3>1
    <3> QED BY <3>1, <3>2, <3>3
  <2>3. CASE Release
    BY <2>3 DEF Release, Pop, Start
  <2>4. CASE Settle
    BY <2>4 DEF Settle, Inv, AtRest, Registering
  <2>5. CASE ~ (Begin \/ Resolve \/ Fence \/ Authorize \/ Publish \/ Settled \/ Release \/ Settle)
    <3> SUFFICES ASSUME reg'.at = "release" PROVE Given
      OBVIOUS
    <3>1. reg' = reg /\ reg.at = "release"
      BY <2>5, OtherSteps
    <3>2. me' = me /\ me \in Sock
      BY <1>1, <2>5, <3>1, LocalsKept, HeadTyped DEF Inv, AtRest, Registering
    <3>3. SlugOf(me)' = SlugOf(me)
      BY <2>5, <3>2, NoneRegisters DEF SlugOf
    <3>4. record' = NoRecord \/ record' = record \/ (record # NoRecord /\ record'.owner = record.owner)
      BY <2>5, RecordKept
    <3> QED BY <3>1, <3>2, <3>3, <3>4 DEF Inv, Named
  <2> QED BY <2>1, <2>2, <2>3, <2>4, <2>5
<1> QED BY <1>2, <1>3 DEF Named

--------------------------------------------------------------------------
LEMMA InitHolds == Init => Inv
<1> SUFFICES ASSUME Init PROVE Inv
  OBVIOUS
<1>1. TypeOK
  BY InitTyped
<1>2. \A s \in Sock : conn[s].state = "none" /\ conn[s].lost = 0
  BY DEF Init
<1>3. Queued /\ AtRest /\ Named
  BY DEF Init, Queued, AtRest, Named, Start
<1>4. OneRegistered /\ OthersKnown
  BY <1>2 DEF Init, OneRegistered, Registered, OthersKnown, Deciding, Start
<1>5. Owned /\ ClockBehind
  BY <1>2 DEF Init, Owned, ctl, ClockBehind
<1>6. FenceKept /\ Counted
  BY DEF Init, FenceKept, Counted, Start
<1> QED BY <1>1, <1>3, <1>4, <1>5, <1>6 DEF Inv

LEMMA InvHolds == Spec => []Inv
<1>1. Inv /\ [Next]_vars => Inv'
  BY TypeStep, QueuedStep, AtRestStep, OneRegisteredStep, OthersKnownStep, OwnedStep, ClockStep,
     FenceStep, CountedStep, NamedStep DEF Inv
<1> QED BY InitHolds, <1>1, PTL DEF Spec

(* Every variable keeps its type: a connection that is OPEN is accepted or  *)
(* registered, through every takeover, loss, refusal and revocation.        *)
THEOREM TypeCorrect == Spec => []TypeOK
<1>1. Inv => TypeOK
  BY DEF Inv
<1> QED BY InvHolds, <1>1, PTL

(* One connection serves the id and, between handlers, one of the account   *)
(* its record names: for every number of connections and revocations.       *)
THEOREM OneOwnerServes == Spec => []ServedByOwner
<1>1. Inv => ServedByOwner
  <2> SUFFICES ASSUME Inv PROVE ServedByOwner
    OBVIOUS
  <2>1. \A s, o \in ctl : s = o
    BY DEF Inv, OneRegistered, ctl, TypeOK
  <2>2. ASSUME Idle, NEW s \in ctl PROVE record # NoRecord /\ record.owner = SlugOf(s)
    BY <2>2 DEF Idle, Inv, Owned, AtRest, Registering
  <2> QED BY <2>1, <2>2 DEF ServedByOwner
<1> QED BY InvHolds, <1>1, PTL

(* The account a record names counts the id, whatever calls are lost, but   *)
(* for the accounts that a late /release-id reached.                        *)
THEOREM HeldIsCounted == Spec => []RecordHasSlot
<1>1. Inv => RecordHasSlot
  <2> SUFFICES ASSUME Inv, Idle, record # NoRecord PROVE record.owner \in slot \cup misfreed
    BY DEF RecordHasSlot
  <2>1. ~ Clearing
    BY DEF Idle, Clearing
  <2> QED BY <2>1 DEF Inv, Counted, Counts
<1> QED BY InvHolds, <1>1, PTL

(* The idle clock of an owner is not set back, by a claim or by a           *)
(* disconnect that was settled late.                                        *)
THEOREM ClockNeverSetBack == Spec => ClockMonotone
<1>1. Inv /\ [Next]_vars => [record # NoRecord /\ record' # NoRecord /\ record'.owner = record.owner
                               => record'.seen >= record.seen]_vars
  <2> SUFFICES ASSUME Inv, [Next]_vars, record # NoRecord, record' # NoRecord
               PROVE  record'.seen >= record.seen
    OBVIOUS
  <2>1. now \in Nat /\ record.seen \in Nat /\ record.seen <= now
    BY DEF Inv, TypeOK, Record, ClockBehind
  <2>2. CASE Publish \/ Settled
    <3>1. record' = record \/ record' = [owner |-> SlugOf(me), seen |-> now]
      BY <2>2, Publishes
    <3> QED BY <2>1, <3>1
  <2>3. CASE ~ (Publish \/ Settled)
    <3>1. record' = record \/ \E s \in Sock : record.seen <= conn[s].lost /\ record'.seen = conn[s].lost
      BY <2>3, RecordKept
    <3>2. \A s \in Sock : conn[s].lost \in Nat
      BY DEF Inv, TypeOK, Conn
    <3> QED BY <2>1, <3>1, <3>2
  <2> QED BY <2>2, <2>3
<1> QED BY InvHolds, <1>1, PTL DEF Spec, ClockMonotone

(* An older device takes over from a newer one of its account only if the   *)
(* token of the newer was seen revoked, or not looked up, meanwhile.        *)
THEOREM NewestIsFenced == Spec => FencedToNewest
<1>1. Inv /\ [Next]_vars => [\A o \in Sock : Registered(o) /\ conn'[o].state = "superseded"
                               => \/ SlugOf(o) # SlugOf(me)
                                  \/ conn[o].device \in Legacy \/ conn[me].device \in Legacy
                                  \/ conn[o].device <= conn[me].device
                                  \/ conn[o].device \in lapsed]_vars
  <2> SUFFICES ASSUME Inv, [Next]_vars, NEW o \in Sock, Registered(o), conn'[o].state = "superseded"
               PROVE  Passed(o)
    BY DEF Passed
  <2>1. CASE Publish
    <3>1. reg.at = "granted" /\ o \in reg.others
      <4>1. TypeOK /\ queue # << >> /\ reg.at = "granted"
        BY <2>1 DEF Publish, Runs, Inv
      <4>2. conn'[o].state = "superseded" => Supersede[o].state = "superseded"
        <5>1. CASE Claim(Supersede)
          <6>1. Supersede \in [Sock -> Conn] /\ me \in Sock
            BY <4>1, Superseded, HeadTyped
          <6> QED BY <4>1, <5>1, <6>1, Claimed
        <5>2. CASE conn' = Supersede
          BY <5>2
        <5> QED BY <2>1, <5>1, <5>2 DEF Publish
      <4> QED BY <4>1, <4>2, Superseded DEF Registered
    <3> QED BY <3>1 DEF Inv, FenceKept
  <2>2. CASE Settled
    <3>1. o = me /\ me \in Sock /\ TypeOK /\ queue # << >>
      BY <2>2, HeadTyped DEF Settled, Runs, Inv, OthersKnown, Others
    <3> QED BY <2>2, <3>1, SlugTyped DEF Passed
  <2>3. CASE Begin \/ Resolve \/ Fence \/ Authorize
    BY <2>3, Decides DEF Registered
  <2>4. ASSUME NEW s \in Sock, \/ \E replace \in BOOLEAN : Connect(s, replace)
                               \/ Drop(s) \/ webSocketClose(s) \/ Stamp(s)
        PROVE  FALSE
    BY <2>4 DEF Connect, Drop, webSocketClose, Stamp, Registered, Inv, TypeOK, Conn
  <2>5. CASE Settle
    BY <2>5, HeadTyped DEF Settle, Registered, Inv, TypeOK, Conn
  <2>6. ASSUME \/ \E r \in Rev : \/ \E e \in Slug \cup {Root} : Revoke(r, e)
                                 \/ RevokeArrives(r) \/ RevokeCalls(r) \/ RevokeEnds(r)
               \/ \E d \in Device : ChangeToken(d)
               \/ Release \/ ServeStray \/ Tick \/ UNCHANGED vars
        PROVE  FALSE
    BY <2>6 DEF Revoke, RevokeArrives, RevokeCalls, RevokeEnds, World, ChangeToken, Release,
                ServeStray, Tick, vars, Registered
  <2> QED BY <2>1, <2>2, <2>3, <2>4, <2>5, <2>6 DEF Next
<1> QED BY InvHolds, <1>1, PTL DEF Spec, FencedToNewest
=============================================================================

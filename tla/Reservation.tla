---------------------------- MODULE Reservation ----------------------------
(* Who owns one tunnel id (src/server-cf/src/tunnel-do.ts): the record in  *)
(* the storage of its TunnelDO, the slot each account counts for the id,   *)
(* and the control connection that serves it.                              *)
(*                                                                         *)
(* Registers run one at a time on accountChain and await the registry and  *)
(* the account.  Revocations of the reservation are not on the chain: they *)
(* await the account while registers go on.                                *)
EXTENDS Naturals, Sequences, FiniteSets

CONSTANTS
  Slug,        \* accounts
  Device,      \* credentials; a number ranks them by createdAt
  Account,     \* the account of each device
  Legacy,      \* the devices that present TUNNEL_SECRET
  Sock,        \* control connections
  Rev,         \* revocations of the reservation
  Root,        \* the expected owner of a revocation by root: none
  NoRecord,    \* no reservation
  Ttl,         \* RESERVATION_IDLE_TTL_DAYS
  MaxNow,      \* bound on the clock
  MaxQueue,    \* bound on the queued tasks
  MaxTokens,   \* bound on the changes made to tokens
  Unreliable   \* the calls of a register or a revocation that may be given up

ASSUME ReservationAssumption ==
  /\ Device \subseteq Nat /\ Account \in [Device -> Slug] /\ Legacy \subseteq Device
  /\ Root \notin Slug /\ NoRecord \notin [owner : Slug, seen : Nat] /\ Ttl \in Nat /\ MaxNow \in Nat /\ MaxQueue \in Nat
  /\ MaxTokens \in Nat /\ Unreliable \subseteq {"resolve", "fence", "authorize", "release"}

VARIABLES
  now,
  record,    \* the reservation in storage
  slot,      \* the accounts that count the id as reserved
  tokens,    \* the devices whose token is not revoked
  changes,   \* how often tokens changed
  conn,      \* each connection: device, state of its attachment, time of its loss
  up,        \* the connections whose readyState is OPEN
  queue,     \* tasks of accountChain: registers and settlements
  reg,       \* the locals of the register at the head
  rev,       \* each revocation
  stray,     \* accounts a /release-id that timed out is still on its way to
  lapsed,    \* history: devices seen revoked, or not looked up, by the head register
  misfreed   \* history: accounts that a late /release-id reached

slots == <<slot, stray, misfreed>>
vars == <<now, record, tokens, changes, conn, up, queue, reg, rev, lapsed, slots>>

Record == [owner : Slug, seen : Nat]
Task == [kind : {"register", "settle"}, sock : Sock, replace : BOOLEAN]
Conn == [device : Device, lost : Nat,
         state : {"none", "accepted", "registered", "superseded", "closing", "settled", "closed"}]

\* The locals of a register: where it is, the record it read, the connections
\* it found registered.
Reg == [at : {"start", "resolve", "fence", "authorize", "granted", "published", "release"},
        prior : Record \cup {NoRecord}, others : SUBSET Sock]
Start == [at |-> "start", prior |-> NoRecord, others |-> {}]

Revocation == [at : {"idle", "sent", "calling", "released", "done"},
               expect : Slug \cup {Root}, owner : Slug \cup {Root}]

--------------------------------------------------------------------------
SlugOf(s) == Account[conn[s].device]
Registered(s) == conn[s].state = "registered"
ctl == {s \in up : Registered(s)}

\* What a register of this account may do to the record.
reservationDecision(rec, slug) ==
  IF rec = NoRecord THEN "claim"
  ELSE IF rec.owner = slug THEN "refresh"
  ELSE IF now - rec.seen > Ttl THEN "reclaim" ELSE "reject"

Init ==
  /\ now = 0 /\ record = NoRecord /\ slot = {}
  /\ tokens = Device /\ changes = 0
  /\ conn \in [Sock -> {[device |-> d, lost |-> 0, state |-> "none"] : d \in Device}]
  /\ up = {} /\ queue = << >> /\ reg = Start
  /\ rev = [r \in Rev |-> [at |-> "idle", expect |-> Root, owner |-> Root]]
  /\ stray = {} /\ lapsed = {} /\ misfreed = {}

--------------------------------------------------------------------------
(* The world                                                               *)

Tick == /\ now < MaxNow /\ now' = now + 1
        /\ UNCHANGED <<record, tokens, changes, conn, up, queue, reg, rev, lapsed, slots>>

\* revokeToken and restoreOwnToken of the registry.
ChangeToken(d) ==
  /\ d \notin Legacy /\ changes < MaxTokens
  /\ changes' = changes + 1
  /\ tokens' = IF d \in tokens THEN tokens \ {d} ELSE tokens \cup {d}
  /\ lapsed' = IF d \in tokens THEN lapsed \cup {d} ELSE lapsed
  /\ UNCHANGED <<now, record, conn, up, queue, reg, rev, slots>>

\* acceptControl, then the register frame.
Connect(s, replace) ==
  /\ conn[s].state = "none" /\ Len(queue) < MaxQueue
  /\ conn' = [conn EXCEPT ![s].state = "accepted"]
  /\ up' = up \cup {s}
  /\ queue' = Append(queue, [kind |-> "register", sock |-> s, replace |-> replace])
  /\ UNCHANGED <<now, record, tokens, changes, reg, rev, lapsed, slots>>

Drop(s) ==
  /\ s \in up /\ up' = up \ {s}
  /\ UNCHANGED <<now, record, tokens, changes, conn, queue, reg, rev, lapsed, slots>>

--------------------------------------------------------------------------
(* register                                                                *)

task == Head(queue)
me == task.sock
Runs(at) == queue # << >> /\ task.kind = "register" /\ reg.at = at

Pop == queue' = Tail(queue) /\ reg' = Start
Goes(r) == queue' = queue /\ reg' = r

\* Mutant: an error frame, the connection left open.
RejectOpen == /\ conn' = [conn EXCEPT ![me].state = "closed"]
              /\ up' = up /\ Pop

\* An error frame and close().
Reject == /\ conn' = [conn EXCEPT ![me].state = "closed"]
          /\ up' = up \ {me} /\ Pop

Quiet == UNCHANGED <<now, tokens, changes, rev>>
Same == Quiet /\ lapsed' = lapsed

\* Mutant: only connections that are not OPEN looked for.
OthersGone == {o \in Sock \ {me} : Registered(o) /\ o \notin up}

Others == {o \in Sock \ {me} : Registered(o)}

\* The connections of a newer device credential.
Newer(others) == {o \in others : /\ conn[o].device \notin Legacy /\ conn[me].device \notin Legacy
                                 /\ conn[o].device > conn[me].device}

\* The credential was accepted: who else is registered?
Contend(r) ==
  LET found == [r EXCEPT !.others = Others]
  IN  IF Others # {} /\ ~ task.replace THEN Reject
      ELSE /\ IF Newer(Others) # {}
              THEN Goes([found EXCEPT !.at = "fence"])
              ELSE Goes([found EXCEPT !.at = "authorize"])
           /\ UNCHANGED <<conn, up>>

Begin ==
  LET r == [Start EXCEPT !.at = "resolve", !.prior = record]
  IN  /\ Runs("start")
      /\ \/ /\ me \notin up
            /\ Pop /\ UNCHANGED <<conn, up>>
         \/ /\ me \in up /\ reservationDecision(record, SlugOf(me)) = "reject"
            /\ Reject
         \/ /\ me \in up /\ reservationDecision(record, SlugOf(me)) # "reject"
            /\ IF conn[me].device \in Legacy THEN Contend(r)
               ELSE Goes(r) /\ UNCHANGED <<conn, up>>
      /\ lapsed' = Device \ tokens
      /\ Quiet /\ UNCHANGED <<record, slots>>

\* /resolve-device-credential of the presented token.
Resolve ==
  /\ Runs("resolve")
  /\ \/ conn[me].device \in tokens /\ Contend(reg)
     \/ ("resolve" \in Unreliable \/ conn[me].device \notin tokens) /\ Reject
  /\ Same /\ UNCHANGED <<record, slots>>

\* Mutant: the newer device not looked up.
FenceOpen ==
  /\ Runs("fence")
  /\ Goes([reg EXCEPT !.at = "authorize"]) /\ UNCHANGED <<conn, up>>
  /\ Same /\ UNCHANGED <<record, slots>>

\* Whether a newer device that is connected still has its token; the lookup is
\* made for the account of the newcomer, and no answer counts as no.
Fence ==
  LET fenced == \E o \in Newer(reg.others) : /\ conn[o].device \in tokens
                                             /\ SlugOf(o) = SlugOf(me)
  IN  /\ Runs("fence")
      /\ \/ fenced /\ Reject /\ lapsed' = lapsed
         \/ /\ \/ ~ fenced /\ lapsed' = lapsed
               \/ "fence" \in Unreliable /\ lapsed' = Device
            /\ Goes([reg EXCEPT !.at = "authorize"]) /\ UNCHANGED <<conn, up>>
      /\ Quiet /\ UNCHANGED <<record, slots>>

\* /authorize: the account admits the id and counts it, or refuses for a reason
\* of its own (AccountLedger); a reply that is not read refuses too.
Authorize ==
  /\ Runs("authorize")
  /\ \/ /\ slot' = slot \cup {SlugOf(me)} /\ misfreed' = misfreed \ {SlugOf(me)}
        /\ \/ Goes([reg EXCEPT !.at = "granted"]) /\ UNCHANGED <<conn, up>>
           \/ "authorize" \in Unreliable /\ Reject
     \/ UNCHANGED <<slot, misfreed>> /\ Reject
  /\ Same /\ UNCHANGED <<record, stray>>

\* Mutant: the slot given up whenever there was a record.
ClaimReleases(c) ==
  IF me \in up
  THEN /\ record' = [owner |-> SlugOf(me), seen |-> now]
       /\ conn' = c /\ up' = up \ reg.others
       /\ IF reg.prior # NoRecord THEN Goes([reg EXCEPT !.at = "release"]) ELSE Pop
  ELSE /\ record' = record
       /\ conn' = [c EXCEPT ![me].state = "closed"] /\ up' = up \ reg.others
       /\ Pop

\* The successor's attachment is written and, if it is still connected, its
\* reservation.
Claim(c) ==
  IF me \in up
  THEN /\ record' = [owner |-> SlugOf(me), seen |-> now]
       /\ conn' = c /\ up' = up \ reg.others
       /\ IF reg.prior # NoRecord /\ reg.prior.owner # SlugOf(me)
          THEN Goes([reg EXCEPT !.at = "release"]) ELSE Pop
  ELSE /\ record' = record
       /\ conn' = [c EXCEPT ![me].state = "closed"] /\ up' = up \ reg.others
       /\ Pop

Supersede == [s \in Sock |-> IF s \in reg.others THEN [conn[s] EXCEPT !.state = "superseded"]
                             ELSE IF s = me THEN [conn[s] EXCEPT !.state = "registered"]
                             ELSE conn[s]]

\* The handoff; a predecessor of another account is settled before the claim.
Publish ==
  /\ Runs("granted")
  /\ \/ Claim(Supersede)
     \/ /\ \E o \in Sock : SlugOf(o) # SlugOf(me) /\ conn[o].state # "none"
        /\ conn' = Supersede /\ up' = up \ reg.others
        /\ Goes([reg EXCEPT !.at = "published"]) /\ record' = record
  /\ Same /\ UNCHANGED slots

Settled ==
  /\ Runs("published")
  /\ Claim(conn)
  /\ Same /\ UNCHANGED slots

\* A call to /release-id: served, lost, or served later.
ReleaseId(a) ==
  /\ \/ slot' = slot \ {a} /\ stray' = stray
     \/ "release" \in Unreliable /\ slot' = slot /\ stray' \in {stray, stray \cup {a}}
  /\ UNCHANGED misfreed

\* The slot of the account the id was reclaimed from.
Release ==
  /\ Runs("release")
  /\ ReleaseId(reg.prior.owner)
  /\ Pop
  /\ Same /\ UNCHANGED <<record, conn, up>>

ServeStray ==
  \E a \in stray : /\ slot' = slot \ {a} /\ stray' = stray \ {a}
                   /\ misfreed' = misfreed \cup {a}
                   /\ UNCHANGED <<now, record, tokens, changes, conn, up, queue, reg, rev, lapsed>>

--------------------------------------------------------------------------
(* A lost connection                                                       *)

webSocketClose(s) ==
  /\ s \notin up /\ Registered(s)
  /\ conn' = [conn EXCEPT ![s].state = "closing", ![s].lost = now]
  /\ queue' = Append(queue, [kind |-> "settle", sock |-> s, replace |-> FALSE])
  /\ UNCHANGED <<now, record, tokens, changes, up, reg, rev, lapsed, slots>>

Settle ==
  /\ queue # << >> /\ task.kind = "settle"
  /\ queue' = Tail(queue) /\ conn' = [conn EXCEPT ![me].state = "settled"]
  /\ UNCHANGED <<now, record, tokens, changes, up, reg, rev, lapsed, slots>>

\* Mutant: the clock stamped without asking whether it moved on.
StampBack(s) ==
  /\ conn[s].state = "settled"
  /\ conn' = [conn EXCEPT ![s].state = "closed"]
  /\ IF record # NoRecord /\ record.owner = SlugOf(s)
     THEN record' = [record EXCEPT !.seen = conn[s].lost]
     ELSE record' = record
  /\ UNCHANGED <<now, tokens, changes, up, queue, reg, rev, lapsed, slots>>

\* The settlement was awaited: the idle clock of its owner restarts at the loss.
Stamp(s) ==
  /\ conn[s].state = "settled"
  /\ conn' = [conn EXCEPT ![s].state = "closed"]
  /\ IF record # NoRecord /\ record.owner = SlugOf(s) /\ record.seen <= conn[s].lost
     THEN record' = [record EXCEPT !.seen = conn[s].lost]
     ELSE record' = record
  /\ UNCHANGED <<now, tokens, changes, up, queue, reg, rev, lapsed, slots>>

--------------------------------------------------------------------------
(* revokeReservation                                                       *)

World == UNCHANGED <<now, tokens, changes, conn, queue, reg, lapsed>>

\* Root revokes any id; an account one it counts as reserved.
Revoke(r, expect) ==
  /\ rev[r].at = "idle" /\ expect \in slot \cup {Root}
  /\ rev' = [rev EXCEPT ![r] = [at |-> "sent", expect |-> expect, owner |-> Root]]
  /\ World /\ UNCHANGED <<record, up, slots>>

\* The record is deleted and every control connection closed.
Clear(r) == /\ record' = NoRecord /\ up' = {}
            /\ rev' = [rev EXCEPT ![r].at = "done"]

RevokeArrives(r) ==
  /\ rev[r].at = "sent"
  /\ \/ /\ rev[r].expect # Root /\ ~ (record # NoRecord /\ record.owner = rev[r].expect)
        /\ rev' = [rev EXCEPT ![r].at = "done"] /\ UNCHANGED <<record, up>>
     \/ rev[r].expect = Root /\ record = NoRecord /\ Clear(r)
     \/ /\ record # NoRecord /\ rev[r].expect \in {Root, record.owner}
        /\ rev' = [rev EXCEPT ![r].at = "calling", ![r].owner = record.owner]
        /\ UNCHANGED <<record, up>>
  /\ World /\ UNCHANGED slots

RevokeCalls(r) ==
  /\ rev[r].at = "calling"
  /\ ReleaseId(rev[r].owner)
  /\ rev' = [rev EXCEPT ![r].at = "released"]
  /\ World /\ UNCHANGED <<record, up>>

RevokeEnds(r) ==
  /\ rev[r].at = "released" /\ Clear(r)
  /\ World /\ UNCHANGED slots

--------------------------------------------------------------------------
Next ==
  \/ \E s \in Sock : \/ \E replace \in BOOLEAN : Connect(s, replace)
                     \/ Drop(s) \/ webSocketClose(s) \/ Stamp(s)
  \/ Begin \/ Resolve \/ Fence \/ Authorize \/ Publish \/ Settled \/ Release \/ Settle
  \/ \E r \in Rev : \/ \E e \in Slug \cup {Root} : Revoke(r, e)
                    \/ RevokeArrives(r) \/ RevokeCalls(r) \/ RevokeEnds(r)
  \/ \E d \in Device : ChangeToken(d)
  \/ ServeStray \/ Tick

Spec == Init /\ [][Next]_vars

--------------------------------------------------------------------------
TypeOK ==
  /\ now \in Nat /\ record \in Record \cup {NoRecord} /\ slot \subseteq Slug
  /\ tokens \subseteq Device /\ changes \in Nat
  /\ conn \in [Sock -> Conn] /\ up \subseteq Sock
  /\ queue \in Seq(Task) /\ reg \in Reg
  /\ rev \in [Rev -> Revocation] /\ stray \subseteq Slug /\ misfreed \subseteq Slug
  /\ lapsed \subseteq Device
  /\ \A s \in up : conn[s].state \in {"accepted", "registered"}

Idle == /\ queue = << >> /\ stray = {}
        /\ \A r \in Rev : rev[r].at \in {"idle", "done"}
        /\ \A s \in Sock : conn[s].state \in {"none", "registered", "superseded", "closed"}

(* One connection serves the id, and between handlers it is one of the     *)
(* account the record names: a visitor never reaches a foreign tunnel.     *)
ServedByOwner ==
  /\ \A s, o \in ctl : s = o
  /\ Idle => \A s \in ctl : record # NoRecord /\ record.owner = SlugOf(s)

(* The account a record names counts the id among its reservations, so the *)
(* cap of reservations is enforced on every id that is held: whatever is   *)
(* lost, unless a /release-id came so late that it freed the slot of a     *)
(* newer claim of the same account.                                        *)
RecordHasSlot ==
  Idle /\ record # NoRecord => record.owner \in slot \cup misfreed

(* A late disconnect never sets the idle clock of an owner back.           *)
ClockMonotone ==
  [][record # NoRecord /\ record' # NoRecord /\ record'.owner = record.owner
       => record'.seen >= record.seen]_vars

(* An older device takes a connection over from a newer one of its account *)
(* only if the newer one's token was revoked while it registered, or could *)
(* not be looked up.                                                       *)
FencedToNewest ==
  [][\A o \in Sock : Registered(o) /\ conn'[o].state = "superseded"
       => \/ SlugOf(o) # SlugOf(me)
          \/ conn[o].device \in Legacy \/ conn[me].device \in Legacy
          \/ conn[o].device <= conn[me].device
          \/ conn[o].device \in lapsed]_vars

--------------------------------------------------------------------------
(* What a comment says.                                                    *)

\* registry-do.ts at DELETE /me/reservations: a release by an account never
\* clears the reservation of another.
ReleaseOwnOnly ==
  [][\A r \in Rev : rev[r].at = "released" /\ rev'[r].at = "done" /\ rev[r].expect # Root
       => record = NoRecord \/ record.owner = rev[r].expect]_vars
============================================================================

-------------------------- MODULE TunnelMetering --------------------------
(* The metering of one TunnelDO (src/server-cf/src/tunnel-do.ts) against   *)
(* the ledger of its account.                                              *)
(*                                                                         *)
(* A TunnelDO interleaves handlers at every await.  Work that talks to the *)
(* account runs in order on one chain of promises, accountChain; traffic,  *)
(* closes of sockets and new connections arrive in between, while a call   *)
(* of the task at the head of the chain is under way.  A call may time out *)
(* before or after the account served it, and be served later.             *)
(*                                                                         *)
(* Every connector sends { replace: true } (client/tunnel-client.ts), so a *)
(* register takes over whatever is registered.                             *)
EXTENDS LedgerOps, Sequences

CONSTANTS
  None,        \* no socket
  NoCall,      \* no call under way
  Unserved,    \* the reply of a call the account has not served
  FlushEvery,  \* MSG_FLUSH_EVERY
  MaxTraffic,  \* bound on the operations incurred
  MaxQueue,    \* bound on the queued tasks
  MaxNow,      \* bound on the clock
  MayTimeout,  \* whether a call may time out
  MayHibernate \* whether the object is evicted while idle

\* A control socket; it registers at most once, so it stands for its regId too.
Sock == Regs

VARIABLES
  ledger,    \* the account, resident (AccountLedger)
  now,
  conn,      \* the attachment of each control socket
  up,        \* the sockets whose readyState is OPEN
  metering,  \* the socket this.metering belongs to, or None
  meter,     \* the MeteringState of each registration
  queue,     \* the tasks of accountChain; the head is running
  rpc,       \* the call the head awaits
  late,      \* a call that timed out and was not served yet
  spent,     \* history: credits taken from local budgets
  incurred,  \* history: operations charged or delivered, each counted once
  void       \* history: what each registration still counted of a lease that was
             \* gone when its entry was opened anew

vars == <<ledger, now, conn, up, metering, meter, queue, rpc, late, spent, incurred, void>>

Id == 1   \* the tunnel id of this object

--------------------------------------------------------------------------
Meter == [budget : Nat, consumed : Nat, messages : Nat,
          active : BOOLEAN, settled : BOOLEAN, flushQueued : BOOLEAN]

newMetering == [budget |-> 0, consumed |-> 0, messages |-> 0,
                active |-> TRUE, settled |-> FALSE, flushQueued |-> FALSE]

Task == [kind : {"register", "spend", "flush", "settle"}, sock : Sock, n : Nat]
TaskOf(kind, s, n) == [kind |-> kind, sock |-> s, n |-> n]

Reply == [ok : BOOLEAN, grant : Nat, notOpen : BOOLEAN,
          carried : Sock \cup {Blank}, credits : Nat]

\* What a call that timed out answers; a refusal reads the same.
Refused == [ok |-> FALSE, grant |-> 0, notOpen |-> FALSE, carried |-> Blank, credits |-> 0]

\* "relet" is the second lease of spendBudget, after a reauthorization.
Call == [kind : {"authorize", "reauthorize", "lease", "relet", "close"},
         sock : Sock, want : Nat, commit : Nat, reply : Reply \cup {Unserved}]

CallOf(kind, s, want, commit) ==
  [kind |-> kind, sock |-> s, want |-> want, commit |-> commit, reply |-> Unserved]

ASSUME MeteringAssumption ==
  /\ Id \in Tunnel
  /\ None \notin Sock /\ NoCall \notin Call /\ Unserved \notin Reply
  /\ FlushEvery \in Nat \ {0} /\ MaxTraffic \in Nat /\ MaxQueue \in Nat /\ MaxNow \in Nat
  /\ MayTimeout \in BOOLEAN /\ MayHibernate \in BOOLEAN

--------------------------------------------------------------------------
(* The object's own predicates                                             *)

\* ctl(): the registered socket, if it is open.
ctl == {s \in up : conn[s] = "registered"}

ownsMetering(s) == /\ meter[s].active /\ ~ meter[s].settled
                   /\ metering = s /\ s \in ctl

\* meteringFor: after a hibernation the owner's state is built anew.
meteringFor(s) == IF metering = s THEN meter[s] ELSE newMetering

\* canCharge of spendBudget; the final settlement pays for what was delivered.
canCharge(task) == /\ ~ meter[task.sock].settled
                   /\ task.kind = "settle" \/ ownsMetering(task.sock)

\* orderedAccount: append a task to the chain.
Ordered(q, task) == Append(q, task)

\* flushMessages: at most one batch of a registration is queued.
WantsFlush(m) == m.messages >= FlushEvery /\ ~ m.flushQueued
Batch(s, m) == TaskOf("flush", s, IF m.messages < FlushEvery THEN m.messages ELSE FlushEvery)

--------------------------------------------------------------------------
Init ==
  /\ now = Ttl + 1
  /\ \E c \in Configs : ledger = [EmptyLedger(Ttl + 1) EXCEPT !.config = c]
  /\ conn = [s \in Sock |-> "none"]
  /\ up = {} /\ metering = None
  /\ meter = [s \in Sock |-> newMetering]
  /\ queue = << >> /\ rpc = NoCall /\ late = NoCall
  /\ spent = 0 /\ incurred = 0
  /\ void = [s \in Sock |-> 0]

Tick == /\ now < MaxNow
        /\ now' = now + 1
        /\ UNCHANGED <<ledger, conn, up, metering, meter, queue, rpc, late, spent, incurred, void>>

--------------------------------------------------------------------------
(* The account's side of a call                                            *)

\* What the account makes of a call, from its ledger rolled (R), and reaped (F).
Effect(c, F, R) ==
  CASE c.kind \in {"authorize", "reauthorize"} ->
         IF ~ Accepts(ledger, LegacySecret) THEN ledger
         ELSE IF Admits(F, Id) THEN Admitted(F, Id, c.sock, now) ELSE F
    [] c.kind \in {"lease", "relet"} ->
         IF MayLease(F, Id, c.sock) THEN Leased(F, Id, c.want, c.commit, now) ELSE F
    [] c.kind = "close" ->
         IF Owns(R, Id, c.sock) THEN Closed(R, Id, c.commit) ELSE R

Answer(c, F) ==
  CASE c.kind \in {"authorize", "reauthorize"} ->
         IF ~ (Accepts(ledger, LegacySecret) /\ Admits(F, Id)) THEN Refused
         ELSE [Refused EXCEPT !.ok = TRUE,
                              !.carried = F.entry[Id].regId,
                              !.credits = F.entry[Id].lease]
    [] c.kind \in {"lease", "relet"} ->
         IF MayLease(F, Id, c.sock)
         THEN [Refused EXCEPT !.ok = TRUE, !.grant = LeaseGrant(F, Id, c.want, c.commit)]
         ELSE [Refused EXCEPT !.notOpen = Id \notin F.open]
    [] c.kind = "close" -> [Refused EXCEPT !.ok = TRUE]

\* What a call under way reports, and what one that was answered grants.
Reporting(c) == IF c # NoCall /\ c.reply = Unserved THEN c.commit ELSE 0
Granting(c) == IF c # NoCall /\ c.reply # Unserved THEN c.reply.grant ELSE 0

\* Everything `s` holds against the lease of its entry.
Pending(c, s) ==
  IF c # NoCall /\ c.sock = s /\ c.kind # "close" THEN Reporting(c) + Granting(c) ELSE 0
Claims(s) == meter[s].budget + meter[s].consumed + Pending(rpc, s) + Pending(late, s)

\* An entry opened anew by its owner starts without a lease.
VoidAfter(c, F) ==
  IF c.kind = "reauthorize" /\ Answer(c, F).ok /\ F.entry[Id].regId # c.sock
  THEN [void EXCEPT ![c.sock] = Claims(c.sock)] ELSE void

Serve ==
  /\ rpc # NoCall /\ rpc.reply = Unserved
  /\ \E F \in {Fresh(ledger, now)}, R \in {Roll(ledger, now)} :
       /\ ledger' = Effect(rpc, F, R)
       /\ rpc' = [rpc EXCEPT !.reply = Answer(rpc, F)]
       /\ void' = VoidAfter(rpc, F)
  /\ UNCHANGED <<now, conn, up, metering, meter, queue, late, spent, incurred>>

\* boundedRpc gives up: the call is lost, or still on its way, or already served.
Timeout ==
  /\ MayTimeout
  /\ rpc # NoCall /\ rpc.reply # Refused
  /\ rpc' = [rpc EXCEPT !.reply = Refused]
  /\ \/ late' = late
     \/ rpc.reply = Unserved /\ late = NoCall /\ late' = rpc
  /\ UNCHANGED <<ledger, now, conn, up, metering, meter, queue, spent, incurred, void>>

ServeLate ==
  /\ late # NoCall
  /\ ledger' = Effect(late, Fresh(ledger, now), Roll(ledger, now))
  /\ void' = VoidAfter(late, Fresh(ledger, now))
  /\ late' = NoCall
  /\ UNCHANGED <<now, conn, up, metering, meter, queue, rpc, spent, incurred>>

--------------------------------------------------------------------------
(* Connections and traffic                                                 *)

\* A connector connects and sends its register frame.
Connect(s) ==
  /\ conn[s] = "none" /\ Len(queue) < MaxQueue
  /\ conn' = [conn EXCEPT ![s] = "accepted"]
  /\ up' = up \cup {s}
  /\ queue' = Ordered(queue, TaskOf("register", s, 0))
  /\ UNCHANGED <<ledger, now, metering, meter, rpc, late, spent, incurred, void>>

\* The connection is lost; webSocketClose runs later.
Drop(s) ==
  /\ s \in up
  /\ up' = up \ {s}
  /\ UNCHANGED <<ledger, now, conn, metering, meter, queue, rpc, late, spent, incurred, void>>

\* Mutant: the lost connection retired, its settlement not queued.
CloseUnsettled(s) ==
  /\ s \notin up /\ conn[s] = "registered"
  /\ conn' = [conn EXCEPT ![s] = "closed"]
  /\ metering' = s
  /\ meter' = [meter EXCEPT ![s] = [meteringFor(s) EXCEPT !.active = FALSE]]
  /\ UNCHANGED <<ledger, now, up, queue, rpc, late, spent, incurred, void>>

\* webSocketClose: inert unless the socket is registered and not superseded.
webSocketClose(s) ==
  /\ s \notin up /\ conn[s] = "registered"
  /\ conn' = [conn EXCEPT ![s] = "closed"]
  /\ metering' = s
  /\ meter' = [meter EXCEPT ![s] = [meteringFor(s) EXCEPT !.active = FALSE]]
  /\ queue' = Ordered(queue, TaskOf("settle", s, 0))
  /\ UNCHANGED <<ledger, now, up, rpc, late, spent, incurred, void>>

\* A request or a WebSocket upgrade: pays on the chain before it is relayed.
Request(s) ==
  /\ s \in ctl /\ incurred < MaxTraffic /\ Len(queue) < MaxQueue
  /\ metering' = s
  /\ meter' = [meter EXCEPT ![s] = meteringFor(s)]
  /\ queue' = Ordered(queue, TaskOf("spend", s, 1))
  /\ UNCHANGED <<ledger, now, conn, up, rpc, late, spent, incurred, void>>

\* A browser frame pays at once while there is budget, else like a request.
BrowserFrame(s) ==
  /\ s \in ctl /\ incurred < MaxTraffic
  /\ meteringFor(s).budget >= 1
  /\ ownsMetering(s)
  /\ meter' = [meter EXCEPT ![s].budget = @ - 1, ![s].consumed = @ + 1]
  /\ spent' = spent + 1 /\ incurred' = incurred + 1
  /\ UNCHANGED <<ledger, now, conn, up, metering, queue, rpc, late, void>>

\* A frame from the connector is relayed and counted; a full batch is flushed.
ControlFrame(s) ==
  LET m == [meteringFor(s) EXCEPT !.messages = @ + 1]
  IN  /\ s \in ctl /\ incurred < MaxTraffic
      /\ metering' = s
      /\ incurred' = incurred + 1
      /\ IF WantsFlush(m) /\ m.active /\ ~ m.settled
         THEN /\ Len(queue) < MaxQueue
              /\ meter' = [meter EXCEPT ![s] = [m EXCEPT !.flushQueued = TRUE]]
              /\ queue' = Ordered(queue, Batch(s, m))
         ELSE /\ meter' = [meter EXCEPT ![s] = m]
              /\ queue' = queue
      /\ UNCHANGED <<ledger, now, conn, up, rpc, late, spent, void>>

\* Evicted while nothing runs: attachments survive, metering state does not.
Hibernate ==
  /\ MayHibernate
  /\ queue = << >> /\ metering # None
  /\ metering' = None
  /\ meter' = [s \in Sock |-> newMetering]
  /\ UNCHANGED <<ledger, now, conn, up, queue, rpc, late, spent, incurred, void>>

--------------------------------------------------------------------------
(* The head of the chain                                                   *)

task == Head(queue)
me == meter[task.sock]

\* The head is one of these tasks and awaits no call.
Starts(kinds) == queue # << >> /\ task.kind \in kinds /\ rpc = NoCall

\* The head awaits one of these calls, and it was answered or timed out.
Answered(kinds) == rpc # NoCall /\ rpc.kind \in kinds /\ rpc.reply # Unserved

cost == IF task.kind = "settle" THEN me.messages ELSE task.n
want == IF ledger.config.leaseChunk > cost THEN ledger.config.leaseChunk ELSE cost

\* Mutant: the final close reports nothing of what was consumed.
CloseForgets(m) ==
  /\ meter' = [meter EXCEPT ![task.sock] =
                  [m EXCEPT !.settled = TRUE, !.budget = 0, !.consumed = 0, !.messages = 0]]
  /\ rpc' = CallOf("close", task.sock, 0, 0)
  /\ queue' = queue

\* The end of settle: whatever is unpaid is reported and the rest given up.
Close(m) ==
  /\ meter' = [meter EXCEPT ![task.sock] =
                  [m EXCEPT !.settled = TRUE, !.budget = 0, !.consumed = 0, !.messages = 0]]
  /\ rpc' = CallOf("close", task.sock, 0, m.consumed + m.messages)
  /\ queue' = queue

\* The end of spendBudget for each of its callers, with the state it leaves.
Finish(m, paid) ==
  \/ /\ task.kind = "spend"
     /\ meter' = [meter EXCEPT ![task.sock] = m]
     /\ queue' = Tail(queue) /\ rpc' = NoCall
  \/ LET rest == [m EXCEPT !.messages = IF paid THEN @ - task.n ELSE @, !.flushQueued = FALSE]
         again == paid /\ ownsMetering(task.sock) /\ WantsFlush(rest)
     IN  /\ task.kind = "flush"
         /\ meter' = [meter EXCEPT ![task.sock] = [rest EXCEPT !.flushQueued = again]]
         /\ queue' = IF again THEN Ordered(Tail(queue), Batch(task.sock, rest)) ELSE Tail(queue)
         /\ rpc' = NoCall
  \/ /\ task.kind = "settle"
     /\ Close([m EXCEPT !.messages = IF paid THEN 0 ELSE @])

Unspent == UNCHANGED <<spent, incurred>>

\* Mutant: a commit read before the call and cleared only after it.
SpendKeepsCommit(m) ==
  \/ /\ ~ canCharge(task)
     /\ Finish(m, FALSE) /\ Unspent
  \/ /\ canCharge(task) /\ m.budget >= cost
     /\ Finish([m EXCEPT !.budget = @ - cost, !.consumed = @ + cost], TRUE)
     /\ spent' = spent + cost
     /\ incurred' = incurred + (IF task.kind = "spend" THEN cost ELSE 0)
  \/ /\ canCharge(task) /\ m.budget < cost
     /\ rpc' = CallOf("lease", task.sock, want, m.consumed)
     /\ meter' = [meter EXCEPT ![task.sock] = m]
     /\ queue' = queue /\ Unspent

\* Mutant: any grant taken for enough.
SpendOnAnyGrant(m) ==
  \/ /\ ~ canCharge(task)
     /\ Finish(m, FALSE) /\ Unspent
  \/ /\ canCharge(task) /\ m.budget >= 1
     /\ Finish([m EXCEPT !.budget = @ - cost, !.consumed = @ + cost], TRUE)
     /\ spent' = spent + cost
     /\ incurred' = incurred + (IF task.kind = "spend" THEN cost ELSE 0)
  \/ /\ canCharge(task) /\ m.budget < 1
     /\ rpc' = CallOf("lease", task.sock, want, m.consumed)
     /\ meter' = [meter EXCEPT ![task.sock] = [m EXCEPT !.consumed = 0]]
     /\ queue' = queue /\ Unspent

\* The loop of spendBudget: pay, or detach the commit and ask for a lease.
\* `m` is the state with the last grant added.
spendBudget(m) ==
  \/ /\ ~ canCharge(task)
     /\ Finish(m, FALSE) /\ Unspent
  \/ /\ canCharge(task) /\ m.budget >= cost
     /\ Finish([m EXCEPT !.budget = @ - cost, !.consumed = @ + cost], TRUE)
     /\ spent' = spent + cost
     /\ incurred' = incurred + (IF task.kind = "spend" THEN cost ELSE 0)
  \/ /\ canCharge(task) /\ m.budget < cost
     /\ rpc' = CallOf("lease", task.sock, want, m.consumed)
     /\ meter' = [meter EXCEPT ![task.sock] = [m EXCEPT !.consumed = 0]]
     /\ queue' = queue /\ Unspent

HeadOnly == UNCHANGED <<ledger, now, conn, up, metering, late, void>>

Spend ==
  /\ Starts({"spend", "flush"})
  /\ spendBudget(me)
  /\ HeadOnly

settle ==
  /\ Starts({"settle"})
  /\ \/ /\ me.settled
        /\ queue' = Tail(queue)
        /\ UNCHANGED <<meter, rpc, spent, incurred>>
     \/ LET m == [me EXCEPT !.active = FALSE]
        IN  /\ ~ me.settled
            /\ IF me.messages > 0 THEN spendBudget(m) ELSE Close(m) /\ Unspent
  /\ HeadOnly

\* Mutant: the chunk asked for credited instead of the partial grant.
LeaseReplyWanted ==
  /\ Answered({"lease", "relet"}) /\ ~ (rpc.kind = "lease" /\ rpc.reply.notOpen)
  /\ IF rpc.reply.grant > 0
     THEN spendBudget([me EXCEPT !.budget = @ + rpc.want])
     ELSE Finish(me, FALSE) /\ Unspent
  /\ HeadOnly

\* A lease reply, whoever owns the tunnel by now.
LeaseReply ==
  /\ Answered({"lease", "relet"}) /\ ~ (rpc.kind = "lease" /\ rpc.reply.notOpen)
  /\ IF rpc.reply.grant > 0
     THEN spendBudget([me EXCEPT !.budget = @ + rpc.reply.grant])
     ELSE Finish(me, FALSE) /\ Unspent
  /\ HeadOnly

\* The entry was reaped and its lease refunded: what is left of it is void.
NotOpen ==
  LET m == [me EXCEPT !.budget = 0]
  IN  /\ Answered({"lease"}) /\ rpc.reply.notOpen
      /\ IF ownsMetering(task.sock)
         THEN /\ meter' = [meter EXCEPT ![task.sock] = m]
              /\ rpc' = CallOf("reauthorize", task.sock, 0, 0)
              /\ queue' = queue
         ELSE Finish(m, FALSE)
      /\ HeadOnly /\ Unspent

Reauthorized ==
  /\ Answered({"reauthorize"})
  /\ IF rpc.reply.ok /\ ownsMetering(task.sock)
     THEN /\ rpc' = CallOf("relet", task.sock, want, 0)
          /\ UNCHANGED <<meter, queue>>
     ELSE Finish(me, FALSE)
  /\ HeadOnly /\ Unspent

CloseReply ==
  /\ Answered({"close"})
  /\ queue' = Tail(queue) /\ rpc' = NoCall
  /\ meter' = meter
  /\ HeadOnly /\ Unspent

--------------------------------------------------------------------------
(* register                                                                *)

Register ==
  /\ Starts({"register"})
  /\ IF task.sock \in up
     THEN rpc' = CallOf("authorize", task.sock, 0, 0) /\ queue' = queue
     ELSE rpc' = NoCall /\ queue' = Tail(queue)
  /\ meter' = meter
  /\ HeadOnly /\ Unspent

Rejected ==
  /\ Answered({"authorize"}) /\ ~ rpc.reply.ok
  /\ conn' = [conn EXCEPT ![task.sock] = "closed"]
  /\ up' = up \ {task.sock}
  /\ queue' = Tail(queue) /\ rpc' = NoCall
  /\ UNCHANGED <<ledger, now, metering, meter, late, spent, incurred, void>>

\* What the successor takes over of the state of `prev`, not yet settled.  The
\* ledger's lease carries over; local budget does only as far as it is in there.
Carried(prev, reply) ==
  LET p == meter[prev]
      left == Less(reply.credits, p.consumed)
  IN  [newMetering EXCEPT
         !.budget = IF reply.carried = prev THEN Smaller(p.budget, left) ELSE 0,
         !.consumed = p.consumed,
         !.messages = p.messages]

\* Predecessors become inert, the successor is published; if its connection is
\* gone meanwhile it is settled at once.
Registered ==
  LET s == task.sock
      others == {o \in Sock : conn[o] = "registered"}
      hands == metering # None /\ ~ meter[metering].settled
      m == IF hands THEN Carried(metering, rpc.reply) ELSE newMetering
      flush == s \in up /\ WantsFlush(m)
      given == [p \in Sock |->
                  IF hands /\ p = metering
                  THEN [meter[p] EXCEPT !.active = FALSE, !.settled = TRUE, !.budget = 0,
                                        !.consumed = 0, !.messages = 0]
                  ELSE meter[p]]
  IN  /\ Answered({"authorize"}) /\ rpc.reply.ok
      /\ conn' = [o \in Sock |-> IF o = s THEN IF s \in up THEN "registered" ELSE "closed"
                                 ELSE IF o \in others THEN "superseded" ELSE conn[o]]
      /\ up' = up \ others
      /\ metering' = s
      /\ meter' = [given EXCEPT ![s] = [m EXCEPT !.flushQueued = flush, !.active = s \in up]]
      /\ queue' = IF s \notin up THEN <<TaskOf("settle", s, 0)>> \o Tail(queue)
                  ELSE IF flush THEN Ordered(Tail(queue), Batch(s, m)) ELSE Tail(queue)
      /\ rpc' = NoCall
      /\ void' = [void EXCEPT ![s] = IF ~ hands THEN 0
                                     ELSE IF rpc.reply.carried = metering THEN void[metering]
                                     ELSE m.consumed]
      /\ UNCHANGED <<ledger, now, late, spent, incurred>>

--------------------------------------------------------------------------
Chain ==
  \/ Spend \/ settle \/ LeaseReply \/ NotOpen \/ Reauthorized \/ CloseReply
  \/ Register \/ Rejected \/ Registered

Next ==
  \/ \E s \in Sock : \/ Connect(s) \/ Drop(s) \/ webSocketClose(s)
                    \/ Request(s) \/ BrowserFrame(s) \/ ControlFrame(s)
  \/ Chain \/ Serve \/ Timeout \/ ServeLate \/ Hibernate \/ Tick

Spec == Init /\ [][Next]_vars

(* The event loop runs the head of the chain and delivers the close of a   *)
(* lost connection; the account serves the call that is waited for.        *)
FairSpec == /\ Spec
            /\ WF_vars(Chain) /\ WF_vars(Serve)
            /\ \A s \in Sock : WF_vars(webSocketClose(s))

--------------------------------------------------------------------------
TypeOK ==
  /\ ledger \in LedgerType /\ now \in Nat
  /\ conn \in [Sock -> {"none", "accepted", "registered", "superseded", "closed"}]
  /\ up \subseteq Sock /\ metering \in Sock \cup {None}
  /\ meter \in [Sock -> Meter] /\ queue \in Seq(Task)
  /\ rpc \in Call \cup {NoCall} /\ late \in Call \cup {NoCall}
  /\ spent \in Nat /\ incurred \in Nat /\ void \in [Sock -> Nat]

\* What a registration has yet to report.
Unreported(s) == meter[s].consumed + meter[s].messages

(* A credit is reported at most once: one registration at a time has       *)
(* something to report, and that, what calls under way report and what the *)
(* account has billed never exceed the operations that were charged or     *)
(* delivered, whatever is lost, served late, handed over or settled.       *)
NeverOverbilled ==
  /\ \A s, o \in Sock : Unreported(s) > 0 /\ Unreported(o) > 0 => s = o
  /\ \A s \in Sock :
       ledger.dayUsed + Reporting(rpc) + Reporting(late) + Unreported(s) <= incurred

(* A tunnel may only relay traffic it holds leased budget for: what the    *)
(* registration that has the entry can still spend, spent and has yet to   *)
(* report is covered by the lease of the entry, but for what it still      *)
(* counted of a lease that was reaped and refunded.  No part of the budget *)
(* of a refunded lease is handed over.                                     *)
Backed ==
  Id \in ledger.open =>
    LET s == ledger.entry[Id].regId
    IN  Claims(s) <= ledger.entry[Id].lease + void[s]

(* The limit is a hard cap: no credit beyond the day's limit is ever spent *)
(* (the test "exactly dayLimit requests succeed, then 429"), whatever is   *)
(* closed, refunded and handed over.                                       *)
HardCap == spent <= ledger.config.dayLimit

(* The relay never serves with a registration the account does not know:   *)
(* the entry is the owner's, except while a successor that the account     *)
(* already admitted waits to be published.                                 *)
OwnerHoldsEntry ==
  \A s \in Sock : ownsMetering(s) =>
    /\ Id \in ledger.open
    /\ \/ ledger.entry[Id].regId = s
       \/ Answered({"authorize"}) /\ ledger.entry[Id].regId = rpc.sock

(* When nobody is connected and nothing is under way, every lease is       *)
(* returned and everything that was incurred is billed, to the limit.      *)
AtRest == queue = << >> /\ late = NoCall /\ \A s \in Sock : conn[s] # "registered"
ExactAtRest == AtRest => /\ incurred <= ledger.config.dayLimit => ledger.dayUsed = incurred
                         /\ ledger.leased = 0 /\ ledger.open = {}

(* Once the connectors are gone, the entry is removed and every lease is   *)
(* returned: a close that races a register is never forgotten.             *)
Released ==
  (up = {} /\ \A s \in Sock : conn[s] # "none") ~> (ledger.open = {} /\ ledger.leased = 0)

--------------------------------------------------------------------------
(* What the documents say of the overshoot.                                *)

\* account-do.ts and docs/self-hosting/metering.md: the overshoot is at most
\* leaseChunk * concurrentMax.
OvershootBound ==
  spent <= ledger.config.dayLimit + ledger.config.leaseChunk * ledger.config.concurrentMax
============================================================================

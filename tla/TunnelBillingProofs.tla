------------------------ MODULE TunnelBillingProofs ------------------------
(* What TunnelMetering promises while every call is answered and no entry  *)
(* is reaped: the owner holds the entry, the limit is a hard cap, and at   *)
(* rest the account has billed exactly what was incurred.  All this rests  *)
(* on the invariant Inv of TunnelMeteringProofs, whose inequalities become *)
(* equations.                                                              *)
EXTENDS TunnelMeteringProofs

--------------------------------------------------------------------------
(* The invariants                                                          *)

Calls(kind) == rpc # NoCall /\ rpc.kind = kind

\* The account has admitted a successor that is not yet published.
Admitting == Calls("authorize") /\ rpc.reply # Unserved /\ rpc.reply.ok

\* The final close is on its way.
Closing == Calls("close") /\ rpc.reply = Unserved

\* `s` is registered, or has its settlement before it.
Holder(s) == conn[s] = "registered" \/ (metering = s /\ ~ meter[s].settled)

\* The entry of the tunnel is that of `s`.
Entered(s) == Id \in ledger.open /\ ledger.entry[Id].regId = s

\* Every call is answered as the state of its registration demands.
NoneLost ==
  /\ late = NoCall
  /\ rpc # NoCall => rpc.kind \in {"authorize", "lease", "close"}
  /\ Calls("lease") => /\ metering = rpc.sock /\ ~ meter[rpc.sock].settled
                       /\ rpc.reply # Unserved => ~ rpc.reply.notOpen
  /\ Calls("close") => task.kind = "settle" /\ me.settled
  /\ Closing => Entered(rpc.sock) /\ \A s \in Sock : ~ Holder(s)
  /\ Admitting => Entered(rpc.sock)

\* Whoever serves or is to be settled has the entry, or a successor has it.
HoldersEntered == \A s \in Sock : Holder(s) => Entered(s) \/ Admitting

\* The entry is somebody's who serves, will settle, or is about to do either.
EntryHeld ==
  /\ ledger.open \subseteq {Id}
  /\ \A s \in Sock : Entered(s) => Holder(s) \/ Admitting \/ Closing

\* A registration that was lost has its settlement in the queue.
WillSettle ==
  \A s \in Sock :
    metering = s /\ ~ meter[s].settled /\ conn[s] # "registered" =>
      \E i \in 1..Len(queue) : queue[i].kind = "settle" /\ queue[i].sock = s

Held == NoneLost /\ HoldersEntered /\ EntryHeld /\ WillSettle

\* No entry is so old that the account would reap it.
NothingExpires == Expired(ledger, now) = {}

\* The books are those of the day and of the month it is.
SameWindow == ledger.day = DayKey(now) /\ ledger.month = MonthKey(now)

--------------------------------------------------------------------------
(* What a step of the head does, exactly                                   *)

\* The task is done; what was paid came out of the budget.
Pops(o) ==
  /\ rpc' = NoCall
  /\ \/ queue' = Tail(queue)
     \/ \E n \in Nat : queue' = Append(Tail(queue), TaskOf("flush", task.sock, n))
  /\ o.settled = me.settled
  /\ task.kind = "settle" => me.settled
  /\ me.settled => spent' = spent /\ incurred' = incurred
  /\ ~ me.settled =>
       \E p \in Nat : /\ o.consumed = me.consumed + p
                      /\ o.budget + p = me.budget + Granting(rpc)
                      /\ spent' = spent + p
                      /\ incurred' + me.messages = incurred + p + o.messages

\* All that was consumed is reported, and a lease asked for.
AsksLease(o) ==
  /\ rpc' \in Call /\ rpc' # NoCall /\ rpc'.kind = "lease" /\ rpc'.reply = Unserved
  /\ rpc'.sock = task.sock /\ rpc'.commit = me.consumed
  /\ rpc'.want >= ledger.config.leaseChunk
  /\ queue' = queue
  /\ ~ me.settled /\ ~ o.settled
  /\ o.consumed = 0 /\ o.messages = me.messages /\ o.budget = me.budget + Granting(rpc)
  /\ spent' = spent /\ incurred' = incurred

\* Everything owed is reported: what was not paid for was refused a lease.
Closes(o) ==
  /\ rpc' \in Call /\ rpc' # NoCall /\ rpc'.kind = "close" /\ rpc'.reply = Unserved
  /\ rpc'.sock = task.sock /\ rpc'.commit = me.consumed + me.messages
  /\ queue' = queue
  /\ task.kind = "settle" /\ ~ me.settled
  /\ o.settled /\ o.budget = 0 /\ o.consumed = 0 /\ o.messages = 0
  /\ incurred' = incurred
  /\ \/ spent' = spent + me.messages /\ me.messages <= me.budget + Granting(rpc)
     \/ spent' = spent /\ Calls("lease") /\ rpc.reply # Unserved /\ rpc.reply.grant = 0

Exactly(o) ==
  /\ o \in Meter /\ meter' = [meter EXCEPT ![task.sock] = o]
  /\ Pops(o) \/ AsksLease(o) \/ Closes(o)

(* The end of settle.                                                      *)
LEMMA CloseExactly ==
  ASSUME TypeOK, queue # << >>, task.kind = "settle", ~ me.settled, NEW m \in Meter,
         m.consumed + m.messages = me.consumed + me.messages, incurred' = incurred,
         \/ spent' = spent + me.messages /\ me.messages <= me.budget + Granting(rpc)
         \/ spent' = spent /\ Calls("lease") /\ rpc.reply # Unserved /\ rpc.reply.grant = 0,
         Close(m)
  PROVE  \E o : Exactly(o)
<1> DEFINE o == [m EXCEPT !.settled = TRUE, !.budget = 0, !.consumed = 0, !.messages = 0]
           n == m.consumed + m.messages
<1>1. task.sock \in Sock
  BY HeadType
<1>2. o \in Meter /\ o.settled /\ o.budget = 0 /\ o.consumed = 0 /\ o.messages = 0
  BY DEF Meter
<1>3. n \in Nat
  BY DEF Meter
<1>4. meter' = [meter EXCEPT ![task.sock] = o] /\ rpc' = CallOf("close", task.sock, 0, n) /\ queue' = queue
  BY DEF Close
<1> HIDE DEF o
<1>5. /\ rpc' \in Call /\ rpc' # NoCall /\ rpc'.reply = Unserved /\ rpc'.sock = task.sock
      /\ rpc'.kind = "close" /\ rpc'.commit = n
  <2> HIDE DEF n
  <2> QED BY <1>1, <1>3, <1>4, NewCall
<1>6. Closes(o)
  BY <1>2, <1>4, <1>5 DEF Closes
<1> QED BY <1>2, <1>4, <1>6 DEF Exactly

(* The end of spendBudget, with `p` paid.                                  *)
LEMMA FinishExactly ==
  ASSUME TypeOK, queue # << >>, TaskOK(task), NEW m \in Meter, NEW paid \in BOOLEAN, NEW p \in Nat,
         p = IF paid THEN cost ELSE 0, paid => ~ me.settled,
         m.settled = me.settled, m.messages = me.messages,
         m.consumed = me.consumed + p, m.budget + p = me.budget + Granting(rpc),
         spent' = spent + p, incurred' = incurred + (IF task.kind = "spend" THEN p ELSE 0),
         task.kind = "settle" => /\ ~ me.settled
                                 /\ paid \/ (Calls("lease") /\ rpc.reply # Unserved /\ rpc.reply.grant = 0),
         Finish(m, paid)
  PROVE  \E o : Exactly(o)
<1>1. task.sock \in Sock /\ task.n \in Nat /\ me \in Meter
      /\ me.budget \in Nat /\ me.consumed \in Nat /\ me.messages \in Nat
  BY HeadType
<1>2. m.consumed \in Nat /\ m.messages \in Nat /\ m.budget \in Nat
      /\ spent \in Nat /\ incurred \in Nat
  BY DEF Meter, TypeOK
<1>3. CASE task.kind = "spend"
  <2>1. meter' = [meter EXCEPT ![task.sock] = m] /\ queue' = Tail(queue) /\ rpc' = NoCall
    BY <1>3 DEF Finish
  <2>2. me.settled => p = 0
    OBVIOUS
  <2>3. /\ m.consumed = me.consumed + p /\ m.budget + p = me.budget + Granting(rpc)
        /\ spent' = spent + p /\ incurred' + me.messages = incurred + p + m.messages
    BY <1>1, <1>2, <1>3
  <2>4. me.settled => spent' = spent /\ incurred' = incurred
    BY <1>2, <1>3, <2>2
  <2>5. Pops(m)
    BY <1>3, <2>1, <2>3, <2>4 DEF Pops
  <2> QED BY <2>1, <2>5 DEF Exactly
<1>4. CASE task.kind = "flush"
  <2> DEFINE left == IF paid THEN m.messages - task.n ELSE m.messages
             rest == [m EXCEPT !.messages = IF paid THEN @ - task.n ELSE @, !.flushQueued = FALSE]
             again == paid /\ ownsMetering(task.sock) /\ WantsFlush(rest)
             o == [rest EXCEPT !.flushQueued = again]
  <2>1. /\ meter' = [meter EXCEPT ![task.sock] = o] /\ rpc' = NoCall
        /\ queue' = IF again THEN Ordered(Tail(queue), Batch(task.sock, rest)) ELSE Tail(queue)
    BY <1>4 DEF Finish
  <2>2. again \in BOOLEAN
    BY DEF ownsMetering, WantsFlush, ctl, Meter
  <2>3. paid => task.n <= m.messages
    BY <1>4 DEF TaskOK, me
  <2>4. left \in Nat
    BY <1>1, <1>2, <2>3
  <2>5. /\ rest \in Meter /\ rest.budget = m.budget /\ rest.consumed = m.consumed
        /\ rest.settled = m.settled /\ rest.messages = left
    <3>1. rest = [m EXCEPT !.messages = left, !.flushQueued = FALSE]
      BY DEF Meter
    <3> HIDE DEF left, rest
    <3> QED BY <2>4, <3>1 DEF Meter
  <2> HIDE DEF rest, again
  <2>6. /\ o \in Meter /\ o.budget = m.budget /\ o.consumed = m.consumed
        /\ o.settled = m.settled /\ o.messages = left
    <3> HIDE DEF left
    <3> QED BY <2>2, <2>5 DEF Meter
  <2>7. again => \E k \in Nat : queue' = Append(Tail(queue), TaskOf("flush", task.sock, k))
    <3> DEFINE k == IF rest.messages < FlushEvery THEN rest.messages ELSE FlushEvery
    <3>1. k \in Nat
      BY <2>5, MeteringAssumption DEF Meter
    <3>2. again => queue' = Append(Tail(queue), TaskOf("flush", task.sock, k))
      BY <2>1 DEF Ordered, Batch
    <3> QED BY <3>1, <3>2
  <2>8. p = IF paid THEN task.n ELSE 0
    BY <1>4 DEF cost
  <2>9. incurred' + me.messages = incurred + p + o.messages
    BY <1>1, <1>2, <1>4, <2>3, <2>6, <2>8
  <2>10. me.settled => p = 0
    BY <2>8
  <2> HIDE DEF o, left
  <2>11. queue' = Tail(queue) \/ \E k \in Nat : queue' = Append(Tail(queue), TaskOf("flush", task.sock, k))
    BY <2>1, <2>7
  <2>12. me.settled => spent' = spent /\ incurred' = incurred
    BY <1>2, <1>4, <2>10
  <2>13. o.consumed = me.consumed + p /\ o.budget + p = me.budget + Granting(rpc) /\ spent' = spent + p
    BY <2>6
  <2>14. Pops(o)
    BY <1>4, <2>1, <2>6, <2>9, <2>11, <2>12, <2>13 DEF Pops
  <2> QED BY <2>1, <2>6, <2>14 DEF Exactly
<1>5. CASE task.kind = "settle"
  <2> DEFINE c == [m EXCEPT !.messages = IF paid THEN 0 ELSE @]
  <2>1. Close(c)
    BY <1>5 DEF Finish
  <2>2. /\ c \in Meter /\ c.consumed = m.consumed
        /\ c.messages = IF paid THEN 0 ELSE m.messages
    BY <1>2 DEF Meter
  <2>3. p = IF paid THEN me.messages ELSE 0
    BY <1>5 DEF cost
  <2>4. c.consumed + c.messages = me.consumed + me.messages /\ incurred' = incurred
    BY <1>1, <1>2, <1>5, <2>2, <2>3
  <2>5. \/ spent' = spent + me.messages /\ me.messages <= me.budget + Granting(rpc)
        \/ spent' = spent /\ Calls("lease") /\ rpc.reply # Unserved /\ rpc.reply.grant = 0
    <3>1. CASE paid
      BY <1>1, <1>2, <2>3, <3>1
    <3>2. CASE ~ paid
      BY <1>2, <1>5, <2>3, <3>2
    <3> QED BY <3>1, <3>2
  <2> HIDE DEF c
  <2> QED BY <1>5, <2>1, <2>2, <2>4, <2>5, CloseExactly
<1> QED BY <1>3, <1>4, <1>5 DEF Finish

(* spendBudget, with the state `m` that the last grant was added to.        *)
LEMMA SpendExactly ==
  ASSUME TypeOK, queue # << >>, TaskOK(task), ledger.config \in Configs,
         task.kind \in {"spend", "flush", "settle"}, task.kind = "settle" => ~ me.settled,
         NEW m \in Meter, m.settled = me.settled, m.messages = me.messages,
         m.consumed = me.consumed, m.budget = me.budget + Granting(rpc), spendBudget(m)
  PROVE  \E o : Exactly(o)
<1>1. task.sock \in Sock /\ task.n \in Nat /\ me \in Meter
      /\ me.budget \in Nat /\ me.consumed \in Nat /\ me.messages \in Nat
  BY HeadType
<1>2. m.consumed \in Nat /\ m.messages \in Nat /\ m.budget \in Nat
      /\ spent \in Nat /\ incurred \in Nat
  BY DEF Meter, TypeOK
<1>3. cost \in Nat /\ want \in Nat /\ want >= ledger.config.leaseChunk
  <2>1. ledger.config.leaseChunk \in Nat
    BY LedgerAssumption DEF ConfigType
  <2>2. cost \in Nat
    BY <1>1 DEF cost
  <2> QED BY <2>1, <2>2 DEF want
<1>4. CASE ~ canCharge(task) /\ Finish(m, FALSE) /\ Unspent
  <2>1. task.kind # "settle"
    BY <1>4 DEF canCharge, me
  <2>2. PICK p \in Nat : p = 0
    OBVIOUS
  <2>3. /\ m.consumed = me.consumed + p /\ m.budget + p = me.budget + Granting(rpc)
        /\ spent' = spent + p /\ incurred' = incurred + (IF task.kind = "spend" THEN p ELSE 0)
    BY <1>1, <1>2, <1>4, <2>2 DEF Unspent
  <2>4. PICK paid \in BOOLEAN : paid = FALSE
    OBVIOUS
  <2>5. p = (IF paid THEN cost ELSE 0) /\ Finish(m, paid)
    BY <1>4, <2>2, <2>4
  <2> QED BY <2>1, <2>3, <2>4, <2>5, FinishExactly
<1>5. CASE /\ canCharge(task) /\ m.budget >= cost
           /\ Finish([m EXCEPT !.budget = @ - cost, !.consumed = @ + cost], TRUE)
           /\ spent' = spent + cost
           /\ incurred' = incurred + (IF task.kind = "spend" THEN cost ELSE 0)
  <2> DEFINE x == m.budget - cost
             y == m.consumed + cost
             r == [m EXCEPT !.budget = @ - cost, !.consumed = @ + cost]
  <2>1. ~ me.settled
    BY <1>5 DEF canCharge, me
  <2>2. x \in Nat /\ y \in Nat /\ r = [m EXCEPT !.budget = x, !.consumed = y]
    BY <1>2, <1>3, <1>5
  <2>3. /\ r \in Meter /\ r.settled = me.settled /\ r.messages = me.messages
        /\ r.budget = x /\ r.consumed = y
    <3> HIDE DEF x, y, r
    <3> QED BY <2>2 DEF Meter
  <2>4. r.consumed = me.consumed + cost /\ r.budget + cost = me.budget + Granting(rpc)
    BY <1>2, <1>3, <2>3
  <2>5. Finish(r, TRUE)
    BY <1>5
  <2>6. PICK paid \in BOOLEAN : paid = TRUE
    OBVIOUS
  <2>7. PICK p \in Nat : p = cost
    BY <1>3
  <2>8. p = (IF paid THEN cost ELSE 0) /\ Finish(r, paid)
    BY <2>5, <2>6, <2>7
  <2> HIDE DEF r
  <2> QED BY <1>5, <2>1, <2>3, <2>4, <2>6, <2>7, <2>8, FinishExactly
<1>6. CASE /\ canCharge(task) /\ m.budget < cost
           /\ rpc' = CallOf("lease", task.sock, want, m.consumed)
           /\ meter' = [meter EXCEPT ![task.sock] = [m EXCEPT !.consumed = 0]]
           /\ queue' = queue /\ Unspent
  <2> DEFINE o == [m EXCEPT !.consumed = 0]
  <2>1. /\ o \in Meter /\ o.consumed = 0 /\ o.budget = m.budget /\ o.messages = m.messages
        /\ o.settled = m.settled
    BY DEF Meter
  <2>2. /\ rpc' \in Call /\ rpc' # NoCall /\ rpc'.reply = Unserved /\ rpc'.sock = task.sock
        /\ rpc'.kind = "lease" /\ rpc'.commit = m.consumed
    <3>1. PICK s \in Sock, w \in Nat, n \in Nat : s = task.sock /\ w = want /\ n = m.consumed
      BY <1>1, <1>2, <1>3
    <3>2. rpc' = CallOf("lease", s, w, n)
      BY <1>6, <3>1
    <3>3. /\ rpc' \in Call /\ rpc' # NoCall /\ rpc'.reply = Unserved /\ rpc'.sock = s
          /\ rpc'.kind = "lease" /\ rpc'.commit = n
      BY ONLY <3>2, NewCall
    <3> QED BY <3>1, <3>3
  <2>3. rpc'.want = want
    BY <1>6 DEF CallOf
  <2>4. ~ me.settled
    BY <1>6 DEF canCharge, me
  <2>5. meter' = [meter EXCEPT ![task.sock] = o] /\ queue' = queue
        /\ spent' = spent /\ incurred' = incurred
    BY <1>6 DEF Unspent
  <2> HIDE DEF o
  <2>6. AsksLease(o)
    BY <1>3, <2>1, <2>2, <2>3, <2>4, <2>5 DEF AsksLease
  <2> QED BY <2>1, <2>5, <2>6 DEF Exactly
<1> QED BY <1>4, <1>5, <1>6 DEF spendBudget

(* Every step of the head but those of a register.                         *)
LEMMA HeadExactly ==
  ASSUME Inv, Held, HeadStep
  PROVE  /\ queue # << >> /\ HeadOnly /\ (rpc = NoCall \/ rpc.reply # Unserved)
         /\ task.kind # "register" /\ TaskOK(task) /\ task.sock \in Sock
         /\ rpc # NoCall => rpc.sock = task.sock
         /\ \E o : Exactly(o)
<1>1. TypeOK /\ ledger.config \in Configs /\ Calling /\ NoneLost
  BY DEF Inv, Held
<1>2. /\ queue # << >> /\ HeadOnly /\ (rpc = NoCall \/ rpc.reply # Unserved)
      /\ \E o, b, u : HeadDoes(o, b, u)
  BY HeadSteps
<1>3. /\ task \in Task /\ task.sock \in Sock /\ task.n \in Nat /\ me \in Meter
      /\ me.budget \in Nat /\ me.consumed \in Nat /\ me.messages \in Nat
  BY <1>1, <1>2, HeadType
<1>4. TaskOK(task) /\ task.kind # "register"
  BY <1>2, TailOf DEF Inv, Queued, TypeOK, task, HeadDoes
<1>5. task.kind \in {"spend", "flush", "settle"}
  BY <1>3, <1>4 DEF Task
<1>6. incurred \in Nat /\ spent \in Nat
  BY <1>1 DEF TypeOK
<1>7. rpc = NoCall => Granting(rpc) = 0
  BY DEF Granting
<1>8. ASSUME Spend PROVE \E o : Exactly(o)
  <2>1. rpc = NoCall /\ spendBudget(me)
    BY <1>8 DEF Spend, Starts
  <2>2. task.kind \in {"spend", "flush"}
    BY <1>8 DEF Spend, Starts
  <2> QED BY <1>1, <1>2, <1>3, <1>4, <1>7, <2>1, <2>2, SpendExactly
<1>9. ASSUME settle PROVE \E o : Exactly(o)
  <2>1. rpc = NoCall /\ task.kind = "settle"
    BY <1>9 DEF settle, Starts
  <2> DEFINE m == [me EXCEPT !.active = FALSE]
  <2>2. /\ m \in Meter /\ m.settled = me.settled /\ m.messages = me.messages
        /\ m.consumed = me.consumed /\ m.budget = me.budget
    BY <1>3 DEF Meter
  <2>3. CASE me.settled /\ queue' = Tail(queue) /\ UNCHANGED <<meter, rpc, spent, incurred>>
    <3>1. PICK o : o = me
      OBVIOUS
    <3>2. Pops(o)
      BY <2>1, <2>3, <3>1 DEF Pops
    <3>3. meter' = [meter EXCEPT ![task.sock] = o]
      BY <1>1, <2>3, <3>1 DEF me, TypeOK
    <3> QED BY <1>3, <3>1, <3>2, <3>3 DEF Exactly
  <2>4. CASE ~ me.settled /\ spendBudget(m)
    <3>1. m.budget = me.budget + Granting(rpc)
      BY <1>3, <1>7, <2>1, <2>2
    <3> HIDE DEF m
    <3> QED BY <1>1, <1>2, <1>4, <1>5, <2>2, <2>4, <3>1, SpendExactly
  <2>5. CASE ~ me.settled /\ Close(m) /\ Unspent /\ ~ me.messages > 0
    <3>1. /\ m.consumed + m.messages = me.consumed + me.messages /\ incurred' = incurred
          /\ spent' = spent + me.messages /\ me.messages <= me.budget + Granting(rpc)
      BY <1>3, <1>6, <1>7, <2>1, <2>2, <2>5 DEF Unspent
    <3> HIDE DEF m
    <3> QED BY <1>1, <1>2, <2>1, <2>2, <2>5, <3>1, CloseExactly
  <2> QED BY <1>9, <2>3, <2>4, <2>5 DEF settle
<1>10. ASSUME rpc # NoCall, rpc.reply # Unserved, rpc.kind = "lease"
       PROVE  /\ rpc.reply.grant \in Nat /\ Granting(rpc) = rpc.reply.grant
              /\ ~ rpc.reply.notOpen /\ ~ me.settled
  <2>1. rpc.reply \in Reply /\ rpc.sock = task.sock
    BY <1>1, <1>10 DEF TypeOK, Call, Calling
  <2>2. ~ rpc.reply.notOpen /\ ~ me.settled
    BY <1>1, <1>10, <2>1 DEF NoneLost, Calls, me
  <2> QED BY <1>10, <2>1, <2>2 DEF Reply, Granting
<1>11. ASSUME LeaseReply PROVE \E o : Exactly(o)
  <2>1. rpc # NoCall /\ rpc.reply # Unserved /\ rpc.kind = "lease"
    BY <1>1, <1>11 DEF LeaseReply, Answered, NoneLost
  <2>2. CASE rpc.reply.grant > 0
    <3> DEFINE x == me.budget + rpc.reply.grant
               m == [me EXCEPT !.budget = @ + rpc.reply.grant]
    <3>1. x \in Nat /\ m = [me EXCEPT !.budget = x]
      BY <1>3, <1>10, <2>1
    <3>2. /\ m \in Meter /\ m.settled = me.settled /\ m.messages = me.messages
          /\ m.consumed = me.consumed /\ m.budget = x
      <4> HIDE DEF x, m
      <4> QED BY <1>3, <3>1 DEF Meter
    <3>3. m.budget = me.budget + Granting(rpc) /\ ~ me.settled
      BY <1>10, <2>1, <3>2
    <3>4. spendBudget(m)
      BY <1>11, <2>2 DEF LeaseReply
    <3> HIDE DEF m
    <3> QED BY <1>1, <1>2, <1>4, <1>5, <3>2, <3>3, <3>4, SpendExactly
  <2>3. CASE ~ rpc.reply.grant > 0
    <3>1. rpc.reply.grant = 0 /\ Granting(rpc) = 0 /\ ~ me.settled
      BY <1>10, <2>1, <2>3
    <3>2. PICK p \in Nat, paid \in BOOLEAN : p = 0 /\ paid = FALSE
      OBVIOUS
    <3>3. Finish(me, paid) /\ spent' = spent /\ incurred' = incurred
      BY <1>11, <2>3, <3>2 DEF LeaseReply, Unspent
    <3>4. /\ me.consumed = me.consumed + p /\ me.budget + p = me.budget + Granting(rpc)
          /\ spent' = spent + p /\ incurred' = incurred + (IF task.kind = "spend" THEN p ELSE 0)
      BY <1>3, <1>6, <3>1, <3>2, <3>3
    <3>5. p = IF paid THEN cost ELSE 0
      BY <3>2
    <3>6. Calls("lease") /\ rpc.reply # Unserved /\ rpc.reply.grant = 0
      BY <2>1, <3>1 DEF Calls
    <3> QED BY <1>1, <1>2, <1>3, <1>4, <3>1, <3>2, <3>3, <3>4, <3>5, <3>6, FinishExactly
  <2> QED BY <2>2, <2>3
<1>12. ~ NotOpen /\ ~ Reauthorized
  BY <1>1, <1>10 DEF NotOpen, Reauthorized, Answered, NoneLost
<1>13. ASSUME CloseReply PROVE \E o : Exactly(o)
  <2>1. /\ task.kind = "settle" /\ me.settled /\ spent' = spent /\ incurred' = incurred
        /\ queue' = Tail(queue) /\ rpc' = NoCall /\ meter' = meter
    BY <1>1, <1>13 DEF CloseReply, Answered, NoneLost, Calls, Unspent
  <2>2. PICK o : o = me
    OBVIOUS
  <2>3. Pops(o)
    BY <2>1, <2>2 DEF Pops
  <2>4. meter' = [meter EXCEPT ![task.sock] = o]
    BY <1>1, <2>1, <2>2 DEF me, TypeOK
  <2> QED BY <1>3, <2>2, <2>3, <2>4 DEF Exactly
<1>14. \E o : Exactly(o)
  BY <1>8, <1>9, <1>11, <1>12, <1>13 DEF HeadStep
<1> QED BY <1>1, <1>2, <1>3, <1>4, <1>14 DEF Calling

--------------------------------------------------------------------------
(* What the account does, exactly                                          *)

(* With nothing to reap and no period over, the account finds its books as *)
(* they were.                                                              *)
LEMMA NoneReaped ==
  ASSUME NEW L \in LedgerType, NEW n \in Nat, Expired(L, n) = {}
  PROVE  /\ Roll(L, n) \in LedgerType /\ Fresh(L, n) \in LedgerType
         /\ Roll(L, n).config = L.config /\ Fresh(L, n).config = L.config
         /\ Roll(L, n).open = L.open /\ Roll(L, n).entry = L.entry
         /\ Fresh(L, n).open = L.open /\ Fresh(L, n).entry = L.entry
<1> DEFINE R == Roll(L, n)
           F == Reap(R, n)
<1>1. R \in LedgerType
  BY RollKeeps
<1>2. R.config = L.config /\ R.open = L.open /\ R.entry = L.entry
  BY DEF Roll, LedgerType
<1>3. Expired(R, n) = {}
  <2> HIDE DEF R
  <2> QED BY <1>2 DEF Expired
<1> HIDE DEF R
<1>4. F \in LedgerType
  BY <1>1, ReapKeeps
<1>5. F.config = R.config /\ F.open = R.open \ Expired(R, n)
      /\ F.entry = [t \in Tunnel |-> IF t \in Expired(R, n) THEN NoEntry ELSE R.entry[t]]
  BY <1>1 DEF Reap, LedgerType
<1>6. F.entry = R.entry
  BY <1>1, <1>3, <1>5 DEF LedgerType
<1> HIDE DEF F
<1> QED BY <1>1, <1>2, <1>3, <1>4, <1>5, <1>6 DEF Fresh, R, F

LEMMA NoneRolled ==
  ASSUME NEW L \in LedgerType, NEW n \in Nat, Expired(L, n) = {},
         L.day = DayKey(n), L.month = MonthKey(n)
  PROVE  Roll(L, n) = L /\ Fresh(L, n) = L
<1>1. Roll(L, n) = L
  BY DEF Roll, LedgerType
<1>2. [t \in Tunnel |-> IF t \in Expired(L, n) THEN L.entry[t].lease ELSE 0] = [t \in 1..NTunnels |-> 0]
  BY DEF Tunnel
<1>3. Total([t \in 1..NTunnels |-> 0], NTunnels) = 0
  BY TotalZero, LedgerAssumption
<1>4. Reap(L, n).leased = Less(L.leased, 0) /\ Less(L.leased, 0) = L.leased
  BY <1>2, <1>3 DEF Reap, LedgerType, Less
<1>5. [t \in Tunnel |-> IF t \in Expired(L, n) THEN NoEntry ELSE L.entry[t]] = L.entry
  BY DEF LedgerType
<1>6. Reap(L, n) = L
  <2>1. L.open \ Expired(L, n) = L.open
    OBVIOUS
  <2>2. Reap(L, n) = [L EXCEPT !.open = L.open, !.entry = L.entry, !.leased = L.leased]
    BY <1>2, <1>3, <1>4, <1>5, <2>1 DEF Reap, LedgerType
  <2> QED BY <2>2 DEF LedgerType
<1> QED BY <1>1, <1>6 DEF Fresh

(* applyCommit, while the only lease is that of this tunnel.               *)
LEMMA CommitExactly ==
  ASSUME NEW L \in LedgerType, NEW c \in Nat
  PROVE  LET M == Commit(L, Id, c)
             p == Smaller(c, L.entry[Id].lease)
         IN  /\ M \in LedgerType /\ M.config = L.config /\ M.open = L.open
             /\ M.day = L.day /\ M.month = L.month
             /\ M.entry[Id].lease = L.entry[Id].lease - p /\ M.entry[Id].regId = L.entry[Id].regId
             /\ M.dayUsed = L.dayUsed + p /\ M.monthUsed = L.monthUsed + p
             /\ L.leased = L.entry[Id].lease => M.leased = L.leased - p
             /\ p \in Nat /\ p <= L.entry[Id].lease /\ p <= c
<1> DEFINE M == Commit(L, Id, c)
           p == Smaller(c, L.entry[Id].lease)
           x == L.entry[Id].lease - p
           e == [L.entry EXCEPT ![Id].lease = @ - p]
<1>1. L.entry[Id] \in Entry /\ Id \in Tunnel /\ L.entry \in [Tunnel -> Entry]
  BY MeteringAssumption DEF LedgerType
<1>2. p \in Nat /\ p <= c /\ p <= L.entry[Id].lease /\ L.entry[Id].lease \in Nat
  BY <1>1 DEF Smaller, Entry
<1> HIDE DEF p
<1>3. M \in LedgerType /\ M.config = L.config /\ M.open = L.open
  BY <1>1, CommitKeeps
<1>4. e[Id].lease = x /\ e[Id].regId = L.entry[Id].regId
  BY <1>1 DEF Entry
<1> HIDE DEF e, x
<1>5. M = [L EXCEPT !.entry = e, !.leased = Less(@, p), !.dayUsed = @ + p, !.monthUsed = @ + p]
  BY DEF Commit, e, p
<1>6. /\ M.entry = e /\ M.leased = Less(L.leased, p) /\ M.dayUsed = L.dayUsed + p
      /\ M.monthUsed = L.monthUsed + p /\ M.day = L.day /\ M.month = L.month
  <2> HIDE DEF M
  <2> QED BY <1>5 DEF LedgerType
<1>7. L.leased = L.entry[Id].lease => Less(L.leased, p) = L.leased - p
  BY <1>2 DEF Less
<1> HIDE DEF M
<1> QED BY <1>2, <1>3, <1>4, <1>6, <1>7 DEF M, x, p

(* A lease that is granted nothing found the day used up, if the limit of  *)
(* the month is not the tighter one.                                       *)
LEMMA GrantExactly ==
  ASSUME NEW L \in LedgerType, NEW w \in Nat, L.config \in Configs
  PROVE  /\ Grant(L, w) \in Nat
         /\ Grant(L, w) > 0 => L.dayUsed + L.leased + Grant(L, w) <= L.config.dayLimit
         /\ /\ Grant(L, w) = 0 /\ L.config.leaseChunk > 0 /\ w >= L.config.leaseChunk
            /\ L.monthUsed = L.dayUsed /\ L.config.monthLimit >= L.config.dayLimit
            => L.dayUsed + L.leased >= L.config.dayLimit
<1>1. L.config \in ConfigType /\ L.config # NoAccount
  BY LedgerAssumption
<1>2. /\ L.config.dayLimit \in Nat /\ L.config.monthLimit \in Nat /\ L.config.leaseChunk \in Nat
      /\ L.dayUsed \in Nat /\ L.monthUsed \in Nat /\ L.leased \in Nat
  BY <1>1 DEF ConfigType, LedgerType
<1>3. /\ Grant(L, w) \in Nat
      /\ Grant(L, w) > 0 => L.dayUsed + L.leased + Grant(L, w) <= L.config.dayLimit
  BY <1>1, GrantType
<1> QED BY <1>1, <1>2, <1>3, SMTT(30) DEF Grant, Smaller, DayRemaining, MonthRemaining

\* What /lease makes of the books L: p is paid out of the lease, g is added to it.
LeaseBooks(L, w, M, p, g) ==
  /\ M.config = L.config /\ M.open = L.open /\ M.day = L.day /\ M.month = L.month
  /\ M.entry[Id].lease = L.entry[Id].lease - p + g
  /\ M.entry[Id].regId = L.entry[Id].regId
  /\ M.dayUsed = L.dayUsed + p /\ M.monthUsed = L.monthUsed + p
  /\ p \in Nat /\ p <= L.entry[Id].lease /\ g \in Nat
  /\ L.leased = L.entry[Id].lease =>
       /\ M.leased = L.leased - p + g
       /\ g > 0 => L.dayUsed + L.leased + g <= L.config.dayLimit
       /\ /\ g = 0 /\ L.config.leaseChunk > 0 /\ w >= L.config.leaseChunk
          /\ L.monthUsed = L.dayUsed /\ L.config.monthLimit >= L.config.dayLimit
          => L.dayUsed + L.leased >= L.config.dayLimit

(* /lease, exactly.                                                        *)
LEMMA LeasedExactly ==
  ASSUME NEW L \in LedgerType, L.config \in Configs, NEW w \in Nat, NEW c \in Nat, NEW n \in Nat
  PROVE  LeaseBooks(L, w, Leased(L, Id, w, c, n), Smaller(c, L.entry[Id].lease),
                    LeaseGrant(L, Id, w, c))
<1> DEFINE P == Commit(L, Id, c)
           M == Leased(L, Id, w, c, n)
           p == Smaller(c, L.entry[Id].lease)
           g == LeaseGrant(L, Id, w, c)
<1>1. /\ P \in LedgerType /\ P.config = L.config /\ P.open = L.open
      /\ P.day = L.day /\ P.month = L.month
      /\ P.entry[Id].lease = L.entry[Id].lease - p /\ P.entry[Id].regId = L.entry[Id].regId
      /\ P.dayUsed = L.dayUsed + p /\ P.monthUsed = L.monthUsed + p
      /\ L.leased = L.entry[Id].lease => P.leased = L.leased - p
      /\ p \in Nat /\ p <= L.entry[Id].lease /\ p <= c
  BY CommitExactly
<1>2. g = Grant(P, w)
  BY DEF LeaseGrant
<1>3. M = [P EXCEPT !.entry[Id].lease = @ + g, !.entry[Id].seen = n, !.leased = @ + g]
  BY <1>2 DEF Leased
<1> HIDE DEF P, p, g
<1>4. /\ g \in Nat
      /\ g > 0 => P.dayUsed + P.leased + g <= P.config.dayLimit
      /\ /\ g = 0 /\ P.config.leaseChunk > 0 /\ w >= P.config.leaseChunk
         /\ P.monthUsed = P.dayUsed /\ P.config.monthLimit >= P.config.dayLimit
         => P.dayUsed + P.leased >= P.config.dayLimit
  BY <1>1, <1>2, GrantExactly
<1>5. /\ M.config = P.config /\ M.open = P.open /\ M.day = P.day /\ M.month = P.month
      /\ M.dayUsed = P.dayUsed /\ M.monthUsed = P.monthUsed /\ M.leased = P.leased + g
      /\ M.entry[Id].lease = P.entry[Id].lease + g /\ M.entry[Id].regId = P.entry[Id].regId
  <2> HIDE DEF M
  <2>1. P.entry \in [Tunnel -> Entry] /\ Id \in Tunnel
    BY <1>1, MeteringAssumption DEF LedgerType
  <2> QED BY <1>1, <1>3, <2>1 DEF LedgerType, Entry
<1>6. /\ L.entry[Id].lease \in Nat /\ L.leased \in Nat /\ L.dayUsed \in Nat /\ L.monthUsed \in Nat
      /\ L.config.dayLimit \in Nat
  BY MeteringAssumption, LedgerAssumption DEF LedgerType, Entry, ConfigType
<1> HIDE DEF M
<1>7. ASSUME L.leased = L.entry[Id].lease
      PROVE  /\ M.leased = L.leased - p + g
             /\ P.dayUsed + P.leased = L.dayUsed + L.leased
             /\ L.monthUsed = L.dayUsed => P.monthUsed = P.dayUsed
  BY <1>1, <1>4, <1>5, <1>6, <1>7
<1>8. M.entry[Id].lease = L.entry[Id].lease - p + g
  BY <1>1, <1>5
<1>9. ASSUME L.leased = L.entry[Id].lease, g > 0 PROVE L.dayUsed + L.leased + g <= L.config.dayLimit
  BY <1>1, <1>4, <1>7, <1>9
<1>10. ASSUME L.leased = L.entry[Id].lease, g = 0, L.config.leaseChunk > 0, w >= L.config.leaseChunk,
              L.monthUsed = L.dayUsed, L.config.monthLimit >= L.config.dayLimit
       PROVE  L.dayUsed + L.leased >= L.config.dayLimit
  BY <1>1, <1>4, <1>7, <1>10
<1>11. LeaseBooks(L, w, M, p, g)
  BY <1>1, <1>4, <1>5, <1>7, <1>8, <1>9, <1>10 DEF LeaseBooks
<1> QED BY <1>11 DEF M, p, g

(* /close, exactly.                                                        *)
LEMMA ClosedExactly ==
  ASSUME NEW L \in LedgerType, NEW c \in Nat
  PROVE  LET M == Closed(L, Id, c)
             p == Smaller(c, L.entry[Id].lease)
         IN  /\ M.config = L.config /\ M.open = L.open \ {Id} /\ M.day = L.day /\ M.month = L.month
             /\ M.entry[Id].lease = 0
             /\ M.dayUsed = L.dayUsed + p /\ M.monthUsed = L.monthUsed + p
             /\ p \in Nat /\ p <= L.entry[Id].lease /\ p <= c
             /\ L.leased = L.entry[Id].lease => M.leased = 0
<1> DEFINE P == Commit(L, Id, c)
           M == Closed(L, Id, c)
           p == Smaller(c, L.entry[Id].lease)
<1>1. /\ P \in LedgerType /\ P.config = L.config /\ P.open = L.open
      /\ P.day = L.day /\ P.month = L.month
      /\ P.entry[Id].lease = L.entry[Id].lease - p
      /\ P.dayUsed = L.dayUsed + p /\ P.monthUsed = L.monthUsed + p
      /\ L.leased = L.entry[Id].lease => P.leased = L.leased - p
      /\ p \in Nat /\ p <= L.entry[Id].lease /\ p <= c
  BY CommitExactly
<1>2. M = [P EXCEPT !.open = @ \ {Id}, !.entry[Id] = NoEntry, !.leased = Less(@, P.entry[Id].lease)]
  BY DEF Closed
<1> HIDE DEF P, M, p
<1>3. /\ M.config = P.config /\ M.open = P.open \ {Id} /\ M.day = P.day /\ M.month = P.month
      /\ M.dayUsed = P.dayUsed /\ M.monthUsed = P.monthUsed
      /\ M.leased = Less(P.leased, P.entry[Id].lease) /\ M.entry[Id] = NoEntry
  BY <1>1, <1>2, MeteringAssumption DEF LedgerType
<1>4. M.entry[Id].lease = 0
  BY <1>3 DEF NoEntry
<1>5. L.leased = L.entry[Id].lease => M.leased = 0
  <2>1. P.entry[Id].lease \in Nat
    BY <1>1, MeteringAssumption DEF LedgerType, Entry
  <2> QED BY <1>1, <1>3, <2>1 DEF Less
<1> QED BY <1>1, <1>3, <1>4, <1>5 DEF M, p

(* /authorize, exactly.                                                    *)
LEMMA AdmittedExactly ==
  ASSUME NEW L \in LedgerType, NEW s \in Sock, NEW n \in Nat
  PROVE  LET M == Admitted(L, Id, s, n)
         IN  /\ M.config = L.config /\ M.open = L.open \cup {Id} /\ M.day = L.day /\ M.month = L.month
             /\ M.entry[Id].lease = L.entry[Id].lease /\ M.entry[Id].regId = s
             /\ M.dayUsed = L.dayUsed /\ M.monthUsed = L.monthUsed /\ M.leased = L.leased
BY MeteringAssumption DEF Admitted, LedgerType, Sock

--------------------------------------------------------------------------
(* The entry is held                                                       *)

HasSettle(q, s) == \E i \in 1..Len(q) : q[i].kind = "settle" /\ q[i].sock = s

(* Where the settlement of a registration stands in the queue.             *)
LEMMA SettleStays ==
  ASSUME NEW q \in Seq(Task), NEW t \in Task, NEW s
  PROVE  /\ HasSettle(q, s) => HasSettle(Append(q, t), s)
         /\ t.kind = "settle" /\ t.sock = s => HasSettle(Append(q, t), s)
         /\ q # << >> /\ ~ (Head(q).kind = "settle" /\ Head(q).sock = s) /\ HasSettle(q, s)
              => HasSettle(Tail(q), s)
         /\ t.kind = "settle" /\ t.sock = s => HasSettle(<<t>> \o q, s)
<1>1. /\ Len(q) \in Nat /\ Len(Append(q, t)) = Len(q) + 1
      /\ \A i \in 1..Len(q) : Append(q, t)[i] = q[i]
      /\ Append(q, t)[Len(q) + 1] = t
  OBVIOUS
<1>2. HasSettle(q, s) => HasSettle(Append(q, t), s)
  BY <1>1 DEF HasSettle
<1>3. t.kind = "settle" /\ t.sock = s => HasSettle(Append(q, t), s)
  BY <1>1 DEF HasSettle
<1>4. ASSUME q # << >>, ~ (Head(q).kind = "settle" /\ Head(q).sock = s), HasSettle(q, s)
      PROVE  HasSettle(Tail(q), s)
  <2>1. /\ Len(Tail(q)) = Len(q) - 1 /\ Head(q) = q[1]
        /\ \A i \in 1..Len(Tail(q)) : Tail(q)[i] = q[i + 1]
    BY <1>4
  <2>2. PICK i \in 1..Len(q) : q[i].kind = "settle" /\ q[i].sock = s
    BY <1>4 DEF HasSettle
  <2>3. i # 1 /\ i - 1 \in 1..Len(Tail(q)) /\ (i - 1) + 1 = i
    BY <1>1, <1>4, <2>1, <2>2
  <2>4. Tail(q)[i - 1] = q[i]
    BY <2>1, <2>3
  <2> QED BY <2>2, <2>3, <2>4 DEF HasSettle
<1>5. ASSUME t.kind = "settle", t.sock = s PROVE HasSettle(<<t>> \o q, s)
  <2>1. Len(<<t>> \o q) = 1 + Len(q) /\ (<<t>> \o q)[1] = t
    BY <1>1
  <2>2. 1 \in 1..Len(<<t>> \o q)
    BY <1>1, <2>1
  <2> QED BY <1>5, <2>1, <2>2 DEF HasSettle
<1> QED BY <1>2, <1>3, <1>4, <1>5

(* Nothing that is held depends on the clock or on the sockets that are up. *)
LEMMA HeldSame ==
  ASSUME Held, UNCHANGED <<ledger, conn, metering, meter, queue, rpc, late>>
  PROVE  Held'
BY DEF Held, NoneLost, HoldersEntered, EntryHeld, WillSettle, Calls, Admitting, Closing, Holder,
       Entered, task, me

(* Traffic of the registered socket, or the end of it: the registration     *)
(* stays the holder, and if it is lost its settlement is queued.            *)
LEMMA TrafficHeld ==
  ASSUME Inv, Held, NEW s \in Sock, conn[s] = "registered", metering' = s,
         NEW m, ~ m.settled, meter' = [meter EXCEPT ![s] = m],
         \/ queue' = queue /\ conn' = conn
         \/ \E t \in Task : queue' = Append(queue, t) /\ conn' = conn
         \/ queue' = Append(queue, TaskOf("settle", s, 0)) /\ conn' = [conn EXCEPT ![s] = "closed"],
         UNCHANGED <<ledger, rpc, late>>
  PROVE  Held'
<1>1. /\ TypeOK /\ OneServes /\ OneReports /\ Calling
      /\ NoneLost /\ HoldersEntered /\ EntryHeld /\ WillSettle
  BY DEF Inv, Held
<1>2. /\ metering \in {s, None} /\ ~ meter[s].settled
      /\ \A o \in Sock : conn[o] = "registered" => o = s
  BY <1>1 DEF OneServes, OneReports
<1>3. /\ meter'[s] = m /\ \A o \in Sock : o # s => meter'[o] = meter[o]
      /\ \A o \in Sock : o # s => conn'[o] = conn[o]
  BY <1>1 DEF TypeOK
<1>4. s # None
  BY MeteringAssumption
<1>5. \A o \in Sock : Holder(o)' <=> Holder(o)
  BY <1>2, <1>3, <1>4, MeteringAssumption DEF Holder
<1>6. PICK t \in Task : \/ queue' = queue /\ conn' = conn
                        \/ queue' = Append(queue, t) /\ conn' = conn
                        \/ queue' = Append(queue, t) /\ t.kind = "settle" /\ t.sock = s
  <2>1. TaskOf("settle", s, 0) \in Task /\ TaskOf("settle", s, 0).kind = "settle"
        /\ TaskOf("settle", s, 0).sock = s
    BY DEF TaskOf, Task
  <2> QED BY <2>1
<1>7. rpc # NoCall => queue # << >> /\ task' = task /\ rpc.sock = task.sock
  BY <1>1, <1>6, AppendOf DEF Calling, task, TypeOK
<1>8. /\ Calls("authorize")' = Calls("authorize") /\ Calls("lease")' = Calls("lease")
      /\ Calls("close")' = Calls("close") /\ Admitting' = Admitting /\ Closing' = Closing
      /\ \A o : Entered(o)' = Entered(o)
  BY DEF Calls, Admitting, Closing, Entered
<1>9. NoneLost'
  <2>1. rpc # NoCall => rpc.sock \in Sock
    BY <1>1 DEF TypeOK, Call
  <2>2. Calls("lease") => metering' = rpc.sock /\ ~ meter'[rpc.sock].settled
    BY <1>1, <1>2, <1>3, <2>1, MeteringAssumption DEF NoneLost, Calls
  <2>3. Calls("close") => task'.kind = "settle" /\ me'.settled
    <3>1. Calls("close") => task.kind = "settle" /\ meter[rpc.sock].settled
      BY <1>1, <1>7 DEF NoneLost, Calls, me
    <3> QED BY <1>2, <1>3, <1>7, <2>1, <3>1 DEF Calls, me
  <2> QED BY <1>1, <1>5, <1>8, <2>1, <2>2, <2>3 DEF NoneLost
<1>10. HoldersEntered' /\ EntryHeld'
  BY <1>1, <1>5, <1>8 DEF HoldersEntered, EntryHeld
<1>11. WillSettle'
  <2>1. HasSettle(queue', s) \/ conn' = conn
    <3>1. queue \in Seq(Task)
      BY <1>1 DEF TypeOK
    <3>2. t.kind = "settle" /\ t.sock = s => HasSettle(Append(queue, t), s)
      BY <3>1, SettleStays
    <3> QED BY <1>6, <3>2
  <2> QED BY <2>1, MeteringAssumption DEF WillSettle, HasSettle
<1> QED BY <1>9, <1>10, <1>11 DEF Held

LEMMA TrafficStepsHeld ==
  ASSUME Inv, Held, NEW s \in Sock,
         Request(s) \/ BrowserFrame(s) \/ ControlFrame(s) \/ webSocketClose(s)
  PROVE  Held'
<1>1. TypeOK /\ OneServes /\ OneReports
  BY DEF Inv
<1>2. meteringFor(s) \in Meter /\ (conn[s] = "registered" => ~ meteringFor(s).settled)
  BY <1>1 DEF meteringFor, newMetering, Meter, TypeOK, OneReports
<1>3. UNCHANGED <<ledger, rpc, late>> /\ conn[s] = "registered"
  BY DEF Request, BrowserFrame, ControlFrame, webSocketClose, ctl
<1>4. CASE Request(s)
  <2>1. /\ metering' = s /\ meter' = [meter EXCEPT ![s] = meteringFor(s)] /\ conn' = conn
        /\ queue' = Append(queue, TaskOf("spend", s, 1))
    BY <1>4 DEF Request, Ordered
  <2>2. TaskOf("spend", s, 1) \in Task
    BY DEF TaskOf, Task
  <2> QED BY <1>2, <1>3, <2>1, <2>2, TrafficHeld
<1>5. CASE BrowserFrame(s)
  <2> DEFINE m == [meter[s] EXCEPT !.budget = @ - 1, !.consumed = @ + 1]
  <2>1. metering' = s /\ conn' = conn /\ queue' = queue
    BY <1>5 DEF BrowserFrame, ownsMetering
  <2>2. meter' = [meter EXCEPT ![s] = m]
    <3>1. meter' = [meter EXCEPT ![s].budget = @ - 1, ![s].consumed = @ + 1]
      BY <1>5 DEF BrowserFrame
    <3>2. meter \in [Sock -> Meter] /\ meter[s] \in Meter
      BY <1>1 DEF TypeOK
    <3>3. \A r \in Sock : meter'[r] = IF r = s THEN m ELSE meter[r]
      BY <3>1, <3>2 DEF Meter
    <3>4. meter' = [r \in Sock |-> meter'[r]]
      BY <3>1, <3>2
    <3> HIDE DEF m
    <3> QED BY <3>2, <3>3, <3>4
  <2>3. ~ m.settled
    BY <1>1, <1>5 DEF BrowserFrame, ownsMetering, TypeOK, Meter
  <2> HIDE DEF m
  <2> QED BY <1>3, <2>1, <2>2, <2>3, TrafficHeld
<1>6. CASE ControlFrame(s)
  <2> DEFINE m == [meteringFor(s) EXCEPT !.messages = @ + 1]
  <2>1. ~ m.settled
    BY <1>2, <1>3 DEF Meter
  <2>2. metering' = s /\ conn' = conn
    BY <1>6 DEF ControlFrame
  <2>3. CASE meter' = [meter EXCEPT ![s] = m] /\ queue' = queue
    <3> HIDE DEF m
    <3> QED BY <1>3, <2>1, <2>2, <2>3, TrafficHeld
  <2>4. CASE /\ meter' = [meter EXCEPT ![s] = [m EXCEPT !.flushQueued = TRUE]]
             /\ queue' = Append(queue, Batch(s, m))
    <3> DEFINE x == [m EXCEPT !.flushQueued = TRUE]
    <3>1. ~ x.settled /\ m.messages \in Nat
      BY <1>2, <2>1 DEF Meter
    <3> HIDE DEF m
    <3>2. Batch(s, m) \in Task
      BY <3>1, MeteringAssumption DEF Batch, TaskOf, Task
    <3> HIDE DEF x
    <3> QED BY <1>3, <2>2, <2>4, <3>1, <3>2, TrafficHeld DEF x
  <2> QED BY <1>6, <2>3, <2>4 DEF ControlFrame, Ordered
<1>7. CASE webSocketClose(s)
  <2> DEFINE m == [meteringFor(s) EXCEPT !.active = FALSE]
  <2>1. ~ m.settled
    BY <1>2, <1>3 DEF Meter
  <2>2. /\ metering' = s /\ meter' = [meter EXCEPT ![s] = m] /\ conn' = [conn EXCEPT ![s] = "closed"]
        /\ queue' = Append(queue, TaskOf("settle", s, 0))
    BY <1>7 DEF webSocketClose, Ordered
  <2> HIDE DEF m
  <2> QED BY <1>3, <2>1, <2>2, TrafficHeld
<1> QED BY <1>4, <1>5, <1>6, <1>7

(* A connection asks to be registered.                                     *)
LEMMA ConnectHeld ==
  ASSUME Inv, Held, NEW s \in Sock, Connect(s)
  PROVE  Held'
<1>1. /\ TypeOK /\ OneServes /\ Calling
      /\ NoneLost /\ HoldersEntered /\ EntryHeld /\ WillSettle
  BY DEF Inv, Held
<1>2. /\ conn[s] = "none" /\ conn' = [conn EXCEPT ![s] = "accepted"]
      /\ queue' = Append(queue, TaskOf("register", s, 0))
      /\ UNCHANGED <<ledger, metering, meter, rpc, late>>
  BY DEF Connect, Ordered
<1>3. PICK t \in Task : t = TaskOf("register", s, 0)
  BY DEF TaskOf, Task
<1>4. \A o \in Sock : (conn'[o] = "registered") <=> (conn[o] = "registered")
  BY <1>1, <1>2 DEF TypeOK
<1>5. \A o \in Sock : Holder(o)' <=> Holder(o)
  BY <1>2, <1>4 DEF Holder
<1>6. rpc # NoCall => queue # << >> /\ task' = task
  BY <1>1, <1>2, <1>3, AppendOf DEF Calling, task, TypeOK
<1>7. /\ Calls("authorize")' = Calls("authorize") /\ Calls("lease")' = Calls("lease")
      /\ Calls("close")' = Calls("close") /\ Admitting' = Admitting /\ Closing' = Closing
      /\ \A o : Entered(o)' = Entered(o)
  BY <1>2 DEF Calls, Admitting, Closing, Entered
<1>8. NoneLost'
  BY <1>1, <1>2, <1>5, <1>6, <1>7 DEF NoneLost, Calls, me
<1>9. HoldersEntered' /\ EntryHeld'
  BY <1>1, <1>2, <1>5, <1>7 DEF HoldersEntered, EntryHeld
<1>10. WillSettle'
  <2>1. \A o \in Sock : HasSettle(queue, o) => HasSettle(queue', o)
    BY <1>1, <1>2, <1>3, SettleStays DEF TypeOK
  <2> QED BY <1>1, <1>2, <1>4, <2>1 DEF WillSettle, HasSettle
<1> QED BY <1>8, <1>9, <1>10 DEF Held

(* The object sleeps only when nothing is queued: nothing is lost but what *)
(* the registered socket has in memory.                                    *)
LEMMA HibernateHeld ==
  ASSUME Inv, Held, Hibernate
  PROVE  Held'
<1>1. /\ TypeOK /\ OneServes /\ Calling
      /\ NoneLost /\ HoldersEntered /\ EntryHeld /\ WillSettle
  BY DEF Inv, Held
<1>2. /\ queue = << >> /\ metering' = None /\ meter' = [s \in Sock |-> newMetering]
      /\ UNCHANGED <<ledger, conn, queue, rpc, late>>
  BY DEF Hibernate
<1>3. rpc = NoCall
  BY <1>1, <1>2 DEF Calling
<1>4. ~ Admitting /\ ~ Closing /\ \A k : ~ Calls(k) /\ ~ Calls(k)'
  BY <1>2, <1>3 DEF Admitting, Closing, Calls
<1>5. \A s \in Sock : Holder(s) => conn[s] = "registered"
  BY <1>1, <1>2 DEF Holder, WillSettle
<1>6. \A s \in Sock : Holder(s)' <=> Holder(s)
  BY <1>2, <1>5, MeteringAssumption DEF Holder
<1>7. \A s : Entered(s)' = Entered(s)
  BY <1>2 DEF Entered
<1>8. NoneLost'
  BY <1>1, <1>2, <1>3, <1>4 DEF NoneLost, Admitting, Closing
<1>9. HoldersEntered' /\ EntryHeld'
  BY <1>1, <1>2, <1>4, <1>6, <1>7 DEF HoldersEntered, EntryHeld
<1>10. WillSettle'
  BY <1>2, MeteringAssumption DEF WillSettle
<1> QED BY <1>8, <1>9, <1>10 DEF Held

(* A register begins, or its connection is refused or gone: a connection   *)
(* that was not yet registered holds nothing.                              *)
LEMMA RegisterHeld ==
  ASSUME Inv, Held, Register \/ Rejected
  PROVE  Held'
<1>1. /\ TypeOK /\ OneServes /\ Calling /\ Queued
      /\ NoneLost /\ HoldersEntered /\ EntryHeld /\ WillSettle
  BY DEF Inv, Held
<1>2. queue # << >> /\ task.kind = "register"
  BY <1>1 DEF Register, Rejected, Starts, Answered, Calling
<1>3. task \in Task /\ task.sock \in Sock /\ conn[task.sock] = "accepted" /\ metering # task.sock
      /\ Tail(queue) \in Seq(Task) /\ queue \in Seq(Task)
  <2>1. task \in Task /\ task.sock \in Sock /\ Tail(queue) \in Seq(Task) /\ queue \in Seq(Task)
    BY <1>1, <1>2, HeadType DEF TypeOK
  <2>2. TaskOK(task)
    BY <1>1, <1>2, TailOf DEF TypeOK, Queued, task
  <2> QED BY <1>1, <1>2, <2>1, <2>2 DEF TaskOK, OneServes
<1>4. UNCHANGED <<ledger, metering, meter, late>>
  BY DEF Register, Rejected, HeadOnly
<1>5. /\ ~ Admitting /\ ~ Closing /\ ~ Calls("lease") /\ ~ Calls("close")
  BY <1>1, <1>2 DEF Register, Rejected, Starts, Answered, Calls, Admitting, Closing, Calling
<1>6. /\ rpc' = NoCall \/ (rpc' # NoCall /\ rpc'.kind = "authorize" /\ rpc'.reply = Unserved)
      /\ queue' = queue \/ queue' = Tail(queue)
      /\ \A o \in Sock : (conn'[o] = "registered") <=> (conn[o] = "registered")
  <2>1. CASE Register
    <3>1. conn' = conn
      BY <2>1 DEF Register, HeadOnly
    <3>2. CASE rpc' = CallOf("authorize", task.sock, 0, 0) /\ queue' = queue
      <4>1. PICK z \in Nat : z = 0
        OBVIOUS
      <4>2. rpc' = CallOf("authorize", task.sock, z, z)
        BY <3>2, <4>1
      <4> QED BY <1>3, <3>1, <3>2, <4>2, NewCall
    <3> QED BY <2>1, <3>1, <3>2 DEF Register
  <2>2. CASE Rejected
    <3>1. conn' = [conn EXCEPT ![task.sock] = "closed"] /\ queue' = Tail(queue) /\ rpc' = NoCall
      BY <2>2 DEF Rejected
    <3> QED BY <1>1, <1>3, <3>1 DEF TypeOK
  <2> QED BY <2>1, <2>2
<1>7. \A o \in Sock : Holder(o)' <=> Holder(o)
  BY <1>4, <1>6 DEF Holder
<1>8. ~ Admitting' /\ ~ Closing' /\ ~ Calls("lease")' /\ ~ Calls("close")' /\ \A o : Entered(o)' = Entered(o)
  BY <1>4, <1>6 DEF Admitting, Closing, Calls, Entered
<1>9. NoneLost'
  BY <1>1, <1>4, <1>6, <1>8 DEF NoneLost
<1>10. HoldersEntered' /\ EntryHeld'
  BY <1>1, <1>4, <1>5, <1>7, <1>8 DEF HoldersEntered, EntryHeld
<1>11. WillSettle'
  <2>1. \A o \in Sock : HasSettle(queue, o) => HasSettle(Tail(queue), o)
    BY <1>2, <1>3, SettleStays DEF task
  <2>2. \A o \in Sock : HasSettle(queue, o) => HasSettle(queue', o)
    BY <1>6, <2>1
  <2> QED BY <1>1, <1>4, <1>6, <2>2 DEF WillSettle, HasSettle
<1> QED BY <1>9, <1>10, <1>11 DEF Held

(* A step of the head: a registration ceases to hold the entry only with   *)
(* the close that gives it up.                                             *)
LEMMA HeadHeld ==
  ASSUME Inv, Held, HeadStep
  PROVE  Held'
<1>1. /\ TypeOK /\ OneServes /\ OneReports /\ Calling
      /\ NoneLost /\ HoldersEntered /\ EntryHeld /\ WillSettle
  BY DEF Inv, Held
<1>2. /\ queue # << >> /\ HeadOnly /\ (rpc = NoCall \/ rpc.reply # Unserved)
      /\ task.kind # "register" /\ TaskOK(task) /\ task.sock \in Sock
      /\ rpc # NoCall => rpc.sock = task.sock
  BY HeadExactly
<1>3. PICK o : Exactly(o)
  BY HeadExactly
<1>4. PICK s : s = task.sock
  OBVIOUS
<1>5. /\ UNCHANGED <<ledger, conn, metering, late>>
      /\ meter'[s] = o /\ \A r \in Sock : r # s => meter'[r] = meter[r]
      /\ me = meter[s] /\ s \in Sock
  BY <1>1, <1>2, <1>3, <1>4 DEF HeadOnly, Exactly, TypeOK, me
<1>6. ~ Admitting /\ ~ Closing
  BY <1>1, <1>2 DEF Admitting, Closing, Calls, Calling
<1>7. ~ me.settled => metering = s
  BY <1>2, <1>4, <1>5 DEF TaskOK
<1>8. \A r : Entered(r)' = Entered(r)
  BY <1>5 DEF Entered
<1>9. CASE Pops(o)
  <2>1. rpc' = NoCall /\ o.settled = me.settled /\ (task.kind = "settle" => me.settled)
    BY <1>9 DEF Pops
  <2>2. \A r \in Sock : Holder(r)' <=> Holder(r)
    BY <1>5, <2>1 DEF Holder
  <2>3. ~ Admitting' /\ ~ Closing' /\ \A k : ~ Calls(k)'
    BY <2>1 DEF Admitting, Closing, Calls
  <2>4. NoneLost'
    BY <1>1, <1>5, <2>1, <2>3 DEF NoneLost
  <2>5. HoldersEntered' /\ EntryHeld'
    BY <1>1, <1>5, <1>6, <1>8, <2>2, <2>3 DEF HoldersEntered, EntryHeld
  <2>6. WillSettle'
    <3> SUFFICES ASSUME NEW r \in Sock, metering = r, ~ meter'[r].settled, conn[r] # "registered"
                 PROVE  HasSettle(queue', r)
      BY <1>5 DEF WillSettle, HasSettle
    <3>1. ~ meter[r].settled
      BY <1>5, <2>1
    <3>2. HasSettle(queue, r)
      BY <1>1, <3>1 DEF WillSettle, HasSettle
    <3>3. ~ (task.kind = "settle" /\ task.sock = r)
      BY <1>4, <1>5, <2>1, <3>1
    <3>4. queue \in Seq(Task) /\ Tail(queue) \in Seq(Task) /\ \A n \in Nat : TaskOf("flush", s, n) \in Task
      BY <1>1, <1>2, <1>5, HeadType DEF TypeOK, TaskOf, Task
    <3>5. HasSettle(Tail(queue), r)
      <4>1. PICK t \in Task : TRUE
        BY <1>1, <1>2, HeadType
      <4> QED BY <1>2, <3>2, <3>3, <3>4, SettleStays DEF task
    <3>6. \A n \in Nat : HasSettle(Append(Tail(queue), TaskOf("flush", s, n)), r)
      BY <3>4, <3>5, SettleStays
    <3> QED BY <1>4, <1>9, <3>5, <3>6 DEF Pops
  <2> QED BY <2>4, <2>5, <2>6 DEF Held
<1>10. CASE AsksLease(o)
  <2>1. /\ rpc' # NoCall /\ rpc'.kind = "lease" /\ rpc'.reply = Unserved /\ rpc'.sock = s
        /\ queue' = queue /\ ~ me.settled /\ ~ o.settled
    BY <1>4, <1>10 DEF AsksLease
  <2>2. \A r \in Sock : Holder(r)' <=> Holder(r)
    BY <1>5, <2>1 DEF Holder
  <2>3. ~ Admitting' /\ ~ Closing' /\ ~ Calls("close")'
    BY <2>1 DEF Admitting, Closing, Calls
  <2>4. NoneLost'
    BY <1>1, <1>5, <1>7, <2>1, <2>3 DEF NoneLost
  <2>5. HoldersEntered' /\ EntryHeld'
    BY <1>1, <1>5, <1>6, <1>8, <2>2, <2>3 DEF HoldersEntered, EntryHeld
  <2>6. WillSettle'
    BY <1>1, <1>5, <2>1 DEF WillSettle
  <2> QED BY <2>4, <2>5, <2>6 DEF Held
<1>11. CASE Closes(o)
  <2>1. /\ rpc' # NoCall /\ rpc'.kind = "close" /\ rpc'.reply = Unserved /\ rpc'.sock = s
        /\ queue' = queue /\ ~ me.settled /\ o.settled /\ task.kind = "settle"
    BY <1>4, <1>11 DEF Closes
  <2>2. conn[s] = "closed" /\ metering = s
    BY <1>2, <1>4, <1>7, <2>1 DEF TaskOK
  <2>3. \A r \in Sock : conn[r] # "registered"
    BY <1>1, <1>5, <2>2, MeteringAssumption DEF OneServes
  <2>4. \A r \in Sock : ~ Holder(r)'
    BY <1>5, <2>1, <2>2, <2>3 DEF Holder
  <2>5. Entered(s) /\ \A r \in Sock : Entered(r) => r = s
    BY <1>1, <1>5, <1>6, <2>1, <2>2 DEF HoldersEntered, Holder, Entered
  <2>6. ~ Admitting' /\ Closing' /\ ~ Calls("lease")'
    BY <2>1 DEF Admitting, Closing, Calls
  <2>7. task' = task /\ me'.settled
    BY <1>4, <1>5, <2>1 DEF task, me
  <2>8. NoneLost'
    BY <1>1, <1>5, <1>8, <2>1, <2>4, <2>5, <2>6, <2>7 DEF NoneLost
  <2>9. HoldersEntered' /\ EntryHeld'
    BY <1>1, <1>5, <2>4, <2>6 DEF HoldersEntered, EntryHeld
  <2>10. WillSettle'
    BY <1>5, <2>1, <2>2 DEF WillSettle
  <2> QED BY <2>8, <2>9, <2>10 DEF Held
<1> QED BY <1>3, <1>9, <1>10, <1>11 DEF Exactly

\* The registration this.metering belongs to is not settled.
Serving == metering # None /\ ~ meter[metering].settled

(* The registration published: who serves from now on, and what it takes   *)
(* over from its predecessor.                                              *)
LEMMA RegisteredDoes ==
  ASSUME Inv, Registered
  PROVE  \E s \in Sock, x \in Meter :
           /\ rpc.sock = s /\ conn[s] = "accepted" /\ metering # s /\ Admitting
           /\ rpc.reply \in Reply
           /\ \A o \in Sock : o # s => conn'[o] # "registered"
           /\ metering' = s /\ meter'[s] = x /\ ~ x.settled
           /\ rpc' = NoCall /\ UNCHANGED <<ledger, now, late, spent, incurred>>
           /\ conn'[s] # "registered" => HasSettle(queue', s)
           /\ ~ Serving => x.budget = 0 /\ x.consumed = 0 /\ x.messages = 0
           /\ Serving => /\ x.consumed = meter[metering].consumed
                         /\ x.messages = meter[metering].messages
                         /\ rpc.reply.carried = metering =>
                              x.budget = Smaller(meter[metering].budget,
                                                 Less(rpc.reply.credits, meter[metering].consumed))
<1>1. /\ TypeOK /\ OneServes /\ OneReports /\ Queued /\ Calling
  BY DEF Inv
<1>2. Admitting
  BY DEF Registered, Answered, Admitting, Calls
<1>3. PICK s, a, m, flush :
        /\ s = task.sock /\ a = rpc.reply
        /\ m = IF Serving THEN Carried(metering, a) ELSE newMetering
        /\ flush = (s \in up /\ WantsFlush(m))
  OBVIOUS
<1>4. /\ queue # << >> /\ rpc.sock = s /\ task.kind = "register" /\ task \in Task /\ s \in Sock
      /\ a \in Reply /\ Tail(queue) \in Seq(Task)
  <2>1. queue # << >> /\ rpc.sock = s /\ task.kind = "register"
    BY <1>1, <1>2, <1>3 DEF Calling, Admitting, Calls
  <2>2. task \in Task /\ task.sock \in Sock /\ Tail(queue) \in Seq(Task)
    BY <1>1, <2>1, HeadType
  <2>3. a \in Reply
    BY <1>1, <1>2, <1>3 DEF TypeOK, Call, Admitting, Calls
  <2> QED BY <1>3, <2>1, <2>2, <2>3
<1>5. conn[s] = "accepted" /\ metering # s
  <2>1. TaskOK(task)
    BY <1>1, <1>4, TailOf DEF TypeOK, Queued, task
  <2> QED BY <1>1, <1>3, <1>4, <2>1 DEF OneServes, TaskOK
<1>6. /\ m \in Meter /\ ~ m.settled
      /\ ~ Serving => m.budget = 0 /\ m.consumed = 0 /\ m.messages = 0
      /\ Serving => /\ m.consumed = meter[metering].consumed
                    /\ m.messages = meter[metering].messages
                    /\ rpc.reply.carried = metering =>
                         m.budget = Smaller(meter[metering].budget,
                                            Less(rpc.reply.credits, meter[metering].consumed))
  <2>1. CASE Serving
    <3>1. metering \in Sock
      BY <1>1, <2>1 DEF Serving, TypeOK
    <3>2. m = Carried(metering, a)
      BY <1>3, <2>1
    <3>3. m \in Meter /\ ~ m.settled /\ m.consumed = meter[metering].consumed
          /\ m.messages = meter[metering].messages
      BY <1>1, <1>4, <3>1, <3>2, HandOver
    <3>4. m.budget = IF a.carried = metering
                     THEN Smaller(meter[metering].budget, Less(a.credits, meter[metering].consumed))
                     ELSE 0
      BY <3>2 DEF Carried, newMetering
    <3> QED BY <1>3, <2>1, <3>3, <3>4
  <2>2. CASE ~ Serving
    BY <1>3, <2>2 DEF newMetering, Meter
  <2> QED BY <2>1, <2>2
<1>7. PICK x : x = [m EXCEPT !.flushQueued = flush, !.active = s \in up]
  OBVIOUS
<1>8. /\ x \in Meter /\ ~ x.settled
      /\ x.budget = m.budget /\ x.consumed = m.consumed /\ x.messages = m.messages
  <2>1. flush \in BOOLEAN /\ (s \in up) \in BOOLEAN
    BY <1>3
  <2> QED BY <1>6, <1>7, <2>1 DEF Meter
<1>9. /\ conn' = [o \in Sock |-> IF o = s THEN IF s \in up THEN "registered" ELSE "closed"
                                 ELSE IF o \in {r \in Sock : conn[r] = "registered"}
                                      THEN "superseded" ELSE conn[o]]
      /\ metering' = s
      /\ queue' = IF s \notin up THEN <<TaskOf("settle", s, 0)>> \o Tail(queue)
                  ELSE IF flush THEN Append(Tail(queue), Batch(s, m)) ELSE Tail(queue)
      /\ rpc' = NoCall /\ UNCHANGED <<ledger, now, late, spent, incurred>>
  BY <1>3 DEF Registered, Ordered, Serving
<1>10. meter'[s] = x
  <2>1. meter' = [[p \in Sock |->
                     IF Serving /\ p = metering
                     THEN [meter[p] EXCEPT !.active = FALSE, !.settled = TRUE, !.budget = 0,
                                           !.consumed = 0, !.messages = 0]
                     ELSE meter[p]] EXCEPT ![s] = x]
    BY <1>3, <1>7 DEF Registered, Serving
  <2> QED BY <1>4, <2>1
<1>11. \A o \in Sock : o # s => conn'[o] # "registered"
  BY <1>9
<1>12. conn'[s] # "registered" => HasSettle(queue', s)
  <2>1. TaskOf("settle", s, 0) \in Task /\ TaskOf("settle", s, 0).kind = "settle"
        /\ TaskOf("settle", s, 0).sock = s
    BY <1>4 DEF TaskOf, Task
  <2>2. HasSettle(<<TaskOf("settle", s, 0)>> \o Tail(queue), s)
    BY <1>4, <2>1, SettleStays
  <2>3. conn'[s] # "registered" => s \notin up
    BY <1>4, <1>9
  <2> QED BY <1>9, <2>2, <2>3
<1>13. /\ ~ Serving => x.budget = 0 /\ x.consumed = 0 /\ x.messages = 0
       /\ Serving => /\ x.consumed = meter[metering].consumed
                     /\ x.messages = meter[metering].messages
                     /\ rpc.reply.carried = metering =>
                          x.budget = Smaller(meter[metering].budget,
                                             Less(rpc.reply.credits, meter[metering].consumed))
  BY <1>6, <1>8
<1>14. rpc.reply \in Reply
  BY <1>3, <1>4
<1> HIDE DEF Serving
<1> QED BY <1>2, <1>4, <1>5, <1>8, <1>9, <1>10, <1>11, <1>12, <1>13, <1>14

LEMMA RegisteredHeld ==
  ASSUME Inv, Held, Registered
  PROVE  Held'
<1>1. NoneLost /\ EntryHeld
  BY DEF Held
<1>2. PICK s \in Sock, x \in Meter :
           /\ rpc.sock = s /\ Admitting
           /\ \A o \in Sock : o # s => conn'[o] # "registered"
           /\ metering' = s /\ meter'[s] = x /\ ~ x.settled
           /\ rpc' = NoCall /\ UNCHANGED <<ledger, late>>
           /\ conn'[s] # "registered" => HasSettle(queue', s)
  BY RegisteredDoes
<1>3. Entered(s) /\ \A o \in Sock : Entered(o)' <=> o = s
  BY <1>1, <1>2 DEF NoneLost, Entered
<1>4. ~ Admitting' /\ ~ Closing' /\ \A k : ~ Calls(k)'
  BY <1>2 DEF Admitting, Closing, Calls
<1>5. \A o \in Sock : Holder(o)' <=> o = s
  BY <1>2 DEF Holder
<1>6. NoneLost'
  BY <1>1, <1>2, <1>4 DEF NoneLost
<1>7. HoldersEntered' /\ EntryHeld'
  BY <1>1, <1>2, <1>3, <1>5 DEF HoldersEntered, EntryHeld
<1>8. WillSettle'
  BY <1>2 DEF WillSettle, HasSettle
<1> QED BY <1>6, <1>7, <1>8 DEF Held

(* What the account makes of a call, when the one who asks for a lease or   *)
(* closes is the one that has the entry.                                   *)
LEMMA ServeExactly ==
  ASSUME Inv, Held, NothingExpires, Serve
  PROVE  LET F == Fresh(ledger, now)
             R == Roll(ledger, now)
             a == rpc'.reply
         IN  /\ rpc # NoCall /\ rpc.reply = Unserved
             /\ rpc.sock \in Sock /\ rpc.commit \in Nat /\ rpc.want \in Nat
             /\ rpc' \in Call /\ rpc' # NoCall /\ rpc'.kind = rpc.kind /\ rpc'.sock = rpc.sock
             /\ rpc'.want = rpc.want /\ rpc'.commit = rpc.commit
             /\ a \in Reply /\ a # Unserved
             /\ UNCHANGED <<now, conn, up, metering, meter, queue, late, spent, incurred>>
             /\ \/ /\ rpc.kind = "authorize" /\ ~ a.ok /\ a.grant = 0
                   /\ ledger' = ledger \/ ledger' = F
                \/ /\ rpc.kind = "authorize" /\ a.ok /\ a.grant = 0
                   /\ a.carried = F.entry[Id].regId /\ a.credits = F.entry[Id].lease
                   /\ ledger' = Admitted(F, Id, rpc.sock, now)
                \/ /\ rpc.kind = "lease" /\ ~ a.notOpen
                   /\ a.grant = LeaseGrant(F, Id, rpc.want, rpc.commit)
                   /\ ledger' = Leased(F, Id, rpc.want, rpc.commit, now)
                \/ /\ rpc.kind = "close" /\ a.grant = 0
                   /\ ledger' = Closed(R, Id, rpc.commit)
<1>1. /\ TypeOK /\ OneServes /\ Calling /\ ledger.config \in Configs /\ Owned(ledger)
      /\ NoneLost /\ HoldersEntered
  BY DEF Inv, Held
<1>2. PICK F, R, a : F = Fresh(ledger, now) /\ R = Roll(ledger, now) /\ a = Answer(rpc, F)
  OBVIOUS
<1>3. /\ rpc # NoCall /\ rpc.reply = Unserved
      /\ ledger' = Effect(rpc, F, R)
      /\ rpc' = [rpc EXCEPT !.reply = a]
      /\ UNCHANGED <<now, conn, up, metering, meter, queue, late, spent, incurred>>
  BY <1>2 DEF Serve
<1>4. /\ rpc \in Call /\ rpc.sock \in Sock /\ rpc.commit \in Nat /\ rpc.want \in Nat
      /\ rpc.kind \in {"authorize", "lease", "close"}
  BY <1>1, <1>3 DEF TypeOK, Call, NoneLost
<1>5. a \in Reply
  BY <1>1, <1>2, <1>4, ServeDoes DEF TypeOK
<1>6. /\ rpc' \in Call /\ rpc' # NoCall /\ rpc'.kind = rpc.kind /\ rpc'.sock = rpc.sock
      /\ rpc'.want = rpc.want /\ rpc'.commit = rpc.commit
      /\ rpc'.reply = a /\ rpc'.reply # Unserved
  <2>1. /\ rpc' \in Call /\ rpc'.kind = rpc.kind /\ rpc'.sock = rpc.sock /\ rpc'.reply = a
        /\ rpc'.want = rpc.want /\ rpc'.commit = rpc.commit
    BY <1>3, <1>4, <1>5 DEF Call
  <2> QED BY <1>5, <2>1, MeteringAssumption
<1>7. /\ F.config = ledger.config /\ F.open = ledger.open /\ F.entry = ledger.entry
      /\ R.open = ledger.open /\ R.entry = ledger.entry
  BY <1>1, <1>2, NoneReaped DEF NothingExpires, TypeOK
<1>8. Refused \in Reply /\ Refused.grant = 0 /\ ~ Refused.ok /\ ~ Refused.notOpen
  BY DEF Refused, Reply
<1>9. F.entry[Id].lease \in Nat /\ F.entry[Id].regId \in Sock \cup {Blank}
  BY <1>1, <1>7, MeteringAssumption DEF TypeOK, LedgerType, Entry, Sock
<1>10. CASE rpc.kind = "authorize"
  <2>1. CASE ~ (Accepts(ledger, LegacySecret) /\ Admits(F, Id))
    <3>1. a = Refused
      BY <1>2, <1>10, <2>1 DEF Answer
    <3>2. ledger' = ledger \/ ledger' = F
      BY <1>3, <1>10, <2>1 DEF Effect
    <3> QED BY <1>2, <1>3, <1>4, <1>5, <1>6, <1>8, <1>10, <3>1, <3>2
  <2>2. CASE Accepts(ledger, LegacySecret) /\ Admits(F, Id)
    <3>1. a = [Refused EXCEPT !.ok = TRUE, !.carried = F.entry[Id].regId, !.credits = F.entry[Id].lease]
      BY <1>2, <1>10, <2>2 DEF Answer
    <3>2. /\ a.ok /\ a.grant = 0 /\ a.carried = F.entry[Id].regId /\ a.credits = F.entry[Id].lease
      BY <1>8, <3>1 DEF Reply
    <3>3. ledger' = Admitted(F, Id, rpc.sock, now)
      BY <1>3, <1>10, <2>2 DEF Effect
    <3> QED BY <1>2, <1>3, <1>4, <1>5, <1>6, <1>10, <3>2, <3>3
  <2> QED BY <2>1, <2>2
<1>11. CASE rpc.kind = "lease"
  <2>1. metering = rpc.sock /\ ~ meter[rpc.sock].settled /\ ~ Admitting
    BY <1>1, <1>3, <1>11 DEF NoneLost, Calls, Admitting
  <2>2. Entered(rpc.sock)
    BY <1>1, <1>4, <2>1 DEF HoldersEntered, Holder
  <2>3. MayLease(F, Id, rpc.sock)
    BY <1>1, <1>7, <2>2, LedgerAssumption DEF MayLease, Owns, Entered
  <2>4. a = [Refused EXCEPT !.ok = TRUE, !.grant = LeaseGrant(F, Id, rpc.want, rpc.commit)]
    BY <1>2, <1>11, <2>3 DEF Answer
  <2>5. ~ a.notOpen /\ a.grant = LeaseGrant(F, Id, rpc.want, rpc.commit)
    BY <1>8, <2>4 DEF Reply
  <2>6. ledger' = Leased(F, Id, rpc.want, rpc.commit, now)
    BY <1>3, <1>11, <2>3 DEF Effect
  <2> QED BY <1>2, <1>3, <1>4, <1>5, <1>6, <1>11, <2>5, <2>6
<1>12. CASE rpc.kind = "close"
  <2>1. Entered(rpc.sock)
    BY <1>1, <1>3, <1>12 DEF NoneLost, Closing, Calls
  <2>2. Owns(R, Id, rpc.sock)
    BY <1>7, <2>1 DEF Owns, Entered
  <2>3. ledger' = Closed(R, Id, rpc.commit)
    BY <1>3, <1>12, <2>2 DEF Effect
  <2>4. a = [Refused EXCEPT !.ok = TRUE]
    BY <1>2, <1>12 DEF Answer
  <2>5. a.grant = 0
    BY <1>8, <2>4 DEF Reply
  <2> QED BY <1>2, <1>3, <1>4, <1>5, <1>6, <1>12, <2>3, <2>5
<1> QED BY <1>4, <1>10, <1>11, <1>12

(* The account answers: it takes the entry only for the registration it    *)
(* admits, and gives it up only at the close of the one that has it.       *)
LEMMA ServeHeld ==
  ASSUME Inv, Held, NothingExpires, Serve
  PROVE  Held'
<1>1. /\ TypeOK /\ OneServes /\ OneReports /\ Calling /\ ledger.config \in Configs
      /\ NoneLost /\ HoldersEntered /\ EntryHeld /\ WillSettle
  BY DEF Inv, Held
<1>2. PICK F, R, a : F = Fresh(ledger, now) /\ R = Roll(ledger, now) /\ a = rpc'.reply
  OBVIOUS
<1>3. /\ rpc # NoCall /\ rpc.reply = Unserved
      /\ rpc.sock \in Sock /\ rpc.commit \in Nat /\ rpc.want \in Nat /\ now \in Nat
      /\ rpc' # NoCall /\ rpc'.kind = rpc.kind /\ rpc'.sock = rpc.sock
      /\ a # Unserved
      /\ UNCHANGED <<conn, metering, meter, queue, late>>
  BY <1>1, <1>2, ServeExactly DEF TypeOK
<1>4. /\ F \in LedgerType /\ R \in LedgerType /\ F.config = ledger.config
      /\ F.open = ledger.open /\ F.entry = ledger.entry /\ R.open = ledger.open /\ R.entry = ledger.entry
  BY <1>1, <1>2, NoneReaped DEF NothingExpires, TypeOK
<1>5. \A s \in Sock : Holder(s)' <=> Holder(s)
  BY <1>3 DEF Holder
<1>6. ~ Closing' /\ WillSettle' /\ task' = task /\ me' = me /\ ~ Admitting
  BY <1>1, <1>2, <1>3 DEF Closing, WillSettle, task, me, Admitting
<1>7. CASE rpc.kind = "authorize" /\ ~ a.ok /\ (ledger' = ledger \/ ledger' = F)
  <2>1. ~ Closing /\ ~ Calls("lease")' /\ ~ Calls("close")' /\ ~ Admitting'
        /\ ledger'.open = ledger.open /\ ledger'.entry = ledger.entry
    BY <1>2, <1>3, <1>4, <1>7 DEF Closing, Calls, Admitting
  <2>2. \A s \in Sock : Entered(s)' <=> Entered(s)
    BY <2>1 DEF Entered
  <2>3. NoneLost'
    BY <1>1, <1>3, <1>6, <1>7, <2>1 DEF NoneLost
  <2>4. HoldersEntered' /\ EntryHeld'
    BY <1>1, <1>5, <1>6, <2>1, <2>2 DEF HoldersEntered, EntryHeld
  <2> QED BY <1>6, <2>3, <2>4 DEF Held
<1>8. CASE rpc.kind = "authorize" /\ a.ok /\ ledger' = Admitted(F, Id, rpc.sock, now)
  <2>1. ~ Closing /\ ~ Calls("lease")' /\ ~ Calls("close")'
    BY <1>3, <1>8 DEF Closing, Calls
  <2>2. ledger'.open = ledger.open \cup {Id} /\ ledger'.entry[Id].regId = rpc.sock
    BY <1>3, <1>4, <1>8, AdmittedExactly
  <2>3. Admitting' /\ Entered(rpc.sock)'
    BY <1>2, <1>3, <1>8, <2>2 DEF Admitting, Calls, Entered
  <2>4. NoneLost'
    BY <1>1, <1>3, <1>6, <1>8, <2>1, <2>3 DEF NoneLost
  <2>5. HoldersEntered' /\ EntryHeld'
    BY <1>1, <2>2, <2>3 DEF HoldersEntered, EntryHeld
  <2> QED BY <1>6, <2>4, <2>5 DEF Held
<1>9. CASE rpc.kind = "lease" /\ ~ a.notOpen /\ ledger' = Leased(F, Id, rpc.want, rpc.commit, now)
  <2>1. ~ Closing /\ ~ Admitting' /\ ~ Calls("close")'
    BY <1>3, <1>9 DEF Closing, Admitting, Calls
  <2>2. metering = rpc.sock /\ ~ meter[rpc.sock].settled
    BY <1>1, <1>3, <1>9 DEF NoneLost, Calls
  <2>3. ledger'.open = ledger.open /\ ledger'.entry[Id].regId = ledger.entry[Id].regId
    <3>1. F.config \in Configs
      BY <1>1, <1>4
    <3>2. PICK w \in Nat, c \in Nat, n \in Nat : w = rpc.want /\ c = rpc.commit /\ n = now
      BY <1>3
    <3>3. Leased(F, Id, w, c, n).open = F.open /\ Leased(F, Id, w, c, n).entry[Id].regId = F.entry[Id].regId
      <4>1. F \in LedgerType
        BY <1>4
      <4> QED BY <3>1, <4>1, LeaseEntry
    <3> QED BY <1>4, <1>9, <3>2, <3>3
  <2>4. \A s \in Sock : Entered(s)' <=> Entered(s)
    BY <2>3 DEF Entered
  <2>5. NoneLost'
    BY <1>1, <1>2, <1>3, <1>6, <1>9, <2>1, <2>2 DEF NoneLost, Calls
  <2>6. HoldersEntered' /\ EntryHeld'
    BY <1>1, <1>5, <1>6, <2>1, <2>3, <2>4 DEF HoldersEntered, EntryHeld
  <2> QED BY <1>6, <2>5, <2>6 DEF Held
<1>10. CASE rpc.kind = "close" /\ ledger' = Closed(R, Id, rpc.commit)
  <2>1. Closing /\ Calls("close") /\ ~ Admitting' /\ ~ Calls("lease")'
    BY <1>3, <1>10 DEF Closing, Admitting, Calls
  <2>2. Entered(rpc.sock) /\ \A s \in Sock : ~ Holder(s)
    BY <1>1, <2>1 DEF NoneLost
  <2>3. ledger'.open = ledger.open \ {Id}
    BY <1>3, <1>4, <1>10, ClosedExactly
  <2>4. \A s : ~ Entered(s)'
    BY <2>3 DEF Entered
  <2>5. NoneLost'
    BY <1>1, <1>3, <1>6, <1>10, <2>1 DEF NoneLost
  <2>6. HoldersEntered' /\ EntryHeld'
    BY <1>1, <1>5, <2>2, <2>3, <2>4 DEF HoldersEntered, EntryHeld
  <2> QED BY <1>6, <2>5, <2>6 DEF Held
<1> QED BY <1>2, <1>7, <1>8, <1>9, <1>10, ServeExactly

LEMMA StepHeld ==
  ASSUME ~ MayTimeout, Inv, Held, NothingExpires, [Next]_vars
  PROVE  Held'
<1>1. CASE UNCHANGED vars
  BY <1>1, HeldSame DEF vars
<1>2. ASSUME NEW s \in Sock, Connect(s) PROVE Held'
  BY <1>2, ConnectHeld
<1>3. ASSUME NEW s \in Sock, Drop(s) PROVE Held'
  BY <1>3, HeldSame DEF Drop
<1>4. ASSUME NEW s \in Sock,
             Request(s) \/ BrowserFrame(s) \/ ControlFrame(s) \/ webSocketClose(s)
      PROVE  Held'
  BY <1>4, TrafficStepsHeld
<1>5. CASE Chain
  <2>1. HeadStep \/ Register \/ Rejected \/ Registered
    BY <1>5 DEF Chain, HeadStep
  <2> QED BY <2>1, HeadHeld, RegisterHeld, RegisteredHeld
<1>6. CASE Serve
  BY <1>6, ServeHeld
<1>7. ~ Timeout /\ ~ ServeLate
  BY DEF Timeout, ServeLate, Held, NoneLost
<1>8. CASE Hibernate
  BY <1>8, HibernateHeld
<1>9. CASE Tick
  BY <1>9, HeldSame DEF Tick
<1> QED BY <1>1, <1>2, <1>3, <1>4, <1>5, <1>6, <1>7, <1>8, <1>9 DEF Next

LEMMA InitHeld ==
  ASSUME Init
  PROVE  Held
<1>1. /\ conn = [s \in Sock |-> "none"] /\ metering = None /\ rpc = NoCall /\ late = NoCall
      /\ ledger.open = {}
  BY EmptyType DEF Init, EmptyLedger
<1>2. \A s \in Sock : ~ Holder(s)
  BY <1>1, MeteringAssumption DEF Holder
<1> QED BY <1>1, <1>2, MeteringAssumption
        DEF Held, NoneLost, HoldersEntered, EntryHeld, WillSettle, Calls, Closing, Admitting, Entered

(* While every call is answered and no entry is reaped, the entry is held  *)
(* by whoever serves or has its settlement before it.                      *)
LEMMA HeldHolds ==
  ASSUME ~ MayTimeout
  PROVE  Spec /\ []NothingExpires => [](Inv /\ Held)
<1>1. Init => Inv /\ Held
  BY InitKeeps, InitHeld
<1>2. Inv /\ Held /\ NothingExpires /\ [Next]_vars => Inv' /\ Held'
  BY StepKeeps, StepHeld
<1> QED BY <1>1, <1>2, PTL DEF Spec

(* The relay never serves with a registration the account does not know,   *)
(* for every number of connections, with or without evictions.             *)
THEOREM OwnerHolds ==
  ASSUME ~ MayTimeout
  PROVE  Spec /\ []NothingExpires => []OwnerHoldsEntry
<1>1. Held => OwnerHoldsEntry
  <2> SUFFICES ASSUME Held, NEW s \in Sock, ownsMetering(s)
               PROVE  /\ Id \in ledger.open
                      /\ \/ ledger.entry[Id].regId = s
                         \/ Answered({"authorize"}) /\ ledger.entry[Id].regId = rpc.sock
    BY DEF OwnerHoldsEntry
  <2>1. Holder(s)
    BY DEF ownsMetering, Holder
  <2>2. Entered(s) \/ (Admitting /\ Entered(rpc.sock))
    BY <2>1 DEF Held, HoldersEntered, NoneLost
  <2> QED BY <2>2 DEF Entered, Admitting, Answered, Calls
<1> QED BY <1>1, HeldHolds, PTL

--------------------------------------------------------------------------
(* The lease is covered, and the bill is exact                             *)

\* What the current registration has yet to report of the lease, and in all.
Owing == IF metering = None THEN 0 ELSE meter[metering].consumed
Unpaid == IF metering = None THEN 0 ELSE meter[metering].consumed + meter[metering].messages

Lease == ledger.entry[Id].lease

\* The lease of the entry is all that is leased, and is within the day's limit.
LeaseWithin ==
  /\ ledger.leased = Lease
  /\ ledger.dayUsed + Lease <= ledger.config.dayLimit

\* The lease is what the registration that serves holds against it, no less.
LeaseClaimed == IF Serving THEN Lease = Claims(metering) ELSE Lease = 0 \/ Closing

\* A successor admitted was told of the lease, and of whom it takes over from.
AdmitsLease ==
  Admitting => rpc.reply.credits = Lease /\ (Serving => rpc.reply.carried = metering)

\* What was spent is billed, or will be out of the lease.
SpentCovered ==
  spent <= ledger.dayUsed + (IF Closing THEN Smaller(rpc.commit, Lease) ELSE Reporting(rpc) + Owing)

\* Whoever is registered has its state in memory, for nothing is evicted.
InMemory == metering = None => \A s \in Sock : conn[s] # "registered"

Covered == InMemory /\ LeaseWithin /\ LeaseClaimed /\ AdmitsLease /\ SpentCovered

\* More was delivered than the day's limit allows.
Over == incurred > ledger.config.dayLimit

\* What was incurred is billed, is being reported, or is yet to be reported.
Counted == Over \/ incurred = ledger.dayUsed + Reporting(rpc) + Unpaid

\* Only a day that is used up refuses a lease.
RefusedFull ==
  Calls("lease") =>
    /\ rpc.want >= ledger.config.leaseChunk
    /\ rpc.reply # Unserved /\ rpc.reply.grant = 0 =>
         ledger.dayUsed + Lease >= ledger.config.dayLimit

\* The final close reports no more than the lease, or the limit is passed.
ClosesWithin == Closing => Over \/ rpc.commit <= Lease

Exact == ledger.monthUsed = ledger.dayUsed /\ Counted /\ RefusedFull /\ ClosesWithin

\* It is the day that limits, and an account that may use any may lease some.
Ample == \A c \in Configs : c.leaseChunk > 0 /\ c.monthLimit >= c.dayLimit

Billed == Covered /\ (Ample => Exact)

(* The values these speak of are numbers.                                  *)
LEMMA Amounts ==
  ASSUME Inv, Held
  PROVE  /\ Lease \in Nat /\ ledger.leased \in Nat /\ ledger.dayUsed \in Nat /\ ledger.monthUsed \in Nat
         /\ ledger.config.dayLimit \in Nat /\ ledger.config.leaseChunk \in Nat
         /\ spent \in Nat /\ incurred \in Nat
         /\ Owing \in Nat /\ Unpaid \in Nat /\ Reporting(rpc) \in Nat
         /\ rpc # NoCall => rpc.commit \in Nat /\ rpc.want \in Nat /\ rpc.sock \in Sock
         /\ ~ Serving => Owing = 0 /\ Unpaid = 0
         /\ Serving => /\ metering \in Sock /\ metering # None
                       /\ meter[metering].budget \in Nat /\ meter[metering].consumed \in Nat
                       /\ meter[metering].messages \in Nat /\ Pending(rpc, metering) \in Nat
                       /\ Owing = meter[metering].consumed
                       /\ Unpaid = meter[metering].consumed + meter[metering].messages
                       /\ Claims(metering) = meter[metering].budget + meter[metering].consumed
                                             + Pending(rpc, metering)
<1>1. TypeOK /\ OneReports /\ ledger.config \in Configs /\ late = NoCall
  BY DEF Inv, Held, NoneLost
<1>2. /\ Lease \in Nat /\ ledger.leased \in Nat /\ ledger.dayUsed \in Nat /\ ledger.monthUsed \in Nat
      /\ ledger.config.dayLimit \in Nat /\ ledger.config.leaseChunk \in Nat
  BY <1>1, MeteringAssumption, LedgerAssumption DEF TypeOK, LedgerType, Entry, ConfigType, Lease
<1>3. spent \in Nat /\ incurred \in Nat
  BY <1>1 DEF TypeOK
<1>4. /\ Reporting(rpc) \in Nat
      /\ rpc # NoCall => rpc.commit \in Nat /\ rpc.want \in Nat /\ rpc.sock \in Sock
  BY <1>1, PendingNat DEF TypeOK, Call
<1>5. CASE metering = None
  BY <1>2, <1>3, <1>4, <1>5 DEF Serving, Owing, Unpaid
<1>6. CASE metering # None
  <2>1. metering \in Sock
    BY <1>1, <1>6 DEF TypeOK
  <2>2. /\ meter[metering].budget \in Nat /\ meter[metering].consumed \in Nat
        /\ meter[metering].messages \in Nat /\ Pending(rpc, metering) \in Nat
        /\ Pending(late, metering) = 0
    BY <1>1, <2>1, CountsNat DEF Pending
  <2>3. Owing = meter[metering].consumed
        /\ Unpaid = meter[metering].consumed + meter[metering].messages
    BY <1>6 DEF Owing, Unpaid
  <2>4. ~ Serving => meter[metering].consumed = 0 /\ meter[metering].messages = 0
    BY <1>1, <1>6, <2>1, <2>2 DEF Serving, OneReports, Unreported
  <2>5. Claims(metering) = meter[metering].budget + meter[metering].consumed + Pending(rpc, metering)
    BY <2>2 DEF Claims
  <2> QED BY <1>2, <1>3, <1>4, <1>6, <2>1, <2>2, <2>3, <2>4, <2>5
<1> QED BY <1>5, <1>6

(* Steps that move no credit, and start or end no call but one that        *)
(* reports and grants nothing.                                             *)
LEMMA BilledSame ==
  ASSUME Inv, Held, Billed, UNCHANGED <<ledger, metering, meter, spent, incurred, late>>,
         \A s \in Sock : conn'[s] = "registered" => conn[s] = "registered",
         \/ rpc' = rpc
         \/ /\ ~ Admitting /\ ~ Admitting' /\ ~ Closing /\ ~ Closing'
            /\ ~ Calls("lease") /\ ~ Calls("lease")'
            /\ Reporting(rpc) = 0 /\ Reporting(rpc') = 0
            /\ Pending(rpc, metering) = 0 /\ Pending(rpc', metering) = 0
  PROVE  Billed'
<1>1. InMemory' /\ LeaseWithin'
  BY DEF Billed, Covered, InMemory, LeaseWithin, Lease
<1>2. Serving' = Serving /\ Owing' = Owing /\ Unpaid' = Unpaid /\ Lease' = Lease /\ Over' = Over
  BY DEF Serving, Owing, Unpaid, Lease, Over
<1>3. CASE rpc' = rpc
  <2>1. Admitting' = Admitting /\ Closing' = Closing /\ Calls("lease")' = Calls("lease")
    BY <1>3 DEF Admitting, Closing, Calls
  <2>2. LeaseClaimed' /\ AdmitsLease' /\ SpentCovered'
    BY <1>2, <1>3, <2>1 DEF Billed, Covered, LeaseClaimed, AdmitsLease, SpentCovered, Claims
  <2>3. Ample => Exact'
    BY <1>2, <1>3, <2>1 DEF Billed, Exact, Counted, RefusedFull, ClosesWithin
  <2> QED BY <1>1, <2>2, <2>3 DEF Billed, Covered
<1>4. CASE /\ ~ Admitting /\ ~ Admitting' /\ ~ Closing /\ ~ Closing'
           /\ ~ Calls("lease") /\ ~ Calls("lease")'
           /\ Reporting(rpc) = 0 /\ Reporting(rpc') = 0
           /\ Pending(rpc, metering) = 0 /\ Pending(rpc', metering) = 0
  <2>1. Serving => Claims(metering)' = Claims(metering)
    BY <1>4 DEF Claims
  <2>2. LeaseClaimed' /\ AdmitsLease' /\ SpentCovered'
    BY <1>2, <1>4, <2>1 DEF Billed, Covered, LeaseClaimed, AdmitsLease, SpentCovered
  <2>3. Ample => Exact'
    BY <1>2, <1>4 DEF Billed, Exact, Counted, RefusedFull, ClosesWithin
  <2> QED BY <1>1, <2>2, <2>3 DEF Billed, Covered
<1> QED BY <1>3, <1>4

(* Traffic of the registered socket, or the end of it: what it pays moves   *)
(* from its budget to what it has yet to report.                           *)
LEMMA TrafficBilled ==
  ASSUME Inv, Held, Billed, NEW s \in Sock, conn[s] = "registered", metering' = s,
         NEW m \in Meter, ~ m.settled, meter' = [meter EXCEPT ![s] = m],
         m.budget + m.consumed = meter[s].budget + meter[s].consumed,
         m.consumed >= meter[s].consumed, m.messages >= meter[s].messages,
         spent' + meter[s].consumed = spent + m.consumed,
         incurred' + meter[s].consumed + meter[s].messages = incurred + m.consumed + m.messages,
         spent' \in Nat, incurred' \in Nat,
         UNCHANGED <<ledger, rpc, late>>
  PROVE  Billed'
<1>1. TypeOK /\ OneServes /\ OneReports /\ late = NoCall /\ Covered
  BY DEF Inv, Held, NoneLost, Billed
<1>2. metering = s /\ Serving /\ s # None
  BY <1>1, MeteringAssumption DEF OneServes, OneReports, Covered, InMemory, Serving
<1>3. PICK b, c, n : b = meter[s].budget /\ c = meter[s].consumed /\ n = meter[s].messages
  OBVIOUS
<1>4. /\ b \in Nat /\ c \in Nat /\ n \in Nat /\ spent \in Nat /\ incurred \in Nat
      /\ Owing = c /\ Unpaid = c + n /\ Claims(s) = b + c + Pending(rpc, s)
      /\ Lease \in Nat /\ ledger.dayUsed \in Nat /\ Reporting(rpc) \in Nat /\ Pending(rpc, s) \in Nat
      /\ ledger.config.dayLimit \in Nat
  BY <1>2, <1>3, Amounts
<1>5. meter'[s] = m /\ m.budget \in Nat /\ m.consumed \in Nat /\ m.messages \in Nat
  BY <1>1 DEF TypeOK, Meter
<1>6. Serving' /\ Owing' = m.consumed /\ Unpaid' = m.consumed + m.messages
  BY <1>2, <1>5 DEF Serving, Owing, Unpaid
<1>7. Claims(s)' = m.budget + m.consumed + Pending(rpc, s)
  <2>1. Pending(late, s) = 0 /\ Pending(late', s) = 0
    BY <1>1 DEF Pending
  <2>2. Claims(s)' = m.budget + m.consumed + Pending(rpc, s) + 0
    BY <1>1, <1>5, <2>1 DEF Claims
  <2> QED BY <1>4, <1>5, <2>2
<1>8. Lease' = Lease /\ Closing' = Closing /\ Admitting' = Admitting /\ Calls("lease")' = Calls("lease")
  BY DEF Lease, Closing, Admitting, Calls
<1>9. InMemory' /\ LeaseWithin'
  BY <1>1, <1>2, <1>8 DEF InMemory, Covered, LeaseWithin
<1>10. LeaseClaimed'
  <2>1. Lease = Claims(s)
    BY <1>1, <1>2 DEF Covered, LeaseClaimed
  <2>2. m.budget + m.consumed = b + c
    BY <1>3, <1>4, <1>5
  <2>3. Claims(s)' = Lease
    BY <1>4, <1>7, <2>1, <2>2
  <2> QED BY <1>6, <1>8, <2>3 DEF LeaseClaimed
<1>11. AdmitsLease'
  BY <1>1, <1>2, <1>8 DEF Covered, AdmitsLease
<1>12. ~ Closing
  BY <1>1, <1>2 DEF Held, NoneLost, Holder
<1>13. SpentCovered'
  <2>1. spent <= ledger.dayUsed + (Reporting(rpc) + Owing)
    BY <1>1, <1>12 DEF Covered, SpentCovered
  <2>2. spent' <= ledger'.dayUsed + (Reporting(rpc') + Owing')
    BY <1>3, <1>4, <1>5, <1>6, <2>1
  <2> QED BY <1>8, <1>12, <2>2 DEF SpentCovered
<1>14. ASSUME Ample PROVE Exact'
  <2>1. ledger'.monthUsed = ledger'.dayUsed /\ RefusedFull' /\ ClosesWithin'
    <3>1. ledger.monthUsed = ledger.dayUsed /\ RefusedFull
      BY <1>14 DEF Billed, Exact
    <3>2. ClosesWithin'
      BY <1>8, <1>12 DEF ClosesWithin
    <3>3. RefusedFull'
      BY <3>1 DEF RefusedFull, Calls, Lease
    <3> QED BY <3>1, <3>2, <3>3
  <2>2. incurred' >= incurred
    BY <1>3, <1>4, <1>5
  <2>3. Over => Over'
    BY <1>4, <2>2 DEF Over
  <2>4. incurred = ledger.dayUsed + Reporting(rpc) + Unpaid =>
          incurred' = ledger'.dayUsed + Reporting(rpc') + Unpaid'
    <3>1. incurred' + c + n = incurred + m.consumed + m.messages
      BY <1>3
    <3>2. ledger' = ledger /\ rpc' = rpc /\ Unpaid = c + n /\ Unpaid' = m.consumed + m.messages
      BY <1>4, <1>6
    <3> QED BY <1>4, <1>5, <3>1, <3>2
  <2>5. Counted
    BY <1>14 DEF Billed, Exact
  <2>6. Counted'
    BY <1>4, <2>2, <2>4, <2>5 DEF Counted, Over
  <2> QED BY <2>1, <2>6 DEF Exact
<1> QED BY <1>9, <1>10, <1>11, <1>13, <1>14 DEF Billed, Covered

LEMMA TrafficStepsBilled ==
  ASSUME Inv, Held, Billed, NEW s \in Sock,
         Request(s) \/ BrowserFrame(s) \/ ControlFrame(s) \/ webSocketClose(s)
  PROVE  Billed'
<1>1. TypeOK /\ OneServes /\ OneReports
  BY DEF Inv
<1>2. conn[s] = "registered" /\ UNCHANGED <<ledger, rpc, late>>
  BY DEF Request, BrowserFrame, ControlFrame, webSocketClose, ctl
<1>3. PICK x : x = meter[s]
  OBVIOUS
<1>4. /\ meteringFor(s) = x /\ ~ x.settled /\ x \in Meter
      /\ x.budget \in Nat /\ x.consumed \in Nat /\ x.messages \in Nat
      /\ incurred \in Nat /\ spent \in Nat
  <2>1. meteringFor(s) = x /\ ~ x.settled /\ x \in Meter
    BY <1>1, <1>2, <1>3, ServedState
  <2> QED BY <1>1, <2>1 DEF Meter, TypeOK
<1>5. ASSUME NEW m \in Meter, metering' = s, meter' = [meter EXCEPT ![s] = m], ~ m.settled,
             m.consumed = x.consumed, m.budget = x.budget, m.messages >= x.messages,
             spent' = spent, incurred' + x.messages = incurred + m.messages, incurred' \in Nat
      PROVE  Billed'
  <2>1. /\ m.budget + m.consumed = meter[s].budget + meter[s].consumed
        /\ m.consumed >= meter[s].consumed /\ m.messages >= meter[s].messages
        /\ spent' + meter[s].consumed = spent + m.consumed
        /\ incurred' + meter[s].consumed + meter[s].messages = incurred + m.consumed + m.messages
        /\ spent' \in Nat
    <3>1. m.messages \in Nat
      BY DEF Meter
    <3> QED BY <1>3, <1>4, <1>5, <3>1
  <2>2. metering' = s /\ meter' = [meter EXCEPT ![s] = m] /\ ~ m.settled /\ m \in Meter
        /\ incurred' \in Nat /\ m.messages >= meter[s].messages
    BY <1>3, <1>5
  <2> QED BY <1>2, <2>1, <2>2, TrafficBilled
<1>6. CASE Request(s)
  <2>1. metering' = s /\ meter' = [meter EXCEPT ![s] = x] /\ spent' = spent /\ incurred' = incurred
    BY <1>4, <1>6 DEF Request
  <2>2. x.messages >= x.messages /\ incurred' + x.messages = incurred + x.messages /\ incurred' \in Nat
    BY <1>4, <2>1
  <2> QED BY <1>4, <1>5, <2>1, <2>2
<1>7. CASE BrowserFrame(s)
  <2> DEFINE b == x.budget - 1
             c == x.consumed + 1
             m == [x EXCEPT !.budget = b, !.consumed = c]
  <2>1. x.budget >= 1 /\ metering' = s /\ spent' = spent + 1 /\ incurred' = incurred + 1
    BY <1>4, <1>7 DEF BrowserFrame, ownsMetering
  <2>2. meter' = [meter EXCEPT ![s] = m]
    <3>1. meter' = [meter EXCEPT ![s].budget = @ - 1, ![s].consumed = @ + 1]
      BY <1>7 DEF BrowserFrame
    <3>2. meter \in [Sock -> Meter] /\ meter[s] \in Meter
      BY <1>1 DEF TypeOK
    <3>3. \A r \in Sock : meter'[r] = IF r = s THEN m ELSE meter[r]
      BY <1>3, <3>1, <3>2 DEF Meter
    <3>4. meter' = [r \in Sock |-> meter'[r]]
      BY <3>1, <3>2
    <3> HIDE DEF m
    <3> QED BY <3>2, <3>3, <3>4
  <2>3. b \in Nat /\ c \in Nat
    BY <1>4, <2>1
  <2>4. /\ m \in Meter /\ ~ m.settled /\ m.budget = b /\ m.consumed = c /\ m.messages = x.messages
    <3> HIDE DEF b, c
    <3> QED BY <1>4, <2>3 DEF Meter
  <2> HIDE DEF m
  <2>5. /\ m.budget + m.consumed = meter[s].budget + meter[s].consumed
        /\ m.consumed >= meter[s].consumed /\ m.messages >= meter[s].messages
        /\ spent' + meter[s].consumed = spent + m.consumed
        /\ incurred' + meter[s].consumed + meter[s].messages = incurred + m.consumed + m.messages
        /\ spent' \in Nat /\ incurred' \in Nat
    BY <1>3, <1>4, <2>1, <2>4
  <2> QED BY <1>2, <2>1, <2>2, <2>4, <2>5, TrafficBilled
<1>8. CASE ControlFrame(s)
  <2> DEFINE n == x.messages + 1
             m == [x EXCEPT !.messages = n]
             f == [m EXCEPT !.flushQueued = TRUE]
  <2>1. metering' = s /\ spent' = spent /\ incurred' = incurred + 1
    BY <1>8 DEF ControlFrame
  <2>2. [meteringFor(s) EXCEPT !.messages = @ + 1] = m
    BY <1>4
  <2>3. meter' = [meter EXCEPT ![s] = m] \/ meter' = [meter EXCEPT ![s] = f]
    BY <1>8, <2>2 DEF ControlFrame
  <2>4. n \in Nat
    BY <1>4
  <2>5. /\ m \in Meter /\ ~ m.settled /\ m.budget = x.budget /\ m.consumed = x.consumed /\ m.messages = n
    <3> HIDE DEF n
    <3> QED BY <1>4, <2>4 DEF Meter
  <2> HIDE DEF m
  <2>6. /\ f \in Meter /\ ~ f.settled /\ f.budget = x.budget /\ f.consumed = x.consumed /\ f.messages = n
    BY <2>5 DEF Meter
  <2>7. n >= x.messages /\ incurred' + x.messages = incurred + n /\ incurred' \in Nat
    BY <1>4, <2>1
  <2> HIDE DEF f, n
  <2> QED BY <1>5, <2>1, <2>3, <2>5, <2>6, <2>7
<1>9. CASE webSocketClose(s)
  <2> DEFINE m == [x EXCEPT !.active = FALSE]
  <2>1. /\ metering' = s /\ meter' = [meter EXCEPT ![s] = m] /\ spent' = spent /\ incurred' = incurred
    BY <1>4, <1>9 DEF webSocketClose
  <2>2. /\ m \in Meter /\ ~ m.settled /\ m.budget = x.budget /\ m.consumed = x.consumed
        /\ m.messages = x.messages
    BY <1>4 DEF Meter
  <2> HIDE DEF m
  <2>3. m.messages >= x.messages /\ incurred' + x.messages = incurred + m.messages /\ incurred' \in Nat
    BY <1>4, <2>1, <2>2
  <2> QED BY <1>5, <2>1, <2>2, <2>3
<1> QED BY <1>6, <1>7, <1>8, <1>9

(* A step of the head: what it pays, reports or is granted is in the lease, *)
(* but for what a used-up day refused to pay at the end.                   *)
LEMMA HeadBilled ==
  ASSUME Inv, Held, Billed, HeadStep, Inv', Held'
  PROVE  Billed'
<1>1. /\ TypeOK /\ OneServes /\ OneReports /\ Calling /\ NoneLost /\ Covered /\ NoneLost'
  BY DEF Inv, Held, Billed
<1>2. /\ queue # << >> /\ HeadOnly /\ (rpc = NoCall \/ rpc.reply # Unserved)
      /\ task.kind # "register" /\ TaskOK(task) /\ task.sock \in Sock
      /\ rpc # NoCall => rpc.sock = task.sock
      /\ \E o : Exactly(o)
  BY HeadExactly
<1>3. incurred <= incurred' /\ incurred' \in Nat /\ spent' \in Nat
  BY HeadSteps DEF Charged
<1>4. PICK s, o : s = task.sock /\ Exactly(o)
  BY <1>2
<1>5. /\ UNCHANGED <<ledger, conn, metering, late>> /\ s \in Sock /\ me = meter[s] /\ o \in Meter
      /\ meter'[s] = o /\ \A r \in Sock : r # s => meter'[r] = meter[r]
  BY <1>1, <1>2, <1>4 DEF HeadOnly, Exactly, TypeOK, me
<1>6. ~ Admitting /\ ~ Closing /\ Reporting(rpc) = 0 /\ Granting(rpc) \in Nat
  BY <1>1, <1>2 DEF Admitting, Closing, Calls, Calling, Reporting, Granting, TypeOK, Call, Reply
<1>7. Lease' = Lease /\ InMemory' /\ LeaseWithin'
  BY <1>1, <1>5 DEF Lease, Covered, InMemory, LeaseWithin
<1>8. /\ Lease \in Nat /\ ledger.dayUsed \in Nat /\ spent \in Nat /\ incurred \in Nat
      /\ ledger.config.dayLimit \in Nat /\ Owing \in Nat /\ Unpaid \in Nat
      /\ ~ Serving => Owing = 0 /\ Unpaid = 0
  BY Amounts
<1>9. /\ o.budget \in Nat /\ o.consumed \in Nat /\ o.messages \in Nat
      /\ me.budget \in Nat /\ me.consumed \in Nat /\ me.messages \in Nat
  BY <1>1, <1>5 DEF TypeOK, Meter
<1>10. spent <= ledger.dayUsed + Owing
  BY <1>1, <1>6, <1>8 DEF Covered, SpentCovered
<1>11. Ample => (Over => Over')
  BY <1>3, <1>5, <1>8 DEF Over
<1>12. CASE me.settled
  <2>1. /\ rpc' = NoCall /\ o.settled /\ spent' = spent /\ incurred' = incurred
    <3>1. Pops(o)
      BY <1>4, <1>12 DEF Exactly, AsksLease, Closes
    <3>2. rpc' = NoCall /\ o.settled = me.settled
      BY <3>1 DEF Pops
    <3>3. spent' = spent /\ incurred' = incurred
      BY <1>12, <3>1, Zenon DEF Pops
    <3>4. o.settled
      <4>1. me \in Meter /\ me.settled \in BOOLEAN /\ o.settled \in BOOLEAN
        BY <1>1, <1>5 DEF Meter, TypeOK
      <4> QED BY <1>12, <3>2, <4>1
    <3> QED BY <3>2, <3>3, <3>4
  <2>2. ~ Admitting' /\ ~ Closing' /\ ~ Calls("lease")' /\ Reporting(rpc') = 0
    BY <2>1 DEF Admitting, Closing, Calls, Reporting
  <2>3. Serving' = Serving
    <3>1. CASE metering = s
      BY <1>5, <1>12, <2>1, <3>1 DEF Serving
    <3>2. CASE metering # s
      BY <1>1, <1>5, <3>2 DEF Serving, TypeOK
    <3> QED BY <3>1, <3>2
  <2>4. Owing' = Owing /\ Unpaid' = Unpaid
    <3>1. CASE metering = s
      <4>1. o.consumed = 0 /\ o.messages = 0 /\ me.consumed = 0 /\ me.messages = 0
        <5>1. Unreported(s) = 0 /\ Unreported(s)' = 0
          BY <1>1, <1>5, <1>12, <2>1 DEF Inv, OneReports
        <5> QED BY <1>5, <1>9, <5>1 DEF Unreported
      <4> QED BY <1>5, <3>1, <4>1 DEF Owing, Unpaid
    <3>2. CASE metering # s
      BY <1>1, <1>5, <3>2 DEF Owing, Unpaid, TypeOK
    <3> QED BY <3>1, <3>2
  <2>5. LeaseClaimed'
    <3>1. ASSUME Serving PROVE Lease' = Claims(metering)'
      <4>1. metering # s /\ metering \in Sock
        BY <1>1, <1>5, <1>12, <3>1 DEF Serving, TypeOK
      <4>2. Pending(rpc, metering) = 0 /\ Pending(rpc', metering) = 0
        BY <1>2, <1>4, <2>1, <4>1 DEF Pending
      <4>3. Claims(metering)' = Claims(metering)
        BY <1>5, <4>1, <4>2 DEF Claims
      <4> QED BY <1>1, <1>7, <3>1, <4>3 DEF Covered, LeaseClaimed
    <3>2. ~ Serving => Lease' = 0
      BY <1>1, <1>6, <1>7 DEF Covered, LeaseClaimed
    <3> QED BY <2>3, <3>1, <3>2 DEF LeaseClaimed
  <2>6. SpentCovered'
    BY <1>5, <1>8, <1>10, <2>1, <2>2, <2>4 DEF SpentCovered
  <2>7. AdmitsLease'
    BY <2>2 DEF AdmitsLease
  <2>8. ASSUME Ample PROVE Exact'
    <3>1. Exact
      BY <2>8 DEF Billed
    <3>2. Counted'
      BY <1>5, <1>6, <2>1, <2>2, <2>4, <3>1 DEF Exact, Counted, Over
    <3> QED BY <1>5, <2>2, <3>1, <3>2 DEF Exact, RefusedFull, ClosesWithin
  <2> QED BY <1>7, <2>5, <2>6, <2>7, <2>8 DEF Billed, Covered
<1>13. CASE ~ me.settled
  <2>1. metering = s /\ s # None /\ Serving
    BY <1>2, <1>4, <1>5, <1>13, MeteringAssumption DEF TaskOK, Serving
  <2>2. Owing = me.consumed /\ Unpaid = me.consumed + me.messages
    BY <1>5, <2>1 DEF Owing, Unpaid
  <2>3. Pending(rpc, s) = Granting(rpc)
    <3>1. rpc # NoCall => rpc.kind # "close" /\ rpc.sock = s
      BY <1>1, <1>2, <1>4, <1>13 DEF NoneLost, Calls
    <3> QED BY <1>6, <3>1 DEF Pending, Granting
  <2>4. Lease = me.budget + me.consumed + Granting(rpc)
    <3>1. Claims(s) = me.budget + me.consumed + Pending(rpc, s)
      BY <1>5, <2>1, Amounts
    <3> QED BY <1>1, <2>1, <2>3, <3>1 DEF Covered, LeaseClaimed
  <2>5. Owing' = o.consumed /\ Unpaid' = o.consumed + o.messages
    BY <1>5, <2>1 DEF Owing, Unpaid
  <2>6. Serving' = ~ o.settled
    BY <1>5, <2>1 DEF Serving
  <2>7. Claims(s)' = o.budget + o.consumed + Pending(rpc', s)
    <3>1. Pending(late', s) = 0
      BY <1>1, <1>5 DEF NoneLost, Pending
    <3>2. Claims(s)' = o.budget + o.consumed + Pending(rpc', s) + 0
      BY <1>5, <3>1 DEF Claims
    <3>3. Pending(rpc', s) \in Nat
      BY PendingNat DEF Inv, TypeOK
    <3> QED BY <1>9, <3>2, <3>3
  <2>8. CASE Pops(o)
    <3>1. rpc' = NoCall /\ ~ o.settled
      BY <1>13, <2>8 DEF Pops
    <3>2. PICK p \in Nat : /\ o.consumed = me.consumed + p
                           /\ o.budget + p = me.budget + Granting(rpc)
                           /\ spent' = spent + p
                           /\ incurred' + me.messages = incurred + p + o.messages
      BY <1>13, <2>8 DEF Pops
    <3>3. ~ Admitting' /\ ~ Closing' /\ ~ Calls("lease")' /\ Reporting(rpc') = 0 /\ Pending(rpc', s) = 0
      BY <3>1 DEF Admitting, Closing, Calls, Reporting, Pending
    <3>4. LeaseClaimed'
      <4>1. Claims(s)' = Lease
        BY <1>6, <1>9, <2>4, <2>7, <3>2, <3>3
      <4> QED BY <1>5, <1>7, <2>1, <2>6, <3>1, <4>1 DEF LeaseClaimed
    <3>5. SpentCovered'
      <4>1. spent' <= ledger.dayUsed + (0 + Owing')
        BY <1>8, <1>9, <1>10, <2>2, <2>5, <3>2
      <4> QED BY <1>5, <3>3, <4>1 DEF SpentCovered
    <3>6. AdmitsLease'
      BY <3>3 DEF AdmitsLease
    <3>7. ASSUME Ample PROVE Exact'
      <4>1. Exact
        BY <3>7 DEF Billed
      <4>2. incurred = ledger.dayUsed + Unpaid => incurred' = ledger.dayUsed + Unpaid'
        BY <1>3, <1>8, <1>9, <2>2, <2>5, <3>2
      <4>3. Over \/ incurred = ledger.dayUsed + Unpaid
        BY <1>6, <1>8, <4>1 DEF Exact, Counted
      <4>4. Over' \/ incurred' = ledger'.dayUsed + Reporting(rpc') + Unpaid'
        BY <1>3, <1>5, <1>8, <2>5, <3>3, <3>7, <1>9, <1>11, <4>2, <4>3
      <4>5. Counted'
        BY <4>4 DEF Counted
      <4> QED BY <1>5, <3>3, <4>1, <4>5 DEF Exact, RefusedFull, ClosesWithin
    <3> QED BY <1>7, <3>4, <3>5, <3>6, <3>7 DEF Billed, Covered
  <2>9. CASE AsksLease(o)
    <3>1. /\ rpc' # NoCall /\ rpc'.kind = "lease" /\ rpc'.reply = Unserved /\ rpc'.sock = s
          /\ rpc'.commit = me.consumed /\ rpc'.want >= ledger.config.leaseChunk
          /\ ~ o.settled /\ o.consumed = 0 /\ o.messages = me.messages
          /\ o.budget = me.budget + Granting(rpc) /\ spent' = spent /\ incurred' = incurred
      BY <1>4, <2>9 DEF AsksLease
    <3>2. ~ Admitting' /\ ~ Closing' /\ Reporting(rpc') = me.consumed
      BY <3>1 DEF Admitting, Closing, Calls, Reporting
    <3>3. Pending(rpc', s) = me.consumed
      BY <1>9, <3>1 DEF Pending, Reporting, Granting
    <3>4. LeaseClaimed'
      <4>1. Claims(s)' = Lease
        BY <1>6, <1>9, <2>4, <2>7, <3>1, <3>3
      <4> QED BY <1>5, <1>7, <2>1, <2>6, <3>1, <4>1 DEF LeaseClaimed
    <3>5. SpentCovered'
      <4>1. spent' <= ledger.dayUsed + (me.consumed + Owing')
        BY <1>8, <1>9, <1>10, <2>2, <2>5, <3>1
      <4> QED BY <1>5, <3>2, <4>1 DEF SpentCovered
    <3>6. AdmitsLease'
      BY <3>2 DEF AdmitsLease
    <3>7. ASSUME Ample PROVE Exact'
      <4>1. Exact
        BY <3>7 DEF Billed
      <4>2. Over \/ incurred = ledger.dayUsed + Unpaid
        BY <1>6, <1>8, <4>1 DEF Exact, Counted
      <4>3. incurred = ledger.dayUsed + Unpaid => incurred' = ledger.dayUsed + me.consumed + Unpaid'
        BY <1>8, <1>9, <2>2, <2>5, <3>1
      <4>4. Over' \/ incurred' = ledger'.dayUsed + Reporting(rpc') + Unpaid'
        BY <1>5, <1>11, <3>2, <3>7, <4>2, <4>3
      <4>5. Counted'
        BY <4>4 DEF Counted
      <4>6. RefusedFull'
        BY <1>5, <3>1 DEF RefusedFull
      <4> QED BY <1>5, <3>2, <4>1, <4>5, <4>6 DEF Exact, ClosesWithin
    <3> QED BY <1>7, <3>4, <3>5, <3>6, <3>7 DEF Billed, Covered
  <2>10. CASE Closes(o)
    <3>1. /\ rpc' # NoCall /\ rpc'.kind = "close" /\ rpc'.reply = Unserved
          /\ rpc'.commit = me.consumed + me.messages /\ o.settled /\ o.consumed = 0 /\ o.messages = 0
          /\ incurred' = incurred
          /\ \/ spent' = spent + me.messages /\ me.messages <= me.budget + Granting(rpc)
             \/ spent' = spent /\ Calls("lease") /\ rpc.reply # Unserved /\ rpc.reply.grant = 0
      BY <2>10 DEF Closes
    <3>2. ~ Admitting' /\ Closing' /\ ~ Calls("lease")' /\ Reporting(rpc') = me.consumed + me.messages
      BY <3>1 DEF Admitting, Closing, Calls, Reporting
    <3>3. LeaseClaimed'
      BY <2>6, <3>1, <3>2 DEF LeaseClaimed
    <3>4. SpentCovered'
      <4>1. spent' <= ledger.dayUsed + Smaller(rpc'.commit, Lease)
        BY <1>6, <1>8, <1>9, <1>10, <2>2, <2>4, <3>1 DEF Smaller
      <4> QED BY <1>5, <1>7, <3>2, <4>1 DEF SpentCovered
    <3>5. AdmitsLease'
      BY <3>2 DEF AdmitsLease
    <3>6. ASSUME Ample PROVE Exact'
      <4>1. Exact
        BY <3>6 DEF Billed
      <4>2. Over \/ incurred = ledger.dayUsed + Unpaid
        BY <1>6, <1>8, <4>1 DEF Exact, Counted
      <4>3. incurred = ledger.dayUsed + Unpaid =>
              incurred' = ledger.dayUsed + (me.consumed + me.messages) + Unpaid'
        BY <1>8, <1>9, <2>2, <2>5, <3>1
      <4>4. Over' \/ incurred' = ledger'.dayUsed + Reporting(rpc') + Unpaid'
        BY <1>5, <1>11, <3>2, <3>6, <4>2, <4>3
      <4>5. Counted'
        BY <4>4 DEF Counted
      <4>6. ClosesWithin'
        <5>1. CASE me.messages <= me.budget + Granting(rpc)
          <6>1. rpc'.commit <= Lease
            BY <1>6, <1>9, <2>4, <3>1, <5>1
          <6> QED BY <1>7, <6>1 DEF ClosesWithin
        <5>2. CASE Calls("lease") /\ rpc.reply # Unserved /\ rpc.reply.grant = 0
          <6>1. ledger.dayUsed + Lease >= ledger.config.dayLimit
            BY <4>1, <5>2 DEF Exact, RefusedFull
          <6>2. rpc'.commit > Lease /\ incurred = ledger.dayUsed + Unpaid => incurred > ledger.config.dayLimit
            BY <1>8, <1>9, <2>2, <3>1, <6>1
          <6>3. Over' \/ rpc'.commit <= Lease
            <7>1. rpc'.commit \in Nat
              BY <1>9, <3>1
            <7> QED BY <1>5, <1>8, <1>11, <3>6, <4>2, <6>2, <7>1 DEF Over
          <6> QED BY <1>7, <6>3 DEF ClosesWithin
        <5> QED BY <3>1, <5>1, <5>2
      <4> QED BY <1>5, <3>2, <4>1, <4>5, <4>6 DEF Exact, RefusedFull
    <3> QED BY <1>7, <3>3, <3>4, <3>5, <3>6 DEF Billed, Covered
  <2> QED BY <1>4, <2>8, <2>9, <2>10 DEF Exactly
<1> QED BY <1>12, <1>13

(* A register begins, or its connection is refused or gone.                *)
LEMMA RegisterBilled ==
  ASSUME Inv, Held, Billed, Register \/ Rejected
  PROVE  Billed'
<1>1. /\ TypeOK /\ OneServes /\ Calling /\ Queued /\ late = NoCall
  BY DEF Inv, Held, NoneLost
<1>2. queue # << >> /\ task.kind = "register"
  BY <1>1 DEF Register, Rejected, Starts, Answered, Calling
<1>3. task.sock \in Sock /\ conn[task.sock] = "accepted" /\ metering # task.sock
  <2>1. task \in Task /\ task.sock \in Sock
    BY <1>1, <1>2, HeadType
  <2>2. TaskOK(task)
    BY <1>1, <1>2, TailOf DEF TypeOK, Queued, task
  <2> QED BY <1>1, <1>2, <2>1, <2>2 DEF TaskOK, OneServes
<1>4. UNCHANGED <<ledger, metering, meter, spent, incurred, late>>
  BY DEF Register, Rejected, HeadOnly, Unspent
<1>5. /\ ~ Admitting /\ ~ Closing /\ ~ Calls("lease") /\ Reporting(rpc) = 0
      /\ Pending(rpc, metering) = 0
  <2>1. rpc = NoCall \/ (rpc # NoCall /\ rpc.kind = "authorize" /\ rpc.reply # Unserved /\ ~ rpc.reply.ok)
    BY DEF Register, Rejected, Starts, Answered
  <2>2. rpc # NoCall => rpc.sock = task.sock
    BY <1>1 DEF Calling
  <2> QED BY <1>3, <2>1, <2>2 DEF Calls, Admitting, Closing, Reporting, Pending
<1>6. /\ ~ Admitting' /\ ~ Closing' /\ ~ Calls("lease")' /\ Reporting(rpc') = 0
      /\ Pending(rpc', metering) = 0
  <2>1. CASE rpc' = NoCall
    BY <2>1 DEF Calls, Admitting, Closing, Reporting, Pending
  <2>2. CASE rpc' = CallOf("authorize", task.sock, 0, 0)
    <3>1. PICK z \in Nat : z = 0
      OBVIOUS
    <3>2. /\ rpc'.kind = "authorize" /\ rpc'.reply = Unserved /\ Reporting(rpc') = 0
          /\ rpc'.sock = task.sock
      BY <1>3, <2>2, <3>1, NewCall
    <3> QED BY <1>3, <3>2 DEF Calls, Admitting, Closing, Pending
  <2> QED BY <2>1, <2>2 DEF Register, Rejected
<1>7. \A s \in Sock : conn'[s] = "registered" => conn[s] = "registered"
  <2>1. conn' = conn \/ conn' = [conn EXCEPT ![task.sock] = "closed"]
    BY DEF Register, Rejected, HeadOnly
  <2> QED BY <1>1, <2>1 DEF TypeOK
<1> QED BY <1>4, <1>5, <1>6, <1>7, BilledSame

(* The registration published takes over all of the lease, and the debts.  *)
LEMMA RegisteredBilled ==
  ASSUME Inv, Held, Billed, Registered
  PROVE  Billed'
<1>1. TypeOK /\ late = NoCall /\ Covered /\ NoneLost
  BY DEF Inv, Held, NoneLost, Billed
<1>2. PICK s \in Sock, x \in Meter :
           /\ rpc.sock = s /\ conn[s] = "accepted" /\ metering # s /\ Admitting
           /\ metering' = s /\ meter'[s] = x /\ ~ x.settled
           /\ rpc' = NoCall /\ UNCHANGED <<ledger, now, late, spent, incurred>>
           /\ ~ Serving => x.budget = 0 /\ x.consumed = 0 /\ x.messages = 0
           /\ Serving => /\ x.consumed = meter[metering].consumed
                         /\ x.messages = meter[metering].messages
                         /\ rpc.reply.carried = metering =>
                              x.budget = Smaller(meter[metering].budget,
                                                 Less(rpc.reply.credits, meter[metering].consumed))
  BY RegisteredDoes
<1>3. /\ ~ Closing /\ Reporting(rpc) = 0
      /\ ~ Admitting' /\ ~ Closing' /\ ~ Calls("lease")' /\ Reporting(rpc') = 0 /\ Pending(rpc', s) = 0
      /\ Pending(late', s) = 0
  BY <1>1, <1>2 DEF Admitting, Closing, Calls, Reporting, Pending
<1>4. s # None
  BY MeteringAssumption
<1>5. x.budget \in Nat /\ x.consumed \in Nat /\ x.messages \in Nat
  BY DEF Meter
<1>6. Serving' /\ Owing' = x.consumed /\ Unpaid' = x.consumed + x.messages
  BY <1>2, <1>4 DEF Serving, Owing, Unpaid
<1>7. Claims(s)' = x.budget + x.consumed
  <2>1. Claims(s)' = x.budget + x.consumed + 0 + 0
    BY <1>2, <1>3 DEF Claims
  <2> QED BY <1>5, <2>1
<1>8. /\ Lease \in Nat /\ ledger.dayUsed \in Nat /\ spent \in Nat /\ incurred \in Nat
      /\ ~ Serving => Owing = 0 /\ Unpaid = 0
  BY Amounts
<1>9. x.budget + x.consumed = Lease /\ Owing = x.consumed /\ Unpaid = x.consumed + x.messages
  <2>1. CASE Serving
    <3>1. /\ meter[metering].budget \in Nat /\ meter[metering].consumed \in Nat
          /\ meter[metering].messages \in Nat
          /\ Owing = meter[metering].consumed
          /\ Unpaid = meter[metering].consumed + meter[metering].messages
          /\ Claims(metering) = meter[metering].budget + meter[metering].consumed + Pending(rpc, metering)
      BY <2>1, Amounts
    <3>2. Pending(rpc, metering) = 0
      BY <1>2 DEF Pending
    <3>3. Lease = meter[metering].budget + meter[metering].consumed
      BY <1>1, <2>1, <3>1, <3>2 DEF Covered, LeaseClaimed
    <3>4. rpc.reply.credits = Lease /\ rpc.reply.carried = metering
      BY <1>1, <1>2, <2>1 DEF Covered, AdmitsLease
    <3>5. Smaller(meter[metering].budget, Less(Lease, meter[metering].consumed)) = meter[metering].budget
      BY <1>8, <3>1, <3>3 DEF Smaller, Less
    <3> QED BY <1>2, <2>1, <3>1, <3>3, <3>4, <3>5
  <2>2. CASE ~ Serving
    <3>1. Lease = 0
      BY <1>1, <1>3, <2>2 DEF Covered, LeaseClaimed
    <3> QED BY <1>2, <1>8, <2>2, <3>1
  <2> QED BY <2>1, <2>2
<1>10. Lease' = Lease /\ LeaseWithin' /\ InMemory'
  BY <1>1, <1>2, <1>4 DEF Lease, Covered, LeaseWithin, InMemory
<1>11. LeaseClaimed'
  <2>1. Lease' = Claims(s)'
    BY <1>7, <1>9, <1>10
  <2> QED BY <1>2, <1>6, <2>1 DEF LeaseClaimed
<1>12. AdmitsLease'
  BY <1>3 DEF AdmitsLease
<1>13. SpentCovered'
  BY <1>1, <1>2, <1>3, <1>6, <1>9 DEF Covered, SpentCovered
<1>14. ASSUME Ample PROVE Exact'
  <2>1. Exact
    BY <1>14 DEF Billed
  <2>2. Counted'
    BY <1>2, <1>3, <1>6, <1>9, <2>1 DEF Exact, Counted, Over
  <2> QED BY <1>2, <1>3, <2>1, <2>2 DEF Exact, RefusedFull, ClosesWithin
<1> QED BY <1>10, <1>11, <1>12, <1>13, <1>14 DEF Billed, Covered

(* The account answers: what is reported is billed out of the lease, and    *)
(* what is granted is within the day's limit.                              *)
LEMMA ServeBilled ==
  ASSUME Inv, Held, Billed, NothingExpires, SameWindow, Serve
  PROVE  Billed'
<1>1. /\ TypeOK /\ OneServes /\ OneReports /\ Calling /\ Queued /\ ledger.config \in Configs
      /\ NoneLost /\ HoldersEntered /\ Covered /\ late = NoCall
  BY DEF Inv, Held, NoneLost, Billed
<1>2. Fresh(ledger, now) = ledger /\ Roll(ledger, now) = ledger /\ ledger \in LedgerType /\ now \in Nat
  BY <1>1, NoneRolled DEF TypeOK, NothingExpires, SameWindow
<1>3. PICK a, s, w, c : a = rpc'.reply /\ s = rpc.sock /\ w = rpc.want /\ c = rpc.commit
  OBVIOUS
<1>4. /\ rpc # NoCall /\ rpc.reply = Unserved
      /\ s \in Sock /\ c \in Nat /\ w \in Nat
      /\ rpc' # NoCall /\ rpc'.kind = rpc.kind /\ rpc'.sock = s /\ rpc'.want = w /\ rpc'.reply = a
      /\ a \in Reply /\ a # Unserved
      /\ UNCHANGED <<conn, metering, meter, queue, late, spent, incurred>>
      /\ \/ /\ rpc.kind = "authorize" /\ ~ a.ok /\ a.grant = 0 /\ ledger' = ledger
         \/ /\ rpc.kind = "authorize" /\ a.ok /\ a.grant = 0
            /\ a.carried = ledger.entry[Id].regId /\ a.credits = Lease
            /\ ledger' = Admitted(ledger, Id, s, now)
         \/ /\ rpc.kind = "lease"
            /\ a.grant = LeaseGrant(ledger, Id, w, c)
            /\ ledger' = Leased(ledger, Id, w, c, now)
         \/ /\ rpc.kind = "close" /\ a.grant = 0
            /\ ledger' = Closed(ledger, Id, c)
  BY <1>2, <1>3, ServeExactly DEF Lease
<1>5. /\ Lease \in Nat /\ ledger.leased \in Nat /\ ledger.dayUsed \in Nat /\ ledger.monthUsed \in Nat
      /\ ledger.config.dayLimit \in Nat /\ ledger.config.leaseChunk \in Nat
      /\ spent \in Nat /\ incurred \in Nat /\ Owing \in Nat /\ Unpaid \in Nat
      /\ ~ Serving => Owing = 0 /\ Unpaid = 0
  BY Amounts
<1>6. Serving' = Serving /\ Owing' = Owing /\ Unpaid' = Unpaid /\ InMemory'
  BY <1>1, <1>4 DEF Serving, Owing, Unpaid, Covered, InMemory
<1>7. Reporting(rpc) = c /\ Reporting(rpc') = 0 /\ ~ Closing' /\ ~ Admitting
  BY <1>3, <1>4 DEF Reporting, Closing, Admitting
<1>8. CASE rpc.kind = "authorize"
  <2>1. c = 0 /\ ~ Closing /\ ~ Calls("lease")'
    BY <1>1, <1>3, <1>4, <1>8 DEF Calling, Asks, Closing, Calls
  <2>2. a.grant = 0 /\ ledger'.config = ledger.config /\ Lease' = Lease
        /\ ledger'.dayUsed = ledger.dayUsed /\ ledger'.monthUsed = ledger.monthUsed
        /\ ledger'.leased = ledger.leased
    <3>1. CASE ledger' = ledger
      BY <1>4, <1>8, <3>1 DEF Lease
    <3>2. CASE ledger' = Admitted(ledger, Id, s, now)
      BY <1>2, <1>4, <1>8, <3>2, AdmittedExactly DEF Lease
    <3> QED BY <1>4, <1>8, <3>1, <3>2
  <2>3. LeaseWithin'
    BY <1>1, <2>2 DEF Covered, LeaseWithin
  <2>4. Pending(rpc, metering) = 0 /\ Pending(rpc', metering) = 0
    <3>1. metering # s
      <4>1. queue # << >> /\ task.sock = s /\ task.kind = "register"
        BY <1>1, <1>3, <1>4, <1>8 DEF Calling
      <4>2. TaskOK(task)
        BY <1>1, <4>1, TailOf DEF TypeOK, Queued, task
      <4> QED BY <1>1, <1>4, <4>1, <4>2 DEF TaskOK, OneServes
    <3> QED BY <1>3, <1>4, <3>1 DEF Pending
  <2>5. LeaseClaimed'
    <3>1. Claims(metering)' = Claims(metering)
      BY <1>4, <2>4 DEF Claims
    <3> QED BY <1>1, <1>6, <2>1, <2>2, <3>1 DEF Covered, LeaseClaimed
  <2>6. AdmitsLease'
    <3> SUFFICES ASSUME Admitting' PROVE a.credits = Lease /\ (Serving => a.carried = metering)
      BY <1>4, <1>6, <2>2 DEF AdmitsLease
    <3>1. a.ok
      BY <1>4 DEF Admitting
    <3>2. a.carried = ledger.entry[Id].regId /\ a.credits = Lease
      BY <1>4, <1>8, <3>1
    <3>3. Serving => ledger.entry[Id].regId = metering
      BY <1>1, <1>7 DEF Serving, TypeOK, HoldersEntered, Holder, Entered
    <3> QED BY <3>2, <3>3
  <2>7. SpentCovered'
    BY <1>1, <1>4, <1>6, <1>7, <2>1, <2>2 DEF Covered, SpentCovered
  <2>8. ASSUME Ample PROVE Exact'
    <3>1. Exact
      BY <2>8 DEF Billed
    <3>2. Counted'
      BY <1>4, <1>6, <1>7, <2>1, <2>2, <3>1 DEF Exact, Counted, Over
    <3> QED BY <1>7, <2>1, <2>2, <3>1, <3>2 DEF Exact, RefusedFull, ClosesWithin
  <2> QED BY <1>6, <2>3, <2>5, <2>6, <2>7, <2>8 DEF Billed, Covered
<1>9. CASE rpc.kind = "lease"
  <2>1. metering = s /\ Serving /\ ~ Closing /\ ~ Admitting' /\ Calls("lease") /\ Calls("lease")'
    BY <1>1, <1>3, <1>4, <1>9, MeteringAssumption DEF NoneLost, Calls, Closing, Admitting, Serving
  <2>2. PICK p, g : p = Smaller(c, Lease) /\ g = a.grant
    OBVIOUS
  <2>3. /\ ledger' = Leased(ledger, Id, w, c, now) /\ g = LeaseGrant(ledger, Id, w, c)
        /\ ledger.leased = ledger.entry[Id].lease
    BY <1>1, <1>4, <1>9, <2>2 DEF Covered, LeaseWithin, Lease
  <2>4. /\ ledger'.config = ledger.config /\ Lease' = Lease - p + g
        /\ ledger'.dayUsed = ledger.dayUsed + p /\ ledger'.monthUsed = ledger.monthUsed + p
        /\ ledger'.leased = ledger.leased - p + g
        /\ p \in Nat /\ g \in Nat /\ p <= Lease
        /\ g > 0 => ledger.dayUsed + ledger.leased + g <= ledger.config.dayLimit
        /\ /\ g = 0 /\ ledger.config.leaseChunk > 0 /\ w >= ledger.config.leaseChunk
           /\ ledger.monthUsed = ledger.dayUsed /\ ledger.config.monthLimit >= ledger.config.dayLimit
           => ledger.dayUsed + ledger.leased >= ledger.config.dayLimit
    <3>1. ledger \in LedgerType /\ ledger.config \in Configs /\ w \in Nat /\ c \in Nat /\ now \in Nat
      BY <1>1, <1>2, <1>4
    <3>2. LeaseBooks(ledger, w, ledger', p, g)
      BY <2>2, <2>3, <3>1, LeasedExactly DEF Lease
    <3> QED BY <2>3, <3>2 DEF LeaseBooks, Lease
  <2>5. Claims(s) = Lease /\ p = c
    <3>1. Claims(s) = Lease
      BY <1>1, <2>1 DEF Covered, LeaseClaimed
    <3>2. Pending(rpc, s) = c
      BY <1>3, <1>4, <1>9 DEF Pending, Reporting, Granting
    <3>3. c <= Lease
      BY <1>4, <2>1, <3>1, <3>2, Amounts
    <3> QED BY <1>4, <1>5, <2>2, <3>1, <3>3 DEF Smaller
  <2>6. LeaseWithin'
    BY <1>1, <1>5, <2>4 DEF Covered, LeaseWithin
  <2>7. LeaseClaimed'
    <3>1. Pending(rpc, s) = c /\ Pending(rpc', s) = g /\ Pending(late, s) = 0 /\ Pending(late', s) = 0
      BY <1>1, <1>3, <1>4, <1>9, <2>2, <2>4 DEF Pending, Reporting, Granting
    <3>2. meter[s].budget \in Nat /\ meter[s].consumed \in Nat
      BY <2>1, Amounts
    <3>3. Claims(s) = meter[s].budget + meter[s].consumed + c + 0
          /\ Claims(s)' = meter[s].budget + meter[s].consumed + g + 0
      BY <1>4, <3>1 DEF Claims
    <3>4. Claims(s)' = Lease'
      BY <1>4, <1>5, <2>4, <2>5, <3>2, <3>3
    <3> QED BY <1>4, <1>6, <2>1, <3>4 DEF LeaseClaimed
  <2>8. AdmitsLease'
    BY <2>1 DEF AdmitsLease
  <2>9. SpentCovered'
    <3>1. spent <= ledger.dayUsed + (c + Owing)
      BY <1>1, <1>7, <2>1 DEF Covered, SpentCovered
    <3>2. spent' <= ledger'.dayUsed + (0 + Owing')
      BY <1>4, <1>5, <1>6, <2>4, <2>5, <3>1
    <3> QED BY <1>7, <3>2 DEF SpentCovered
  <2>10. ASSUME Ample PROVE Exact'
    <3>1. Exact /\ ledger.config.leaseChunk > 0 /\ ledger.config.monthLimit >= ledger.config.dayLimit
      BY <1>1, <2>10 DEF Billed, Ample
    <3>2. ledger'.monthUsed = ledger'.dayUsed /\ w >= ledger.config.leaseChunk
      BY <1>3, <2>1, <2>4, <3>1 DEF Exact, RefusedFull
    <3>3. Counted'
      <4>1. Over \/ incurred = ledger.dayUsed + c + Unpaid
        BY <1>7, <3>1 DEF Exact, Counted
      <4>2. Over' \/ incurred' = ledger'.dayUsed + 0 + Unpaid'
        BY <1>4, <1>5, <1>6, <2>4, <2>5, <4>1 DEF Over
      <4> QED BY <1>7, <4>2 DEF Counted
    <3>4. RefusedFull'
      <4>1. g = 0 => ledger'.dayUsed + Lease' >= ledger.config.dayLimit
        <5>1. ledger.leased = Lease /\ ledger.monthUsed = ledger.dayUsed
          BY <1>1, <3>1 DEF Covered, LeaseWithin, Exact
        <5> QED BY <1>5, <2>4, <3>1, <3>2, <5>1
      <4> QED BY <1>4, <2>2, <2>4, <3>2, <4>1 DEF RefusedFull
    <3> QED BY <1>7, <3>2, <3>3, <3>4 DEF Exact, ClosesWithin
  <2> QED BY <1>6, <2>6, <2>7, <2>8, <2>9, <2>10 DEF Billed, Covered
<1>10. CASE rpc.kind = "close"
  <2>1. Closing /\ ~ Admitting' /\ ~ Calls("lease")'
    BY <1>4, <1>10 DEF Closing, Calls, Admitting
  <2>2. ~ Serving
    BY <1>1, <2>1 DEF NoneLost, Holder, Serving, TypeOK
  <2>3. PICK p : p = Smaller(c, Lease)
    OBVIOUS
  <2>4. ledger' = Closed(ledger, Id, c) /\ ledger.leased = ledger.entry[Id].lease
    BY <1>1, <1>4, <1>10 DEF Covered, LeaseWithin, Lease
  <2>5. /\ ledger'.config = ledger.config /\ Lease' = 0 /\ ledger'.leased = 0
        /\ ledger'.dayUsed = ledger.dayUsed + p /\ ledger'.monthUsed = ledger.monthUsed + p
        /\ p \in Nat /\ p <= Lease
    BY <1>2, <1>4, <2>3, <2>4, ClosedExactly DEF Lease
  <2>6. LeaseWithin'
    BY <1>1, <1>5, <2>5 DEF Covered, LeaseWithin
  <2>7. LeaseClaimed' /\ AdmitsLease'
    BY <1>6, <2>1, <2>2, <2>5 DEF LeaseClaimed, AdmitsLease
  <2>8. SpentCovered'
    <3>1. spent <= ledger.dayUsed + p
      BY <1>1, <1>3, <2>1, <2>3 DEF Covered, SpentCovered
    <3>2. spent' <= ledger'.dayUsed + (0 + Owing')
      BY <1>4, <1>5, <1>6, <2>2, <2>5, <3>1
    <3> QED BY <1>7, <3>2 DEF SpentCovered
  <2>9. ASSUME Ample PROVE Exact'
    <3>1. Exact
      BY <2>9 DEF Billed
    <3>2. Counted'
      <4>1. Over \/ incurred = ledger.dayUsed + c + Unpaid
        BY <1>7, <3>1 DEF Exact, Counted
      <4>2. Over \/ p = c
        BY <1>3, <1>4, <1>5, <2>1, <2>3, <3>1 DEF Exact, ClosesWithin, Smaller
      <4>3. Over' \/ incurred' = ledger'.dayUsed + 0 + Unpaid'
        BY <1>4, <1>5, <1>6, <2>5, <4>1, <4>2 DEF Over
      <4> QED BY <1>7, <4>3 DEF Counted
    <3> QED BY <1>7, <2>1, <2>5, <3>1, <3>2 DEF Exact, RefusedFull, ClosesWithin
  <2> QED BY <1>6, <2>6, <2>7, <2>8, <2>9 DEF Billed, Covered
<1> QED BY <1>4, <1>8, <1>9, <1>10

LEMMA StepBilled ==
  ASSUME ~ MayTimeout, ~ MayHibernate, Inv, Held, Billed, NothingExpires, SameWindow, [Next]_vars,
         Inv', Held'
  PROVE  Billed'
<1>1. CASE UNCHANGED vars
  BY <1>1, BilledSame DEF vars
<1>2. ASSUME NEW s \in Sock, Connect(s) PROVE Billed'
  <2>1. /\ conn' = [conn EXCEPT ![s] = "accepted"]
        /\ UNCHANGED <<ledger, metering, meter, spent, incurred, late>> /\ rpc' = rpc
    BY <1>2 DEF Connect
  <2>2. \A o \in Sock : conn'[o] = "registered" => conn[o] = "registered"
    BY <2>1 DEF Inv, TypeOK
  <2> QED BY <2>1, <2>2, BilledSame
<1>3. ASSUME NEW s \in Sock, Drop(s) PROVE Billed'
  BY <1>3, BilledSame DEF Drop
<1>4. ASSUME NEW s \in Sock,
             Request(s) \/ BrowserFrame(s) \/ ControlFrame(s) \/ webSocketClose(s)
      PROVE  Billed'
  BY <1>4, TrafficStepsBilled
<1>5. CASE Chain
  <2>1. HeadStep \/ Register \/ Rejected \/ Registered
    BY <1>5 DEF Chain, HeadStep
  <2> QED BY <2>1, HeadBilled, RegisterBilled, RegisteredBilled
<1>6. CASE Serve
  BY <1>6, ServeBilled
<1>7. ~ Timeout /\ ~ ServeLate /\ ~ Hibernate
  BY DEF Timeout, ServeLate, Hibernate, Held, NoneLost
<1>8. CASE Tick
  BY <1>8, BilledSame DEF Tick
<1> QED BY <1>1, <1>2, <1>3, <1>4, <1>5, <1>6, <1>7, <1>8 DEF Next

LEMMA InitBilled ==
  ASSUME Init
  PROVE  Billed
<1>1. /\ conn = [s \in Sock |-> "none"] /\ metering = None /\ rpc = NoCall
      /\ spent = 0 /\ incurred = 0
  BY DEF Init
<1>2. PICK c \in Configs : ledger = [EmptyLedger(Ttl + 1) EXCEPT !.config = c]
  BY DEF Init
<1>3. /\ Lease = 0 /\ ledger.leased = 0 /\ ledger.dayUsed = 0 /\ ledger.monthUsed = 0
      /\ ledger.config = c
  BY <1>2, MeteringAssumption DEF EmptyLedger, NoEntry, Lease
<1>4. ledger.config.dayLimit \in Nat
  BY <1>3, LedgerAssumption DEF ConfigType
<1>5. ~ Serving /\ Owing = 0 /\ Unpaid = 0 /\ Reporting(rpc) = 0
      /\ ~ Admitting /\ ~ Closing /\ ~ Calls("lease")
  BY <1>1 DEF Serving, Owing, Unpaid, Reporting, Admitting, Closing, Calls
<1>6. InMemory /\ LeaseWithin /\ LeaseClaimed /\ AdmitsLease /\ SpentCovered
  BY <1>1, <1>3, <1>4, <1>5 DEF InMemory, LeaseWithin, LeaseClaimed, AdmitsLease, SpentCovered
<1>7. Exact
  BY <1>1, <1>3, <1>5 DEF Exact, Counted, RefusedFull, ClosesWithin
<1> QED BY <1>6, <1>7 DEF Billed, Covered

(* While every call is answered, no entry is reaped, the day and the month  *)
(* do not end and nothing is evicted, the lease is covered.                *)
LEMMA BilledHolds ==
  ASSUME ~ MayTimeout, ~ MayHibernate
  PROVE  Spec /\ [](NothingExpires /\ SameWindow) => [](Inv /\ Held /\ Billed)
<1>1. Init => Inv /\ Held /\ Billed
  BY InitKeeps, InitHeld, InitBilled
<1>2. Inv /\ Held /\ Billed /\ NothingExpires /\ SameWindow /\ [Next]_vars => Inv' /\ Held' /\ Billed'
  BY StepKeeps, StepHeld, StepBilled
<1> QED BY <1>1, <1>2, PTL DEF Spec

(* No credit beyond the day's limit is ever spent, whatever is closed,      *)
(* refunded and handed over (the test "exactly dayLimit requests succeed").*)
THEOREM HardCapHolds ==
  ASSUME ~ MayTimeout, ~ MayHibernate
  PROVE  Spec /\ [](NothingExpires /\ SameWindow) => []HardCap
<1>1. Inv /\ Held /\ Billed => HardCap
  <2> SUFFICES ASSUME Inv, Held, Billed PROVE HardCap
    OBVIOUS
  <2>1. Covered
    BY DEF Billed
  <2>2. /\ Lease \in Nat /\ ledger.dayUsed \in Nat /\ ledger.config.dayLimit \in Nat /\ spent \in Nat
        /\ Owing \in Nat /\ Reporting(rpc) \in Nat
        /\ ~ Serving => Owing = 0
        /\ Serving => /\ meter[metering].budget \in Nat /\ meter[metering].consumed \in Nat
                      /\ Pending(rpc, metering) \in Nat
                      /\ Owing = meter[metering].consumed
                      /\ Claims(metering) = meter[metering].budget + meter[metering].consumed
                                            + Pending(rpc, metering)
    BY Amounts
  <2>3. spent <= ledger.dayUsed + Lease
    <3>1. CASE Closing
      <4>1. rpc.commit \in Nat
        BY <3>1, Amounts DEF Closing, Calls
      <4> QED BY <2>1, <2>2, <3>1, <4>1 DEF Covered, SpentCovered, Smaller
    <3>2. CASE ~ Closing
      <4>1. spent <= ledger.dayUsed + (Reporting(rpc) + Owing)
        BY <2>1, <3>2 DEF Covered, SpentCovered
      <4>2. CASE Serving
        <5>1. Lease = Claims(metering)
          BY <2>1, <4>2 DEF Covered, LeaseClaimed
        <5>2. Reporting(rpc) <= Pending(rpc, metering)
          <6>1. Reporting(rpc) = 0 \/ Pending(rpc, metering) = Reporting(rpc) + 0
            <7>1. CASE rpc # NoCall /\ rpc.kind = "lease" /\ rpc.reply = Unserved
              <8>1. metering = rpc.sock
                BY <7>1 DEF Held, NoneLost, Calls
              <8> QED BY <7>1, <8>1 DEF Pending, Reporting, Granting
            <7>2. CASE rpc # NoCall /\ rpc.kind = "authorize"
              BY <7>2 DEF Inv, Calling, Asks, Reporting
            <7>3. CASE rpc = NoCall \/ rpc.reply # Unserved
              BY <7>3 DEF Reporting
            <7>4. CASE rpc # NoCall /\ rpc.kind = "close"
              BY <3>2, <7>4 DEF Closing, Calls, Reporting
            <7>5. rpc # NoCall => rpc.kind \in {"authorize", "lease", "close"}
              BY DEF Held, NoneLost
            <7> QED BY <7>1, <7>2, <7>3, <7>4, <7>5
          <6> QED BY <2>2, <4>2, <6>1
        <5> QED BY <2>2, <4>1, <4>2, <5>1, <5>2
      <4>3. CASE ~ Serving
        <5>1. Reporting(rpc) = 0
          BY <3>2, <4>3, MeteringAssumption
             DEF Held, NoneLost, Inv, Calling, Asks, Reporting, Closing, Calls, Serving, TypeOK, Call
        <5> QED BY <2>2, <4>1, <4>3, <5>1
      <4> QED BY <4>2, <4>3
    <3> QED BY <3>1, <3>2
  <2>4. ledger.dayUsed + Lease <= ledger.config.dayLimit
    BY <2>1 DEF Covered, LeaseWithin
  <2> QED BY <2>2, <2>3, <2>4 DEF HardCap
<1> QED BY <1>1, BilledHolds, PTL

(* Once nobody is connected and nothing is under way, every lease has been  *)
(* returned and the account has billed exactly what was incurred, as long  *)
(* as that is within the day's limit.                                      *)
THEOREM ExactAtRestHolds ==
  ASSUME ~ MayTimeout, ~ MayHibernate, Ample
  PROVE  Spec /\ [](NothingExpires /\ SameWindow) => []ExactAtRest
<1>1. Inv /\ Held /\ Billed => ExactAtRest
  <2> SUFFICES ASSUME Inv, Held, Billed, AtRest
               PROVE  /\ incurred <= ledger.config.dayLimit => ledger.dayUsed = incurred
                      /\ ledger.leased = 0 /\ ledger.open = {}
    BY DEF ExactAtRest
  <2>1. TypeOK /\ Owned(ledger) /\ Calling /\ NoneLost /\ EntryHeld /\ WillSettle /\ Covered /\ Exact
    BY DEF Inv, Held, Billed
  <2>2. rpc = NoCall
    BY <2>1 DEF AtRest, Calling
  <2>3. \A s \in Sock : ~ Holder(s)
    BY <2>1 DEF AtRest, WillSettle, Holder
  <2>4. ~ Admitting /\ ~ Closing /\ Reporting(rpc) = 0
    BY <2>2 DEF Admitting, Closing, Calls, Reporting
  <2>5. ~ Serving
    BY <2>1, <2>3 DEF Serving, Holder, TypeOK
  <2>6. ledger.open = {}
    <3>1. Id \notin ledger.open
      BY <2>1, <2>3, <2>4 DEF EntryHeld, Entered, Owned
    <3> QED BY <2>1, <3>1 DEF EntryHeld
  <2>7. ledger.leased = 0
    BY <2>1, <2>4, <2>5 DEF Covered, LeaseClaimed, LeaseWithin
  <2>8. incurred <= ledger.config.dayLimit => ledger.dayUsed = incurred
    <3>1. /\ Unpaid = 0 /\ ledger.dayUsed \in Nat /\ incurred \in Nat
          /\ ledger.config.dayLimit \in Nat
      BY <2>5, Amounts
    <3> QED BY <2>1, <2>4, <3>1 DEF Exact, Counted, Over
  <2> QED BY <2>6, <2>7, <2>8
<1> QED BY <1>1, BilledHolds, PTL
============================================================================

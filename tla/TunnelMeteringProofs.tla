----------------------- MODULE TunnelMeteringProofs -----------------------
(* The theorems of TunnelMetering, for every number of registrations, every *)
(* configuration, every bound, and any pattern of lost and late calls.     *)
EXTENDS TunnelMetering, LedgerOpsProofs

--------------------------------------------------------------------------
(* The account's side, of the entry of this tunnel.                        *)

\* The entry of the tunnel is as it was, or gone.
KeptOrGone(L, M) ==
  \/ Id \in M.open /\ Id \in L.open /\ M.entry[Id] = L.entry[Id]
  \/ Id \notin M.open /\ M.entry[Id] = NoEntry

\* An entry belongs to a registration, and a closed tunnel has none.
Owned(L) == IF Id \in L.open THEN L.entry[Id].regId \in Sock ELSE L.entry[Id] = NoEntry

(* Rolling leaves the entry alone; reaping leaves it or removes it; neither *)
(* bills anything.                                                         *)
LEMMA FreshEntry ==
  ASSUME NEW L \in LedgerType, NEW n \in Nat, L.config \in Configs, Owned(L)
  PROVE  /\ Roll(L, n) \in LedgerType /\ Fresh(L, n) \in LedgerType
         /\ Roll(L, n).config = L.config /\ Fresh(L, n).config = L.config
         /\ Roll(L, n).open = L.open /\ Roll(L, n).entry = L.entry
         /\ KeptOrGone(L, Fresh(L, n)) /\ Owned(Fresh(L, n)) /\ Owned(Roll(L, n))
         /\ Roll(L, n).dayUsed <= L.dayUsed /\ Fresh(L, n).dayUsed <= L.dayUsed
<1> DEFINE R == Roll(L, n)
           F == Reap(R, n)
<1>1. R \in LedgerType
  BY RollKeeps
<1>2. F \in LedgerType
  <2> HIDE DEF R
  <2> QED BY <1>1, ReapKeeps
<1>3. R.config = L.config /\ R.open = L.open /\ R.entry = L.entry /\ R.dayUsed <= L.dayUsed
  BY DEF Roll, LedgerType
<1>4. /\ F.config = R.config /\ F.dayUsed = R.dayUsed
      /\ F.open = R.open \ Expired(R, n)
      /\ F.entry[Id] = IF Id \in Expired(R, n) THEN NoEntry ELSE R.entry[Id]
  <2> HIDE DEF R
  <2> QED BY <1>1, MeteringAssumption DEF Reap, LedgerType
<1>5. KeptOrGone(L, F) /\ Owned(F) /\ Owned(R)
  <2> HIDE DEF R, F
  <2> QED BY <1>3, <1>4 DEF KeptOrGone, Owned, Expired
<1> QED BY <1>1, <1>2, <1>3, <1>4, <1>5 DEF Fresh, LedgerType

(* A commit takes at most what it reports out of the lease, and bills it.  *)
LEMMA CommitEntry ==
  ASSUME NEW L \in LedgerType, NEW c \in Nat
  PROVE  LET M == Commit(L, Id, c)
         IN  /\ M \in LedgerType /\ M.config = L.config /\ M.open = L.open
             /\ M.entry[Id].lease \in Nat /\ M.entry[Id].regId = L.entry[Id].regId
             /\ L.entry[Id].lease <= M.entry[Id].lease + c
             /\ M.dayUsed <= L.dayUsed + c
<1> DEFINE M == Commit(L, Id, c)
           p == Smaller(c, L.entry[Id].lease)
<1>1. L.entry[Id] \in Entry /\ Id \in Tunnel
  BY MeteringAssumption DEF LedgerType
<1>2. p \in Nat /\ p <= c /\ p <= L.entry[Id].lease
  BY <1>1 DEF Smaller, Entry
<1>3. M \in LedgerType /\ M.config = L.config /\ M.open = L.open
  BY <1>1, CommitKeeps
<1>4. M.entry[Id].lease = L.entry[Id].lease - p /\ M.entry[Id].regId = L.entry[Id].regId
  BY <1>1 DEF Commit, LedgerType, Entry
<1>5. M.dayUsed = L.dayUsed + p
  BY DEF Commit, LedgerType
<1> HIDE DEF M, p
<1> QED BY <1>1, <1>2, <1>3, <1>4, <1>5 DEF Entry, LedgerType, M

(* /lease takes the commit out of the lease and adds what it grants.       *)
LEMMA LeaseEntry ==
  ASSUME NEW L \in LedgerType, L.config \in Configs, NEW w \in Nat, NEW c \in Nat, NEW n \in Nat
  PROVE  LET M == Leased(L, Id, w, c, n)
             g == LeaseGrant(L, Id, w, c)
         IN  /\ M \in LedgerType /\ M.config = L.config /\ M.open = L.open /\ g \in Nat
             /\ M.entry[Id].lease \in Nat /\ M.entry[Id].regId = L.entry[Id].regId
             /\ g <= M.entry[Id].lease
             /\ L.entry[Id].lease + g <= M.entry[Id].lease + c
             /\ M.dayUsed <= L.dayUsed + c
<1> DEFINE M == Leased(L, Id, w, c, n)
           P == Commit(L, Id, c)
           g == LeaseGrant(L, Id, w, c)
<1>0. Id \in Tunnel /\ L.config # NoAccount
  BY MeteringAssumption, LedgerAssumption
<1>1. /\ P \in LedgerType /\ P.config = L.config /\ P.open = L.open
      /\ P.entry[Id].lease \in Nat /\ P.entry[Id].regId = L.entry[Id].regId
      /\ L.entry[Id].lease <= P.entry[Id].lease + c
      /\ P.dayUsed <= L.dayUsed + c
  BY CommitEntry
<1>2. g = Grant(P, w) /\ g \in Nat
  <2>1. g = Grant(P, w)
    BY DEF LeaseGrant
  <2> HIDE DEF P, g
  <2> QED BY <1>0, <1>1, <2>1, GrantType
<1>3. M \in LedgerType
  BY <1>0, LeasedKeeps
<1>4. M = [P EXCEPT !.entry[Id].lease = @ + g, !.entry[Id].seen = n, !.leased = @ + g]
  BY DEF Leased, LeaseGrant
<1>5. /\ M.config = P.config /\ M.open = P.open /\ M.dayUsed = P.dayUsed
      /\ M.entry[Id].lease = P.entry[Id].lease + g /\ M.entry[Id].regId = P.entry[Id].regId
  <2> HIDE DEF P, g, M
  <2> QED BY <1>0, <1>1, <1>2, <1>4 DEF LedgerType, Entry
<1>6. L.entry[Id].lease \in Nat /\ L.dayUsed \in Nat /\ P.dayUsed \in Nat
  <2> HIDE DEF P
  <2> QED BY <1>0, <1>1 DEF LedgerType, Entry
<1> HIDE DEF M, P, g
<1> QED BY <1>1, <1>2, <1>3, <1>5, <1>6 DEF M, g

(* /close removes the entry and bills at most what it is told.             *)
LEMMA CloseEntry ==
  ASSUME NEW L \in LedgerType, NEW c \in Nat
  PROVE  LET M == Closed(L, Id, c)
         IN  /\ M \in LedgerType /\ M.config = L.config
             /\ Id \notin M.open /\ M.entry[Id] = NoEntry
             /\ M.dayUsed <= L.dayUsed + c
<1> DEFINE M == Closed(L, Id, c)
           P == Commit(L, Id, c)
<1>1. P \in LedgerType /\ P.config = L.config /\ P.dayUsed <= L.dayUsed + c
  BY CommitEntry
<1>2. M \in LedgerType
  BY MeteringAssumption, ClosedKeeps
<1>3. M = [P EXCEPT !.open = @ \ {Id}, !.entry[Id] = NoEntry,
                    !.leased = Less(@, P.entry[Id].lease)]
  BY DEF Closed
<1>4. M.config = P.config /\ M.dayUsed = P.dayUsed /\ Id \notin M.open /\ M.entry[Id] = NoEntry
  <2> HIDE DEF M, P
  <2> QED BY <1>1, <1>3, MeteringAssumption DEF LedgerType
<1> HIDE DEF M, P
<1> QED BY <1>1, <1>2, <1>4 DEF M

(* /authorize gives the entry, with its lease, to the new registration.    *)
LEMMA AuthorizeEntry ==
  ASSUME NEW L \in LedgerType, NEW s \in Sock, NEW n \in Nat
  PROVE  LET M == Admitted(L, Id, s, n)
         IN  /\ M \in LedgerType /\ M.config = L.config /\ Id \in M.open
             /\ M.entry[Id].lease = L.entry[Id].lease /\ M.entry[Id].regId = s
             /\ M.dayUsed = L.dayUsed
<1> DEFINE M == Admitted(L, Id, s, n)
<1>1. M \in LedgerType
  BY MeteringAssumption, AdmittedKeeps DEF Sock
<1> QED BY <1>1, MeteringAssumption DEF Admitted, LedgerType, Sock

Asks(c) == c.kind \in {"authorize", "reauthorize"}
Lets(c) == c.kind \in {"lease", "relet"}

(* What serving a call does: nothing or a reap, or a registration admitted, *)
(* or a grant covered by the lease; and it bills at most what is reported.  *)
LEMMA ServeDoes ==
  ASSUME ledger \in LedgerType, now \in Nat, ledger.config \in Configs, Owned(ledger), NEW c \in Call
  PROVE  LET F == Fresh(ledger, now)
             M == Effect(c, F, Roll(ledger, now))
             a == Answer(c, F)
         IN  /\ M \in LedgerType /\ M.config \in Configs /\ Owned(M) /\ a \in Reply
             /\ M.dayUsed <= ledger.dayUsed + c.commit
             /\ KeptOrGone(ledger, F)
             /\ \/ a.grant = 0 /\ KeptOrGone(ledger, M) /\ (Asks(c) => ~ a.ok)
                \/ /\ Asks(c) /\ a.ok /\ a.grant = 0
                   /\ a.carried = F.entry[Id].regId /\ a.credits = F.entry[Id].lease
                   /\ Id \in M.open /\ M.entry[Id].regId = c.sock
                   /\ M.entry[Id].lease = a.credits
                \/ /\ Lets(c) /\ Id \in M.open /\ Id \in ledger.open
                   /\ M.entry[Id].regId = c.sock /\ ledger.entry[Id].regId = c.sock
                   /\ a.grant <= M.entry[Id].lease
                   /\ ledger.entry[Id].lease + a.grant <= M.entry[Id].lease + c.commit
<1> DEFINE F == Fresh(ledger, now)
           R == Roll(ledger, now)
           M == Effect(c, F, R)
           a == Answer(c, F)
<1>1. /\ R \in LedgerType /\ F \in LedgerType
      /\ R.config = ledger.config /\ F.config = ledger.config
      /\ R.open = ledger.open /\ R.entry = ledger.entry
      /\ KeptOrGone(ledger, F) /\ Owned(F) /\ Owned(R)
      /\ R.dayUsed <= ledger.dayUsed /\ F.dayUsed <= ledger.dayUsed
  BY FreshEntry
<1>2. /\ c.commit \in Nat /\ c.want \in Nat /\ c.sock \in Sock
      /\ c.kind \in {"authorize", "reauthorize", "lease", "relet", "close"}
  BY DEF Call
<1>3. Refused \in Reply /\ Refused.grant = 0 /\ ~ Refused.ok
  BY DEF Refused, Reply
<1>4. F.entry[Id] \in Entry /\ ledger.entry[Id] \in Entry /\ ledger.dayUsed \in Nat
      /\ F.dayUsed \in Nat /\ R.dayUsed \in Nat
  <2> HIDE DEF F, R
  <2> QED BY <1>1, MeteringAssumption DEF LedgerType
<1>5. KeptOrGone(ledger, R)
  BY <1>1 DEF KeptOrGone, Owned
<1> HIDE DEF F, R
<1>6. CASE Asks(c)
  <2>1. CASE ~ Accepts(ledger, LegacySecret)
    <3>1. M = ledger /\ a = Refused
      BY <1>6, <2>1 DEF Effect, Answer, Asks
    <3>2. KeptOrGone(ledger, ledger)
      BY DEF KeptOrGone, Owned
    <3> HIDE DEF M, a
    <3> QED BY <1>1, <1>2, <1>3, <1>4, <3>1, <3>2 DEF F, R, M, a
  <2>2. CASE Accepts(ledger, LegacySecret) /\ ~ Admits(F, Id)
    <3>1. M = F /\ a = Refused
      BY <1>6, <2>2 DEF Effect, Answer, Asks
    <3> HIDE DEF M, a
    <3> QED BY <1>1, <1>2, <1>3, <1>4, <3>1 DEF F, R, M, a
  <2>3. CASE Accepts(ledger, LegacySecret) /\ Admits(F, Id)
    <3>1. /\ M = Admitted(F, Id, c.sock, now)
          /\ a = [Refused EXCEPT !.ok = TRUE, !.carried = F.entry[Id].regId,
                                 !.credits = F.entry[Id].lease]
      BY <1>6, <2>3 DEF Effect, Answer, Asks
    <3>2. /\ a \in Reply /\ a.ok /\ a.grant = 0
          /\ a.carried = F.entry[Id].regId /\ a.credits = F.entry[Id].lease
      <4> HIDE DEF M, a
      <4> QED BY <1>4, <3>1 DEF Refused, Reply, Entry, Sock
    <3>3. /\ M \in LedgerType /\ M.config = F.config /\ Id \in M.open
          /\ M.entry[Id].lease = F.entry[Id].lease /\ M.entry[Id].regId = c.sock
          /\ M.dayUsed = F.dayUsed
      <4> HIDE DEF M, a
      <4> QED BY <1>1, <1>2, <3>1, AuthorizeEntry, SMTT(30)
    <3>4. Owned(M)
      <4> HIDE DEF M, a
      <4> QED BY <1>2, <3>3 DEF Owned
    <3> HIDE DEF M, a
    <3> QED BY <1>1, <1>2, <1>4, <1>6, <3>2, <3>3, <3>4 DEF F, R, M, a
  <2> QED BY <2>1, <2>2, <2>3
<1>7. CASE Lets(c)
  <2>1. CASE ~ MayLease(F, Id, c.sock)
    <3>1. M = F /\ a = [Refused EXCEPT !.notOpen = Id \notin F.open]
      BY <1>7, <2>1 DEF Effect, Answer, Lets
    <3>2. a \in Reply /\ a.grant = 0
      <4> DEFINE b == Id \notin F.open
      <4>1. b \in BOOLEAN /\ a = [Refused EXCEPT !.notOpen = b]
        BY <3>1
      <4> HIDE DEF a, b
      <4> QED BY <1>3, <4>1 DEF Refused, Reply
    <3> HIDE DEF M, a
    <3> QED BY <1>1, <1>2, <1>4, <1>7, <3>1, <3>2 DEF F, R, M, a, Asks, Lets
  <2>2. CASE MayLease(F, Id, c.sock)
    <3> DEFINE g == LeaseGrant(F, Id, c.want, c.commit)
    <3>1. M = Leased(F, Id, c.want, c.commit, now) /\ a = [Refused EXCEPT !.ok = TRUE, !.grant = g]
      BY <1>7, <2>2 DEF Effect, Answer, Lets
    <3>2. Id \in F.open /\ F.entry[Id].regId = c.sock
      BY <1>1, <1>2, <2>2, LedgerAssumption DEF MayLease, Owns, Owned, Sock
    <3>3. Id \in ledger.open /\ ledger.entry[Id] = F.entry[Id]
      BY <1>1, <3>2 DEF KeptOrGone
    <3>4. /\ M \in LedgerType /\ M.config = F.config /\ M.open = F.open /\ g \in Nat
          /\ M.entry[Id].lease \in Nat /\ M.entry[Id].regId = F.entry[Id].regId
          /\ g <= M.entry[Id].lease
          /\ F.entry[Id].lease + g <= M.entry[Id].lease + c.commit
          /\ M.dayUsed <= F.dayUsed + c.commit
      <4> HIDE DEF M, a, g
      <4> QED BY <1>1, <1>2, <3>1, LeaseEntry DEF g
    <3> HIDE DEF g
    <3>5. a \in Reply /\ a.grant = g
      <4> HIDE DEF M, a
      <4> QED BY <1>3, <3>1, <3>4 DEF Refused, Reply
    <3>6. Owned(M)
      <4> HIDE DEF M, a
      <4> QED BY <1>2, <3>2, <3>4 DEF Owned
    <3>7. M.dayUsed <= ledger.dayUsed + c.commit
      <4>1. M.dayUsed \in Nat
        <5> HIDE DEF M
        <5> QED BY <3>4 DEF LedgerType
      <4> HIDE DEF M, a
      <4> QED BY <1>1, <1>2, <1>4, <3>4, <4>1
    <3> HIDE DEF M, a
    <3> QED BY <1>1, <1>2, <1>4, <1>7, <3>2, <3>3, <3>4, <3>5, <3>6, <3>7 DEF F, R, M, a
  <2> QED BY <2>1, <2>2
<1>8. CASE c.kind = "close"
  <2>0. a \in Reply /\ a.grant = 0
    BY <1>8 DEF Answer, Refused, Reply
  <2>1. CASE ~ Owns(R, Id, c.sock)
    <3>1. M = R
      BY <1>8, <2>1 DEF Effect
    <3> HIDE DEF M, a
    <3> QED BY <1>1, <1>2, <1>4, <1>5, <1>8, <2>0, <3>1 DEF F, R, M, a, Asks
  <2>2. CASE Owns(R, Id, c.sock)
    <3>1. M = Closed(R, Id, c.commit)
      BY <1>8, <2>2 DEF Effect
    <3>2. /\ M \in LedgerType /\ M.config = R.config
          /\ Id \notin M.open /\ M.entry[Id] = NoEntry
          /\ M.dayUsed <= R.dayUsed + c.commit
      <4> HIDE DEF M, a
      <4> QED BY <1>1, <1>2, <3>1, CloseEntry
    <3>3. Owned(M) /\ KeptOrGone(ledger, M)
      <4> HIDE DEF M, a
      <4> QED BY <3>2 DEF Owned, KeptOrGone
    <3>4. M.dayUsed <= ledger.dayUsed + c.commit
      <4>1. M.dayUsed \in Nat
        <5> HIDE DEF M
        <5> QED BY <3>2 DEF LedgerType
      <4> HIDE DEF M, a
      <4> QED BY <1>1, <1>2, <1>4, <3>2, <4>1
    <3> HIDE DEF M, a
    <3> QED BY <1>1, <1>8, <2>0, <3>2, <3>3, <3>4 DEF F, R, M, a, Asks
  <2> QED BY <2>1, <2>2
<1> QED BY <1>2, <1>6, <1>7, <1>8 DEF Asks, Lets

--------------------------------------------------------------------------
(* The inductive invariant                                                 *)

\* One registration serves, its metering state is the current one or was lost
\* with a hibernation, and a connection that has not registered has none.
OneServes ==
  /\ \A s, o \in Sock : conn[s] = "registered" /\ conn[o] = "registered" => s = o
  /\ \A s \in Sock : conn[s] = "registered" => metering \in {s, None}
  /\ \A s \in Sock : conn[s] \in {"none", "accepted"} => meter[s] = newMetering /\ metering # s

\* Only the current metering state has something to report.
OneReports ==
  /\ metering = None => \A s \in Sock : meter[s] = newMetering
  /\ \A s \in Sock : s # metering => Unreported(s) = 0
  /\ \A s \in Sock : meter[s].settled => conn[s] \in {"superseded", "closed"} /\ Unreported(s) = 0

\* A task is of a registration (or of a connection about to be one) whose state
\* is current or settled; a batch is counted in what its registration owes.
TaskOK(q) ==
  /\ q.kind = "register" => conn[q.sock] = "accepted"
  /\ q.kind # "register" => /\ conn[q.sock] \notin {"none", "accepted"}
                            /\ meter[q.sock].settled \/ metering = q.sock
  /\ q.kind = "settle" => conn[q.sock] = "closed"
  /\ q.kind = "flush" => /\ meter[q.sock].flushQueued
                         /\ meter[q.sock].settled \/ q.n <= meter[q.sock].messages

\* A registration has at most one register and one batch in the queue.
Single(q) ==
  \A i, j \in 1..Len(q) :
    q[i].kind = q[j].kind /\ q[i].sock = q[j].sock /\ q[i].kind \in {"register", "flush"} => i = j

Queued == Single(queue) /\ \A i \in 1..Len(queue) : TaskOK(queue[i])

\* A call under way is the head's.
Calling ==
  rpc # NoCall => /\ queue # << >> /\ rpc.sock = task.sock
                  /\ rpc.kind = "authorize" <=> task.kind = "register"
                  /\ Asks(rpc) => rpc.commit = 0
                  /\ task.kind = "settle" /\ me.settled => rpc.kind = "close"

\* A call served late is of a connection that was refused, or of a registration.
Lapsing ==
  late # NoCall =>
    /\ late.reply = Unserved
    /\ Asks(late) => late.commit = 0
    /\ late.kind # "authorize" => conn[late.sock] \notin {"none", "accepted"}
    /\ late.kind = "authorize" =>
         /\ meter[late.sock] = newMetering /\ metering # late.sock
         /\ conn[late.sock] \in {"accepted", "closed"}
         /\ conn[late.sock] = "accepted" =>
              rpc # NoCall /\ rpc.sock = late.sock /\ rpc.reply = Refused
         /\ \A i \in 1..Len(queue) : queue[i].sock = late.sock => queue[i].kind = "register"

\* What a successor is about to take over is in the lease it was told of.
HandedOver ==
  /\ rpc # NoCall /\ rpc.kind = "authorize" /\ rpc.reply # Unserved /\ rpc.reply.ok
  /\ Id \in ledger.open /\ ledger.entry[Id].regId = rpc.sock
  => /\ ledger.entry[Id].lease = rpc.reply.credits
     /\ rpc.reply.carried \in Sock =>
          meter[rpc.reply.carried].budget + meter[rpc.reply.carried].consumed
            <= rpc.reply.credits + void[rpc.reply.carried]

Inv ==
  /\ TypeOK /\ ledger.config \in Configs /\ Owned(ledger)
  /\ OneServes /\ OneReports /\ Queued /\ Calling /\ Lapsing
  /\ HandedOver /\ Backed /\ NeverOverbilled

--------------------------------------------------------------------------
(* The head of the chain.                                                  *)

(* The head of a queue of tasks, and what is left behind it.               *)
LEMMA TailOf ==
  ASSUME NEW q \in Seq(Task), q # << >>
  PROVE  /\ Head(q) \in Task /\ Head(q) = q[1] /\ 1 \in 1..Len(q)
         /\ Tail(q) \in Seq(Task)
         /\ \A i \in 1..Len(Tail(q)) : i + 1 \in 1..Len(q) /\ Tail(q)[i] = q[i + 1]
         /\ Single(q) => /\ Single(Tail(q))
                         /\ \A i \in 1..Len(Tail(q)) :
                              Tail(q)[i].sock = Head(q).sock /\ Tail(q)[i].kind = Head(q).kind
                                => Head(q).kind \notin {"register", "flush"}
<1>1. /\ Head(q) \in Task /\ Head(q) = q[1] /\ Len(q) \in Nat /\ 1 \in 1..Len(q)
      /\ Tail(q) \in Seq(Task) /\ Len(Tail(q)) = Len(q) - 1
      /\ \A i \in 1..Len(Tail(q)) : Tail(q)[i] = q[i + 1]
  OBVIOUS
<1>2. \A i \in 1..Len(Tail(q)) : i + 1 \in 1..Len(q) /\ i + 1 # 1
  BY <1>1
<1>3. ASSUME Single(q) PROVE Single(Tail(q))
  <2> SUFFICES ASSUME NEW i \in 1..Len(Tail(q)), NEW j \in 1..Len(Tail(q)),
                      Tail(q)[i].kind = Tail(q)[j].kind, Tail(q)[i].sock = Tail(q)[j].sock,
                      Tail(q)[i].kind \in {"register", "flush"}
               PROVE  i = j
    BY DEF Single
  <2>1. i + 1 = j + 1
    BY <1>1, <1>2, <1>3 DEF Single
  <2> QED BY <2>1
<1>4. ASSUME Single(q), NEW i \in 1..Len(Tail(q)),
             Tail(q)[i].sock = Head(q).sock, Tail(q)[i].kind = Head(q).kind
      PROVE  Head(q).kind \notin {"register", "flush"}
  BY <1>1, <1>2, <1>4 DEF Single
<1> QED BY <1>1, <1>2, <1>3, <1>4

(* A task put behind the others.                                           *)
LEMMA AppendOf ==
  ASSUME NEW q \in Seq(Task), NEW t \in Task
  PROVE  /\ Append(q, t) \in Seq(Task) /\ Append(q, t) # << >>
         /\ \A i \in 1..Len(Append(q, t)) :
              \/ i \in 1..Len(q) /\ Append(q, t)[i] = q[i]
              \/ i = Len(q) + 1 /\ Append(q, t)[i] = t
         /\ Single(q) /\ (t.kind \in {"register", "flush"} =>
                            \A i \in 1..Len(q) : q[i].kind = t.kind => q[i].sock # t.sock)
              => Single(Append(q, t))
         /\ q # << >> => Head(Append(q, t)) = Head(q)
<1>1. /\ Append(q, t) \in Seq(Task) /\ Len(q) \in Nat /\ Len(Append(q, t)) = Len(q) + 1
      /\ \A i \in 1..Len(q) : Append(q, t)[i] = q[i]
      /\ Append(q, t)[Len(q) + 1] = t
  OBVIOUS
<1>2. \A i \in 1..Len(Append(q, t)) :
        \/ i \in 1..Len(q) /\ Append(q, t)[i] = q[i]
        \/ i = Len(q) + 1 /\ Append(q, t)[i] = t
  BY <1>1
<1>3. Append(q, t) # << >>
  BY <1>1
<1>4. q # << >> => Head(Append(q, t)) = Head(q)
  BY <1>1
<1>5. Single(q) /\ (t.kind \in {"register", "flush"} =>
                            \A i \in 1..Len(q) : q[i].kind = t.kind => q[i].sock # t.sock)
              => Single(Append(q, t))
  BY <1>2 DEF Single
<1> QED BY <1>1, <1>2, <1>3, <1>4, <1>5

(* A new call carries its commit, and grants nothing yet.                  *)
LEMMA NewCall ==
  ASSUME NEW k \in {"authorize", "reauthorize", "lease", "relet", "close"},
         NEW s \in Sock, NEW w \in Nat, NEW n \in Nat
  PROVE  LET c == CallOf(k, s, w, n)
         IN  /\ c \in Call /\ c # NoCall /\ c.reply = Unserved
             /\ c.kind = k /\ c.sock = s /\ c.commit = n
             /\ Reporting(c) = n
             /\ Pending(c, s) = IF k = "close" THEN 0 ELSE n
             /\ \A o \in Sock : o # s => Pending(c, o) = 0
<1> DEFINE c == CallOf(k, s, w, n)
<1>1. c \in Call /\ c.reply = Unserved /\ c.kind = k /\ c.sock = s /\ c.commit = n
  BY DEF CallOf, Call
<1> HIDE DEF c
<1>2. c # NoCall
  BY <1>1, MeteringAssumption
<1> QED BY <1>1, <1>2 DEF Reporting, Granting, Pending, c

\* What a step of the head does to the state of its registration, which it
\* leaves as m: b bounds what is then claimed of the lease, u what is owed.
HeadDoes(m, b, u) ==
  /\ task.kind # "register"
  /\ m \in Meter /\ meter' = [meter EXCEPT ![task.sock] = m]
  /\ me.settled => m.settled /\ m.consumed = me.consumed /\ m.messages = me.messages
  /\ m.settled /\ ~ me.settled => task.kind = "settle" /\ m.consumed = 0 /\ m.messages = 0
  /\ \/ /\ queue' = queue
        /\ rpc' \in Call /\ rpc' # NoCall /\ rpc'.reply = Unserved /\ rpc'.sock = task.sock
        /\ rpc'.kind # "authorize" /\ (Asks(rpc') => rpc'.commit = 0)
        /\ task.kind = "settle" /\ m.settled => rpc'.kind = "close"
        /\ m.flushQueued = me.flushQueued /\ (m.settled \/ m.messages >= me.messages)
     \/ /\ queue' = Tail(queue) /\ rpc' = NoCall
        /\ \/ task.kind = "flush"
           \/ m.flushQueued = me.flushQueued /\ m.messages >= me.messages
     \/ /\ task.kind = "flush" /\ rpc' = NoCall /\ m.flushQueued
        /\ \E n \in Nat : /\ n <= m.messages
                          /\ queue' = Append(Tail(queue), TaskOf("flush", task.sock, n))
  /\ m.budget + m.consumed + Pending(rpc', task.sock) <= b
  /\ m.consumed + m.messages + Reporting(rpc') <= u

(* The state and the task of the head.                                     *)
LEMMA HeadType ==
  ASSUME TypeOK, queue # << >>
  PROVE  /\ task \in Task /\ task.sock \in Sock /\ task.n \in Nat /\ me \in Meter
         /\ me.budget \in Nat /\ me.consumed \in Nat /\ me.messages \in Nat
         /\ Tail(queue) \in Seq(Task)
<1>1. task \in Task /\ Tail(queue) \in Seq(Task)
  BY TailOf DEF TypeOK, task
<1>2. task.sock \in Sock /\ task.n \in Nat
  BY <1>1 DEF Task
<1>3. me \in Meter
  BY <1>2 DEF TypeOK, me
<1> QED BY <1>1, <1>2, <1>3 DEF Meter

(* The final close reports everything that is owed.                        *)
LEMMA CloseDoes ==
  ASSUME TypeOK, queue # << >>, task.kind = "settle", ~ me.settled,
         NEW m \in Meter, m.flushQueued = me.flushQueued, Close(m)
  PROVE  \E o : HeadDoes(o, m.budget + m.consumed, m.consumed + m.messages)
<1>1. task.sock \in Sock
  BY HeadType
<1>2. m.consumed \in Nat /\ m.messages \in Nat /\ m.budget \in Nat /\ m.consumed + m.messages \in Nat
  BY DEF Meter
<1> DEFINE o == [m EXCEPT !.settled = TRUE, !.budget = 0, !.consumed = 0, !.messages = 0]
           n == m.consumed + m.messages
<1>3. /\ o \in Meter /\ o.settled /\ o.budget = 0 /\ o.consumed = 0 /\ o.messages = 0
      /\ o.flushQueued = me.flushQueued
  BY DEF Meter
<1>4. meter' = [meter EXCEPT ![task.sock] = o] /\ rpc' = CallOf("close", task.sock, 0, n) /\ queue' = queue
  BY DEF Close
<1> HIDE DEF o, n
<1>5. /\ rpc' \in Call /\ rpc' # NoCall /\ rpc'.reply = Unserved /\ rpc'.sock = task.sock
      /\ rpc'.kind = "close" /\ Pending(rpc', task.sock) = 0 /\ Reporting(rpc') = n
  BY <1>1, <1>2, <1>4, NewCall DEF n
<1>6. HeadDoes(o, m.budget + m.consumed, m.consumed + m.messages)
  BY <1>2, <1>3, <1>4, <1>5 DEF HeadDoes, Asks, n
<1> QED BY <1>6

(* The end of spendBudget: what was not paid (but n) is still owed.        *)
LEMMA FinishDoes ==
  ASSUME TypeOK, queue # << >>, TaskOK(task), NEW m \in Meter, NEW paid \in BOOLEAN,
         task.kind = "settle" => ~ me.settled, paid => ~ me.settled,
         m.settled = me.settled, m.flushQueued = me.flushQueued, m.messages = me.messages,
         me.settled => m.consumed = me.consumed,
         NEW n, n = IF ~ paid \/ task.kind = "spend" THEN 0
                    ELSE IF task.kind = "flush" THEN task.n ELSE m.messages,
         Finish(m, paid)
  PROVE  \E o : HeadDoes(o, m.budget + m.consumed, m.consumed + m.messages - n)
<1>1. task.sock \in Sock /\ task.n \in Nat /\ Tail(queue) \in Seq(Task) /\ me \in Meter
  BY HeadType
<1>2. m.consumed \in Nat /\ m.messages \in Nat /\ m.budget \in Nat
  BY DEF Meter
<1>3. Pending(NoCall, task.sock) = 0 /\ Reporting(NoCall) = 0
  BY DEF Pending, Reporting
<1>4. CASE task.kind = "spend"
  <2>1. meter' = [meter EXCEPT ![task.sock] = m] /\ queue' = Tail(queue) /\ rpc' = NoCall
    BY <1>4 DEF Finish
  <2>2. n = 0
    BY <1>4
  <2>3. HeadDoes(m, m.budget + m.consumed, m.consumed + m.messages - n)
    BY <1>2, <1>3, <1>4, <2>1, <2>2 DEF HeadDoes
  <2> QED BY <2>3
<1>5. CASE task.kind = "flush"
  <2> DEFINE rest == [m EXCEPT !.messages = IF paid THEN @ - task.n ELSE @, !.flushQueued = FALSE]
             again == paid /\ ownsMetering(task.sock) /\ WantsFlush(rest)
             o == [rest EXCEPT !.flushQueued = again]
  <2>1. /\ meter' = [meter EXCEPT ![task.sock] = o] /\ rpc' = NoCall
        /\ queue' = IF again THEN Ordered(Tail(queue), Batch(task.sock, rest)) ELSE Tail(queue)
    BY <1>5 DEF Finish
  <2>2. again \in BOOLEAN
    BY DEF ownsMetering, WantsFlush, ctl, Meter
  <2>3. paid => task.n <= m.messages
    BY <1>5 DEF TaskOK, me
  <2>4. /\ rest \in Meter /\ rest.budget = m.budget /\ rest.consumed = m.consumed
        /\ rest.settled = m.settled
        /\ rest.messages = IF paid THEN m.messages - task.n ELSE m.messages
    <3> DEFINE left == IF paid THEN m.messages - task.n ELSE m.messages
    <3>1. left \in Nat
      BY <1>1, <1>2, <2>3
    <3>2. rest = [m EXCEPT !.messages = left, !.flushQueued = FALSE]
      BY DEF Meter
    <3> HIDE DEF left, rest
    <3> QED BY <3>1, <3>2 DEF Meter, left
  <2>5. n = IF paid THEN task.n ELSE 0
    BY <1>5
  <2>6. again => paid
    OBVIOUS
  <2> HIDE DEF rest, again
  <2>7. /\ o \in Meter /\ o.budget = m.budget /\ o.consumed = m.consumed /\ o.settled = m.settled
        /\ o.messages = rest.messages /\ o.flushQueued = again
    BY <2>2, <2>4 DEF Meter
  <2>8. again => \E k \in Nat : /\ k <= o.messages
                                /\ queue' = Append(Tail(queue), TaskOf("flush", task.sock, k))
    <3> DEFINE k == IF rest.messages < FlushEvery THEN rest.messages ELSE FlushEvery
    <3>1. k \in Nat /\ k <= o.messages
      BY <1>2, <2>4, <2>7, MeteringAssumption DEF Meter
    <3>2. again => queue' = Append(Tail(queue), TaskOf("flush", task.sock, k))
      BY <2>1 DEF Ordered, Batch
    <3> QED BY <3>1, <3>2
  <2> HIDE DEF o
  <2>9. HeadDoes(o, m.budget + m.consumed, m.consumed + m.messages - n)
    <3>1. CASE again
      BY <1>1, <1>2, <1>3, <1>5, <2>1, <2>3, <2>4, <2>5, <2>6, <2>7, <2>8, <3>1 DEF HeadDoes
    <3>2. CASE ~ again
      BY <1>1, <1>2, <1>3, <1>5, <2>1, <2>3, <2>4, <2>5, <2>7, <3>2 DEF HeadDoes
    <3> QED BY <3>1, <3>2
  <2> QED BY <2>9
<1>6. CASE task.kind = "settle"
  <2> DEFINE c == [m EXCEPT !.messages = IF paid THEN 0 ELSE @]
  <2>1. Close(c)
    BY <1>6 DEF Finish
  <2>2. /\ c \in Meter /\ c.budget = m.budget /\ c.consumed = m.consumed
        /\ c.flushQueued = me.flushQueued
        /\ c.messages = IF paid THEN 0 ELSE m.messages
    BY <1>2 DEF Meter
  <2>3. n = IF paid THEN m.messages ELSE 0
    BY <1>6
  <2> HIDE DEF c
  <2>4. \E o : HeadDoes(o, c.budget + c.consumed, c.consumed + c.messages)
    BY <1>6, <2>1, <2>2, CloseDoes
  <2>5. c.consumed + c.messages = m.consumed + m.messages - n
    BY <1>2, <2>2, <2>3
  <2> QED BY <2>2, <2>4, <2>5
<1> QED BY <1>4, <1>5, <1>6 DEF Finish

(* Credits and operations are counted together.                            *)
Charged == incurred' \in Nat /\ spent' \in Nat /\ incurred <= incurred'

(* spendBudget pays from the budget, or asks for a lease and reports all   *)
(* that was consumed; what it owes grows with the operations it counts.    *)
LEMMA SpendDoes ==
  ASSUME TypeOK, queue # << >>, TaskOK(task), ledger.config \in Configs,
         task.kind \in {"spend", "flush", "settle"}, task.kind = "settle" => ~ me.settled,
         NEW m \in Meter, m.settled = me.settled, m.flushQueued = me.flushQueued,
         m.messages = me.messages, m.consumed = me.consumed, spendBudget(m)
  PROVE  /\ Charged
         /\ \E o : HeadDoes(o, m.budget + m.consumed,
                               me.consumed + me.messages + (incurred' - incurred))
<1>1. /\ task.sock \in Sock /\ task.n \in Nat /\ me \in Meter
      /\ me.consumed \in Nat /\ me.messages \in Nat
  BY HeadType
<1>2. m.consumed \in Nat /\ m.messages \in Nat /\ m.budget \in Nat /\ spent \in Nat /\ incurred \in Nat
  BY DEF Meter, TypeOK
<1>3. cost \in Nat /\ want \in Nat
  <2>1. ledger.config.leaseChunk \in Nat
    BY LedgerAssumption DEF ConfigType
  <2>2. cost \in Nat
    BY <1>1 DEF cost
  <2> QED BY <2>1, <2>2 DEF want
<1>4. CASE ~ canCharge(task) /\ Finish(m, FALSE) /\ Unspent
  <2>1. \E o : HeadDoes(o, m.budget + m.consumed, m.consumed + m.messages - 0)
    BY <1>4, FinishDoes
  <2>3. Charged /\ incurred' = incurred
    BY <1>2, <1>4 DEF Unspent, Charged
  <2>4. m.consumed + m.messages - 0 = me.consumed + me.messages + (incurred' - incurred)
    BY <1>1, <1>2, <2>3
  <2> QED BY <2>1, <2>3, <2>4
<1>5. CASE /\ canCharge(task) /\ m.budget >= cost
           /\ Finish([m EXCEPT !.budget = @ - cost, !.consumed = @ + cost], TRUE)
           /\ spent' = spent + cost
           /\ incurred' = incurred + (IF task.kind = "spend" THEN cost ELSE 0)
  <2> DEFINE p == [m EXCEPT !.budget = @ - cost, !.consumed = @ + cost]
  <2>1. ~ me.settled
    BY <1>5 DEF canCharge, me
  <2>2. /\ p \in Meter /\ p.settled = me.settled /\ p.flushQueued = me.flushQueued
        /\ p.messages = me.messages
        /\ p.budget = m.budget - cost /\ p.consumed = m.consumed + cost
    <3> DEFINE x == m.budget - cost
               y == m.consumed + cost
    <3>1. x \in Nat /\ y \in Nat /\ p = [m EXCEPT !.budget = x, !.consumed = y]
      BY <1>2, <1>3, <1>5, SMTT(30)
    <3> HIDE DEF x, y, p
    <3> QED BY <3>1 DEF Meter, x, y
  <2>3. Finish(p, TRUE)
    BY <1>5
  <2>4. Charged
    BY <1>2, <1>3, <1>5 DEF Charged
  <2> HIDE DEF p
  <2> DEFINE n == IF task.kind = "spend" THEN 0
                  ELSE IF task.kind = "flush" THEN task.n ELSE p.messages
  <2>5. \E o : HeadDoes(o, p.budget + p.consumed, p.consumed + p.messages - n)
    BY <2>1, <2>2, <2>3, FinishDoes
  <2>6. p.budget + p.consumed = m.budget + m.consumed
    BY <1>2, <1>3, <2>2
  <2>7. p.consumed + p.messages - n = me.consumed + me.messages + (incurred' - incurred)
    BY <1>1, <1>2, <1>3, <1>5, <2>2, SMTT(30) DEF cost
  <2> HIDE DEF n
  <2> QED BY <2>4, <2>5, <2>6, <2>7
<1>6. CASE /\ canCharge(task) /\ m.budget < cost
           /\ rpc' = CallOf("lease", task.sock, want, m.consumed)
           /\ meter' = [meter EXCEPT ![task.sock] = [m EXCEPT !.consumed = 0]]
           /\ queue' = queue /\ Unspent
  <2> DEFINE o == [m EXCEPT !.consumed = 0]
  <2>1. /\ o \in Meter /\ o.consumed = 0 /\ o.budget = m.budget /\ o.messages = m.messages
        /\ o.settled = m.settled /\ o.flushQueued = m.flushQueued
    BY DEF Meter
  <2>2. /\ rpc' \in Call /\ rpc' # NoCall /\ rpc'.reply = Unserved /\ rpc'.sock = task.sock
        /\ rpc'.kind = "lease" /\ Reporting(rpc') = m.consumed
        /\ Pending(rpc', task.sock) = m.consumed
    <3>1. PICK s \in Sock, w \in Nat, n \in Nat : s = task.sock /\ w = want /\ n = m.consumed
      BY <1>1, <1>2, <1>3
    <3>2. rpc' = CallOf("lease", s, w, n)
      BY <1>6, <3>1
    <3>3. /\ rpc' \in Call /\ rpc' # NoCall /\ rpc'.reply = Unserved /\ rpc'.sock = s
          /\ rpc'.kind = "lease" /\ Reporting(rpc') = n /\ Pending(rpc', s) = n
      BY ONLY <3>2, NewCall
    <3> QED BY <3>1, <3>3
  <2>3. ~ me.settled
    BY <1>6 DEF canCharge, me
  <2>4. Charged /\ incurred' = incurred
    BY <1>2, <1>6 DEF Unspent, Charged
  <2>5. meter' = [meter EXCEPT ![task.sock] = o] /\ queue' = queue
    BY <1>6
  <2>6. task.kind # "register"
    OBVIOUS
  <2> HIDE DEF o
  <2>7. HeadDoes(o, m.budget + m.consumed, me.consumed + me.messages + (incurred' - incurred))
    BY <1>1, <1>2, <2>1, <2>2, <2>3, <2>4, <2>5, <2>6 DEF HeadDoes, Asks
  <2> QED BY <2>4, <2>7
<1> QED BY <1>4, <1>5, <1>6 DEF spendBudget

(* A bound may be loosened.                                                *)
LEMMA LooserBound ==
  ASSUME NEW o, NEW b \in Nat, NEW u, HeadDoes(o, b, u), NEW c \in Nat, b <= c
  PROVE  HeadDoes(o, c, u)
<1>1. rpc' = NoCall \/ (rpc' \in Call /\ rpc'.reply = Unserved)
  BY DEF HeadDoes
<1>2. o \in Meter /\ Pending(rpc', task.sock) \in Nat
  BY <1>1 DEF HeadDoes, Pending, Reporting, Granting, Call
<1> QED BY <1>2 DEF HeadDoes, Meter

(* A step that leaves the state as it was.                                 *)
LEMMA SameDoes ==
  ASSUME TypeOK, queue # << >>, task.kind # "register", meter' = meter, NEW b, NEW u,
         \/ queue' = Tail(queue) /\ rpc' = NoCall
         \/ /\ queue' = queue /\ rpc' \in Call /\ rpc' # NoCall /\ rpc'.reply = Unserved
            /\ rpc'.sock = task.sock /\ rpc'.kind # "authorize" /\ ~ Asks(rpc')
            /\ ~ (task.kind = "settle" /\ me.settled),
         me.budget + me.consumed + Pending(rpc', task.sock) <= b,
         me.consumed + me.messages + Reporting(rpc') <= u
  PROVE  HeadDoes(me, b, u)
<1> DEFINE o == me
<1>1. /\ o \in Meter /\ o = me /\ meter' = [meter EXCEPT ![task.sock] = o]
      /\ o.messages \in Nat /\ me.messages \in Nat
  BY HeadType DEF TypeOK, me
<1> HIDE DEF o
<1>2. /\ me.settled => o.settled /\ o.consumed = me.consumed /\ o.messages = me.messages
      /\ o.settled /\ ~ me.settled => task.kind = "settle" /\ o.consumed = 0 /\ o.messages = 0
      /\ o.flushQueued = me.flushQueued /\ o.messages >= me.messages
      /\ ~ (task.kind = "settle" /\ me.settled) => ~ (task.kind = "settle" /\ o.settled)
      /\ o.budget + o.consumed + Pending(rpc', task.sock) <= b
      /\ o.consumed + o.messages + Reporting(rpc') <= u
  BY <1>1
<1>3. HeadDoes(o, b, u)
  <2>1. CASE queue' = Tail(queue) /\ rpc' = NoCall
    BY <1>1, <1>2, <2>1 DEF HeadDoes
  <2>2. CASE /\ queue' = queue /\ rpc' \in Call /\ rpc' # NoCall /\ rpc'.reply = Unserved
             /\ rpc'.sock = task.sock /\ rpc'.kind # "authorize" /\ ~ Asks(rpc')
             /\ ~ (task.kind = "settle" /\ me.settled)
    BY <1>1, <1>2, <2>2 DEF HeadDoes
  <2> QED BY <2>1, <2>2
<1> QED BY <1>1, <1>3

HeadStep == Spend \/ settle \/ LeaseReply \/ NotOpen \/ Reauthorized \/ CloseReply

(* Every step of the head but those of a register is such a step, and what *)
(* it may claim is what it had and what the call it awaited has granted.   *)
LEMMA HeadSteps ==
  ASSUME Inv, HeadStep
  PROVE  /\ queue # << >> /\ HeadOnly /\ Charged /\ (rpc = NoCall \/ rpc.reply # Unserved)
         /\ \E o : HeadDoes(o, me.budget + me.consumed + Pending(rpc, task.sock),
                               Unreported(task.sock) + (incurred' - incurred))
<1>1. TypeOK /\ ledger.config \in Configs /\ Calling
  BY DEF Inv
<1>2. queue # << >>
  BY <1>1 DEF HeadStep, Spend, settle, Starts, LeaseReply, NotOpen, Reauthorized, CloseReply,
              Answered, Calling
<1>3. /\ task \in Task /\ task.sock \in Sock /\ task.n \in Nat /\ me \in Meter
      /\ me.budget \in Nat /\ me.consumed \in Nat /\ me.messages \in Nat
  BY <1>1, <1>2, HeadType
<1>4. TaskOK(task)
  BY <1>2, TailOf DEF Inv, Queued, TypeOK, task
<1>5. incurred \in Nat /\ spent \in Nat
  BY <1>1 DEF TypeOK
<1>6. Unreported(task.sock) = me.consumed + me.messages
  BY DEF Unreported, me
<1> DEFINE b == me.budget + me.consumed + Pending(rpc, task.sock)
           u == Unreported(task.sock) + (incurred' - incurred)
<1>7. ASSUME rpc # NoCall, rpc.reply # Unserved, rpc.kind # "close"
      PROVE  Pending(rpc, task.sock) = rpc.reply.grant /\ rpc.reply.grant \in Nat
             /\ (task.kind = "settle" => ~ me.settled)
  BY <1>1, <1>2, <1>7 DEF Pending, Reporting, Granting, Calling, TypeOK, Call, Reply
<1>8. rpc = NoCall => Pending(rpc, task.sock) = 0
  BY DEF Pending
<1>9. Unspent => Charged /\ u = me.consumed + me.messages /\ incurred' = incurred
  BY <1>3, <1>5, <1>6 DEF Unspent, Charged
<1>10. ASSUME Spend PROVE HeadOnly /\ Charged /\ rpc = NoCall /\ \E o : HeadDoes(o, b, u)
  <2>1. task.kind \in {"spend", "flush"} /\ rpc = NoCall /\ spendBudget(me) /\ HeadOnly
    BY <1>10 DEF Spend, Starts
  <2>2. Charged /\ \E o : HeadDoes(o, me.budget + me.consumed,
                                   me.consumed + me.messages + (incurred' - incurred))
    BY <1>1, <1>2, <1>3, <1>4, <2>1, SpendDoes
  <2>3. b = me.budget + me.consumed
    BY <1>3, <1>8, <2>1
  <2> QED BY <1>6, <2>1, <2>2, <2>3
<1>11. ASSUME settle PROVE HeadOnly /\ Charged /\ rpc = NoCall /\ \E o : HeadDoes(o, b, u)
  <2>1. task.kind = "settle" /\ rpc = NoCall /\ HeadOnly
    BY <1>11 DEF settle, Starts
  <2>2. b = me.budget + me.consumed
    BY <1>3, <1>8, <2>1
  <2>3. ASSUME me.settled, queue' = Tail(queue), UNCHANGED <<meter, rpc, spent, incurred>>
        PROVE  Charged /\ HeadDoes(me, b, u)
    <3>1. Unspent
      BY <2>3 DEF Unspent
    <3>2. rpc' = NoCall /\ Pending(rpc', task.sock) = 0 /\ Reporting(rpc') = 0
      BY <2>1, <2>3 DEF Pending, Reporting
    <3>3. me.budget + me.consumed + Pending(rpc', task.sock) <= b
          /\ me.consumed + me.messages + Reporting(rpc') <= u
      BY <1>3, <1>9, <2>2, <3>1, <3>2
    <3>4. Charged /\ task.kind # "register" /\ meter' = meter
      BY <1>9, <2>1, <2>3, <3>1
    <3> HIDE DEF b, u
    <3> QED BY <1>1, <1>2, <2>3, <3>2, <3>3, <3>4, SameDoes
  <2> DEFINE m == [me EXCEPT !.active = FALSE]
  <2>4. /\ m \in Meter /\ m.settled = me.settled /\ m.flushQueued = me.flushQueued
        /\ m.messages = me.messages /\ m.consumed = me.consumed /\ m.budget = me.budget
    BY <1>3 DEF Meter
  <2>5. ASSUME ~ me.settled, spendBudget(m) PROVE Charged /\ \E o : HeadDoes(o, b, u)
    <3> HIDE DEF m
    <3> QED BY <1>1, <1>2, <1>3, <1>4, <1>6, <2>1, <2>2, <2>4, <2>5, SpendDoes
  <2>6. ASSUME ~ me.settled, Close(m), Unspent PROVE Charged /\ \E o : HeadDoes(o, b, u)
    <3> HIDE DEF m
    <3>1. \E o : HeadDoes(o, m.budget + m.consumed, m.consumed + m.messages)
      BY <1>1, <1>2, <2>1, <2>4, <2>6, CloseDoes
    <3> QED BY <1>9, <2>2, <2>4, <2>6, <3>1
  <2>7. \/ me.settled /\ queue' = Tail(queue) /\ UNCHANGED <<meter, rpc, spent, incurred>>
        \/ ~ me.settled /\ (spendBudget(m) \/ (Close(m) /\ Unspent))
    BY <1>11 DEF settle
  <2> QED BY <2>1, <2>3, <2>5, <2>6, <2>7
<1>12. ASSUME LeaseReply
       PROVE  HeadOnly /\ Charged /\ rpc # NoCall /\ rpc.reply # Unserved /\ \E o : HeadDoes(o, b, u)
  <2>1. rpc # NoCall /\ rpc.reply # Unserved /\ rpc.kind \in {"lease", "relet"} /\ HeadOnly
    BY <1>12 DEF LeaseReply, Answered
  <2>2. task.kind \in {"spend", "flush", "settle"}
    BY <1>1, <1>3, <2>1 DEF Calling, Task
  <2> DEFINE m == [me EXCEPT !.budget = @ + rpc.reply.grant]
  <2>3. /\ m \in Meter /\ m.settled = me.settled /\ m.flushQueued = me.flushQueued
        /\ m.messages = me.messages /\ m.consumed = me.consumed
        /\ m.budget = me.budget + rpc.reply.grant
    <3> DEFINE x == me.budget + rpc.reply.grant
    <3>1. x \in Nat /\ m = [me EXCEPT !.budget = x]
      BY <1>3, <1>7, <2>1
    <3> HIDE DEF x, m
    <3> QED BY <1>3, <3>1 DEF Meter, x
  <2>4. b = m.budget + m.consumed
    BY <1>3, <1>7, <2>1, <2>3
  <2>5. \/ spendBudget(m)
        \/ Finish(me, FALSE) /\ Unspent
    BY <1>12 DEF LeaseReply
  <2>6. ASSUME spendBudget(m) PROVE Charged /\ \E o : HeadDoes(o, b, u)
    <3> HIDE DEF m
    <3> QED BY <1>1, <1>2, <1>3, <1>4, <1>6, <1>7, <2>1, <2>2, <2>3, <2>4, <2>6, SpendDoes
  <2>7. ASSUME Finish(me, FALSE), Unspent PROVE Charged /\ \E o : HeadDoes(o, b, u)
    <3>1. \E o : HeadDoes(o, me.budget + me.consumed, me.consumed + me.messages - 0)
      BY <1>1, <1>2, <1>3, <1>4, <1>7, <2>1, <2>7, FinishDoes
    <3>2. me.consumed + me.messages - 0 = u /\ me.budget + me.consumed <= b
      BY <1>3, <1>7, <1>9, <2>1, <2>7
    <3>3. b \in Nat /\ me.budget + me.consumed \in Nat
      BY <1>3, <1>7, <2>1
    <3> HIDE DEF b, u
    <3> QED BY <1>9, <2>7, <3>1, <3>2, <3>3, LooserBound
  <2> QED BY <2>1, <2>5, <2>6, <2>7
<1>13. ASSUME NotOpen
       PROVE  HeadOnly /\ Charged /\ rpc # NoCall /\ rpc.reply # Unserved /\ \E o : HeadDoes(o, b, u)
  <2>1. rpc # NoCall /\ rpc.reply # Unserved /\ rpc.kind = "lease" /\ HeadOnly /\ Unspent
    BY <1>13 DEF NotOpen, Answered
  <2>2. task.kind # "register" /\ (task.kind = "settle" => ~ me.settled)
    BY <1>1, <1>3, <1>7, <2>1 DEF Calling, Task
  <2> DEFINE m == [me EXCEPT !.budget = 0]
  <2>3. /\ m \in Meter /\ m.settled = me.settled /\ m.flushQueued = me.flushQueued
        /\ m.messages = me.messages /\ m.consumed = me.consumed /\ m.budget = 0
    BY <1>3 DEF Meter
  <2>4. b \in Nat /\ me.consumed <= b /\ u = me.consumed + me.messages
    BY <1>3, <1>7, <1>9, <2>1
  <2>5. ASSUME ownsMetering(task.sock), meter' = [meter EXCEPT ![task.sock] = m],
               rpc' = CallOf("reauthorize", task.sock, 0, 0), queue' = queue
        PROVE  HeadDoes(m, b, u)
    <3>1. ~ me.settled
      BY <2>5 DEF ownsMetering, me
    <3>2. /\ rpc' \in Call /\ rpc' # NoCall /\ rpc'.reply = Unserved /\ rpc'.sock = task.sock
          /\ rpc'.kind = "reauthorize" /\ rpc'.commit = 0
          /\ Pending(rpc', task.sock) = 0 /\ Reporting(rpc') = 0
      <4> HIDE DEF m, b, u
      <4>1. PICK z \in Nat : z = 0
        OBVIOUS
      <4>2. rpc' = CallOf("reauthorize", task.sock, z, z) /\ task.sock \in Sock
        BY <1>3, <2>5, <4>1
      <4>3. /\ rpc' \in Call /\ rpc' # NoCall /\ rpc'.reply = Unserved /\ rpc'.sock = task.sock
            /\ rpc'.kind = "reauthorize" /\ rpc'.commit = z
            /\ Pending(rpc', task.sock) = z /\ Reporting(rpc') = z
        BY ONLY <4>1, <4>2, NewCall
      <4> QED BY <4>1, <4>3
    <3> HIDE DEF m, b, u
    <3> QED BY <1>3, <2>2, <2>3, <2>4, <2>5, <3>1, <3>2 DEF HeadDoes
  <2>6. ASSUME Finish(m, FALSE) PROVE \E o : HeadDoes(o, b, u)
    <3> HIDE DEF m
    <3>1. \E o : HeadDoes(o, m.budget + m.consumed, m.consumed + m.messages - 0)
      BY <1>1, <1>2, <1>3, <1>4, <2>2, <2>3, <2>6, FinishDoes
    <3>2. m.consumed + m.messages - 0 = u /\ m.budget + m.consumed <= b
          /\ m.budget + m.consumed \in Nat
      BY <1>3, <2>3, <2>4
    <3> HIDE DEF b, u
    <3> QED BY <2>4, <3>1, <3>2, LooserBound
  <2>7. \/ /\ ownsMetering(task.sock) /\ meter' = [meter EXCEPT ![task.sock] = m]
           /\ rpc' = CallOf("reauthorize", task.sock, 0, 0) /\ queue' = queue
        \/ Finish(m, FALSE)
    BY <1>13 DEF NotOpen
  <2> QED BY <1>9, <2>1, <2>5, <2>6, <2>7
<1>14. ASSUME Reauthorized
       PROVE  HeadOnly /\ Charged /\ rpc # NoCall /\ rpc.reply # Unserved /\ \E o : HeadDoes(o, b, u)
  <2>1. rpc # NoCall /\ rpc.reply # Unserved /\ rpc.kind = "reauthorize" /\ HeadOnly /\ Unspent
    BY <1>14 DEF Reauthorized, Answered
  <2>2. task.kind # "register" /\ (task.kind = "settle" => ~ me.settled)
    BY <1>1, <1>3, <1>7, <2>1 DEF Calling, Task
  <2>3. /\ b \in Nat /\ me.budget + me.consumed <= b /\ u = me.consumed + me.messages
        /\ me.budget + me.consumed \in Nat
    BY <1>3, <1>7, <1>9, <2>1
  <2>4. ASSUME ownsMetering(task.sock), rpc' = CallOf("relet", task.sock, want, 0),
               UNCHANGED <<meter, queue>>
        PROVE  HeadDoes(me, b, u)
    <3>1. ~ me.settled
      BY <2>4 DEF ownsMetering, me
    <3>2. want \in Nat
      BY <1>1, <1>3, LedgerAssumption DEF want, cost, ConfigType
    <3>3. /\ rpc' \in Call /\ rpc' # NoCall /\ rpc'.reply = Unserved /\ rpc'.sock = task.sock
          /\ rpc'.kind = "relet" /\ Pending(rpc', task.sock) = 0 /\ Reporting(rpc') = 0
      <4> HIDE DEF b, u
      <4>1. PICK z \in Nat : z = 0
        OBVIOUS
      <4>2. rpc' = CallOf("relet", task.sock, want, z) /\ task.sock \in Sock
        BY <1>3, <2>4, <4>1
      <4>3. /\ rpc' \in Call /\ rpc' # NoCall /\ rpc'.reply = Unserved /\ rpc'.sock = task.sock
            /\ rpc'.kind = "relet" /\ Pending(rpc', task.sock) = z /\ Reporting(rpc') = z
        BY <3>2, <4>2, NewCall
      <4> QED BY <4>1, <4>3
    <3>4. me.budget + me.consumed + Pending(rpc', task.sock) <= b
          /\ me.consumed + me.messages + Reporting(rpc') <= u
      BY <1>3, <2>3, <3>3
    <3>5. ~ Asks(rpc')
      BY <3>3 DEF Asks
    <3> HIDE DEF b, u
    <3> QED BY <1>1, <1>2, <2>2, <2>4, <3>1, <3>3, <3>4, <3>5, SameDoes
  <2>5. ASSUME Finish(me, FALSE) PROVE \E o : HeadDoes(o, b, u)
    <3>1. \E o : HeadDoes(o, me.budget + me.consumed, me.consumed + me.messages - 0)
      BY <1>1, <1>2, <1>3, <1>4, <2>2, <2>5, FinishDoes
    <3>2. me.consumed + me.messages - 0 = u
      BY <1>3, <2>3
    <3> HIDE DEF b, u
    <3> QED BY <2>3, <3>1, <3>2, LooserBound
  <2> QED BY <1>9, <1>14, <2>1, <2>4, <2>5 DEF Reauthorized
<1>15. ASSUME CloseReply
       PROVE  HeadOnly /\ Charged /\ rpc # NoCall /\ rpc.reply # Unserved /\ \E o : HeadDoes(o, b, u)
  <2>1. /\ rpc # NoCall /\ rpc.reply # Unserved /\ rpc.kind = "close" /\ HeadOnly /\ Unspent
        /\ queue' = Tail(queue) /\ rpc' = NoCall /\ meter' = meter
    BY <1>15 DEF CloseReply, Answered
  <2>2. task.kind # "register"
    BY <1>1, <1>3, <2>1 DEF Calling, Task
  <2>4. Pending(rpc, task.sock) = 0 /\ Pending(rpc', task.sock) = 0 /\ Reporting(rpc') = 0
    BY <2>1 DEF Pending, Reporting
  <2>5. b = me.budget + me.consumed /\ u = me.consumed + me.messages
    BY <1>3, <1>9, <2>1, <2>4
  <2>6. HeadDoes(me, b, u)
    <3>1. me.budget + me.consumed + Pending(rpc', task.sock) <= b
          /\ me.consumed + me.messages + Reporting(rpc') <= u
      BY <1>3, <2>4, <2>5
    <3> HIDE DEF b, u
    <3> QED BY <1>1, <1>2, <2>1, <2>2, <3>1, SameDoes
  <2> QED BY <1>9, <2>1, <2>6
<1> QED BY <1>2, <1>10, <1>11, <1>12, <1>13, <1>14, <1>15 DEF HeadStep

(* The parts of the invariant that only read the ledger.                   *)
LEMMA LedgerParts ==
  ASSUME Inv, ledger' = ledger
  PROVE  ledger'.config \in Configs /\ Owned(ledger')
BY DEF Inv

(* A step of the head leaves behind it tasks that were there, or a batch.  *)
LEMMA HeadQueue ==
  ASSUME Inv, queue # << >>, NEW o, NEW b, NEW u, HeadDoes(o, b, u)
  PROVE  /\ queue' \in Seq(Task) /\ Single(queue')
         /\ \A i \in 1..Len(queue') :
              \/ /\ \E j \in 1..Len(queue) : queue'[i] = queue[j]
                 /\ queue'[i].kind = "flush" /\ queue'[i].sock = task.sock =>
                      o.flushQueued = me.flushQueued /\ (o.settled \/ o.messages >= me.messages)
              \/ /\ queue'[i].kind = "flush" /\ queue'[i].sock = task.sock /\ o.flushQueued
                 /\ queue'[i].n <= o.messages
<1>1. queue \in Seq(Task) /\ Single(queue) /\ task.kind # "register"
  BY DEF Inv, TypeOK, Queued, HeadDoes
<1>2. /\ task = queue[1] /\ 1 \in 1..Len(queue) /\ task \in Task /\ Tail(queue) \in Seq(Task)
      /\ \A i \in 1..Len(Tail(queue)) : i + 1 \in 1..Len(queue) /\ Tail(queue)[i] = queue[i + 1]
      /\ Single(Tail(queue))
      /\ \A i \in 1..Len(Tail(queue)) :
           Tail(queue)[i].sock = task.sock /\ Tail(queue)[i].kind = task.kind
             => task.kind \notin {"register", "flush"}
  BY <1>1, TailOf DEF task
<1>3. ASSUME queue' = queue, o.flushQueued = me.flushQueued, o.settled \/ o.messages >= me.messages
      PROVE  /\ queue' \in Seq(Task) /\ Single(queue')
             /\ \A i \in 1..Len(queue') : \E j \in 1..Len(queue) : queue'[i] = queue[j]
  BY <1>1, <1>3
<1>4. ASSUME queue' = Tail(queue)
      PROVE  /\ queue' \in Seq(Task) /\ Single(queue')
             /\ \A i \in 1..Len(queue') : \E j \in 1..Len(queue) : queue'[i] = queue[j]
  BY <1>2, <1>4
<1>5. ASSUME queue' = Tail(queue),
             task.kind = "flush" \/ (o.flushQueued = me.flushQueued /\ o.messages >= me.messages),
             NEW i \in 1..Len(queue'), queue'[i].kind = "flush", queue'[i].sock = task.sock
      PROVE  o.flushQueued = me.flushQueued /\ o.messages >= me.messages
  BY <1>2, <1>5
<1>6. ASSUME task.kind = "flush", o.flushQueued, NEW n \in Nat, n <= o.messages,
             queue' = Append(Tail(queue), TaskOf("flush", task.sock, n))
      PROVE  /\ queue' \in Seq(Task) /\ Single(queue')
             /\ \A i \in 1..Len(queue') :
                  \/ /\ \E j \in 1..Len(queue) : queue'[i] = queue[j]
                     /\ ~ (queue'[i].kind = "flush" /\ queue'[i].sock = task.sock)
                  \/ /\ queue'[i].kind = "flush" /\ queue'[i].sock = task.sock /\ o.flushQueued
                     /\ queue'[i].n <= o.messages
  <2> DEFINE q == Tail(queue)
             t == TaskOf("flush", task.sock, n)
  <2>1. t \in Task /\ t.kind = "flush" /\ t.sock = task.sock /\ t.n = n
    BY <1>2 DEF TaskOf, Task
  <2>2. \A i \in 1..Len(q) : ~ (q[i].kind = "flush" /\ q[i].sock = task.sock)
    BY <1>2, <1>6
  <2>3. q \in Seq(Task) /\ Single(q) /\ queue' = Append(q, t)
        /\ \A i \in 1..Len(q) : \E j \in 1..Len(queue) : q[i] = queue[j]
    BY <1>2, <1>6
  <2> HIDE DEF q, t
  <2>4. /\ Append(q, t) \in Seq(Task)
        /\ \A i \in 1..Len(Append(q, t)) :
              \/ i \in 1..Len(q) /\ Append(q, t)[i] = q[i]
              \/ i = Len(q) + 1 /\ Append(q, t)[i] = t
        /\ Single(Append(q, t))
    BY <2>1, <2>2, <2>3, AppendOf
  <2> QED BY <1>6, <2>1, <2>2, <2>3, <2>4, ZenonT(30)
<1>7. \/ queue' = queue /\ o.flushQueued = me.flushQueued /\ (o.settled \/ o.messages >= me.messages)
      \/ /\ queue' = Tail(queue)
         /\ task.kind = "flush" \/ (o.flushQueued = me.flushQueued /\ o.messages >= me.messages)
      \/ /\ task.kind = "flush" /\ o.flushQueued
         /\ \E n \in Nat : /\ n <= o.messages
                           /\ queue' = Append(Tail(queue), TaskOf("flush", task.sock, n))
  BY DEF HeadDoes
<1>8. CASE queue' = queue /\ o.flushQueued = me.flushQueued /\ (o.settled \/ o.messages >= me.messages)
  BY <1>3, <1>8
<1>9. CASE /\ queue' = Tail(queue)
           /\ task.kind = "flush" \/ (o.flushQueued = me.flushQueued /\ o.messages >= me.messages)
  <2>1. \A i \in 1..Len(queue') : \E j \in 1..Len(queue) : queue'[i] = queue[j]
    BY <1>4, <1>9
  <2>2. \A i \in 1..Len(queue') :
          queue'[i].kind = "flush" /\ queue'[i].sock = task.sock =>
            o.flushQueued = me.flushQueued /\ o.messages >= me.messages
    BY <1>5, <1>9
  <2> QED BY <1>4, <1>9, <2>1, <2>2
<1>10. CASE /\ task.kind = "flush" /\ o.flushQueued
            /\ \E n \in Nat : /\ n <= o.messages
                              /\ queue' = Append(Tail(queue), TaskOf("flush", task.sock, n))
  <2>1. PICK n \in Nat : /\ n <= o.messages
                         /\ queue' = Append(Tail(queue), TaskOf("flush", task.sock, n))
    BY <1>10
  <2> QED BY <1>6, <1>10, <2>1
<1> QED BY <1>7, <1>8, <1>9, <1>10

(* A step of the head keeps the invariant.                                 *)
LEMMA HeadKeeps ==
  ASSUME Inv, HeadStep
  PROVE  Inv'
<1>1. /\ queue # << >> /\ HeadOnly /\ Charged /\ (rpc = NoCall \/ rpc.reply # Unserved)
      /\ \E o : HeadDoes(o, me.budget + me.consumed + Pending(rpc, task.sock),
                            Unreported(task.sock) + (incurred' - incurred))
  BY HeadSteps
<1>0. PICK s, b, u : /\ s = task.sock /\ b = me.budget + me.consumed + Pending(rpc, s)
                     /\ u = Unreported(s) + (incurred' - incurred)
  OBVIOUS
<1>2. PICK o : HeadDoes(o, b, u)
  BY <1>0, <1>1
<1>3. /\ TypeOK /\ OneServes /\ OneReports /\ Queued /\ Calling /\ Lapsing /\ Backed /\ NeverOverbilled
  BY DEF Inv
<1>4. /\ task \in Task /\ s \in Sock /\ me \in Meter /\ me = meter[s]
      /\ me.budget \in Nat /\ me.consumed \in Nat /\ me.messages \in Nat
  BY <1>0, <1>1, <1>3, HeadType DEF me
<1>5. task.kind # "register" /\ TaskOK(task)
  BY <1>1, <1>2, <1>3, TailOf DEF HeadDoes, Queued, TypeOK, task
<1>6. /\ o \in Meter /\ o.budget \in Nat /\ o.consumed \in Nat /\ o.messages \in Nat
      /\ meter' = [meter EXCEPT ![s] = o]
      /\ meter \in [Sock -> Meter] /\ meter'[s] = o
      /\ \A r \in Sock : r # s => meter'[r] = meter[r]
  BY <1>0, <1>2, <1>3, <1>4 DEF HeadDoes, Meter, TypeOK
<1>7. conn' = conn /\ metering' = metering /\ ledger' = ledger /\ late' = late /\ void' = void
      /\ now' = now /\ up' = up
  BY <1>1 DEF HeadOnly
<1>8. /\ conn[s] \notin {"none", "accepted"}
      /\ me.settled \/ metering = s
  BY <1>0, <1>4, <1>5 DEF TaskOK
<1>9. /\ me.settled => o.settled /\ o.consumed = me.consumed /\ o.messages = me.messages
      /\ o.settled /\ ~ me.settled => task.kind = "settle" /\ o.consumed = 0 /\ o.messages = 0
      /\ rpc' = NoCall \/ (/\ rpc' \in Call /\ rpc' # NoCall /\ rpc'.reply = Unserved
                           /\ rpc'.sock = s /\ queue' = queue
                           /\ rpc'.kind # "authorize" /\ (Asks(rpc') => rpc'.commit = 0)
                           /\ (task.kind = "settle" /\ o.settled => rpc'.kind = "close"))
      /\ o.budget + o.consumed + Pending(rpc', s) <= b
      /\ o.consumed + o.messages + Reporting(rpc') <= u
  BY <1>0, <1>2 DEF HeadDoes
<1>10. /\ queue' \in Seq(Task) /\ Single(queue')
       /\ \A i \in 1..Len(queue') :
              \/ /\ \E j \in 1..Len(queue) : queue'[i] = queue[j]
                 /\ queue'[i].kind = "flush" /\ queue'[i].sock = task.sock =>
                      o.flushQueued = me.flushQueued /\ (o.settled \/ o.messages >= me.messages)
              \/ /\ queue'[i].kind = "flush" /\ queue'[i].sock = task.sock /\ o.flushQueued
                 /\ queue'[i].n <= o.messages
  BY <1>1, <1>2, HeadQueue
<1>11. /\ Unreported(s)' = o.consumed + o.messages
       /\ \A r \in Sock : r # s => Unreported(r)' = Unreported(r)
       /\ \A r \in Sock : Unreported(r) \in Nat /\ Unreported(r)' \in Nat
  BY <1>4, <1>6 DEF Unreported, Meter
<1>12. TypeOK'
  <2>1. meter' \in [Sock -> Meter]
    BY <1>0, <1>4, <1>6
  <2>2. rpc' \in Call \cup {NoCall}
    BY <1>0, <1>9
  <2> QED BY <1>0, <1>1, <1>3, <1>7, <1>10, <2>1, <2>2 DEF TypeOK, Charged
<1>13. OneServes'
  BY <1>0, <1>3, <1>6, <1>7, <1>8 DEF OneServes
<1>14. OneReports'
  <2>1. metering # None
    BY <1>0, <1>3, <1>4, <1>6, <1>8, MeteringAssumption DEF OneReports, newMetering
  <2>2. ASSUME NEW r \in Sock, r # metering PROVE Unreported(r)' = 0
    BY <1>0, <1>3, <1>4, <1>6, <1>8, <1>9, <1>11, <2>2 DEF OneReports, Unreported
  <2>3. ASSUME NEW r \in Sock, meter'[r].settled
        PROVE  conn[r] \in {"superseded", "closed"} /\ Unreported(r)' = 0
    <3>1. CASE r # s
      BY <1>0, <1>3, <1>6, <1>11, <2>3, <3>1 DEF OneReports
    <3>2. CASE r = s /\ me.settled
      BY <1>0, <1>3, <1>4, <1>6, <1>9, <1>11, <2>3, <3>2 DEF OneReports, Unreported
    <3>3. CASE r = s /\ ~ me.settled
      BY <1>0, <1>4, <1>5, <1>6, <1>9, <1>11, <2>3, <3>3 DEF TaskOK
    <3> QED BY <3>1, <3>2, <3>3
  <2> QED BY <1>0, <1>7, <2>1, <2>2, <2>3 DEF OneReports
<1>15. Queued'
  <2> SUFFICES ASSUME NEW i \in 1..Len(queue'), NEW t, t = queue'[i] PROVE TaskOK(t)'
    BY <1>0, <1>10 DEF Queued, Single
  <2>1. t \in Task /\ t.sock \in Sock
    <3>1. queue' \in Seq(Task)
      BY <1>10
    <3>2. t \in Task
      BY <3>1
    <3> QED BY <3>2 DEF Task
  <2>2. CASE /\ \E j \in 1..Len(queue) : t = queue[j]
             /\ t.kind = "flush" /\ t.sock = s =>
                  o.flushQueued = me.flushQueued /\ (o.settled \/ o.messages >= me.messages)
    <3>1. TaskOK(t) /\ t.n \in Nat
      BY <1>0, <1>3, <2>1, <2>2 DEF Queued, Task
    <3>2. CASE t.sock # s
      BY <1>0, <1>6, <1>7, <2>1, <3>1, <3>2 DEF TaskOK
    <3>3. CASE t.sock = s
      <4>1. o.settled \/ metering = s
        BY <1>0, <1>8, <1>9
      <4>2. ASSUME t.kind = "flush"
            PROVE  o.flushQueued /\ (o.settled \/ t.n <= o.messages)
        <5>1. o.flushQueued = me.flushQueued /\ (o.settled \/ o.messages >= me.messages)
          BY <2>2, <3>3, <4>2
        <5>2. me.flushQueued /\ (me.settled \/ t.n <= me.messages)
          BY <1>4, <3>1, <3>3, <4>2 DEF TaskOK
        <5>3. me.settled => o.settled
          BY <1>9
        <5>4. o.settled \/ t.n <= o.messages
          BY <1>4, <1>6, <3>1, <5>1, <5>2, <5>3
        <5> QED BY <5>1, <5>2, <5>4
      <4> QED BY <1>0, <1>6, <1>7, <3>1, <3>3, <4>1, <4>2 DEF TaskOK
    <3> QED BY <3>2, <3>3
  <2>3. CASE /\ t.kind = "flush" /\ t.sock = s /\ o.flushQueued
             /\ t.n <= o.messages
    <3>1. o.settled \/ metering = s
      BY <1>0, <1>8, <1>9
    <3> QED BY <1>0, <1>6, <1>7, <1>8, <2>3, <3>1 DEF TaskOK
  <2> QED BY <1>0, <1>10, <2>2, <2>3
<1>16. Calling'
  BY <1>0, <1>1, <1>5, <1>6, <1>9 DEF Calling, task, me, Asks
<1>17. Lapsing'
  <2> SUFFICES ASSUME late # NoCall PROVE Lapsing'
    BY <1>0, <1>7 DEF Lapsing
  <2>1. late \in Call /\ late.sock \in Sock
    BY <1>0, <1>3 DEF TypeOK, Call
  <2>2. CASE late.kind # "authorize"
    BY <1>0, <1>3, <1>7, <2>2 DEF Lapsing
  <2>3. CASE late.kind = "authorize"
    <3>1. /\ meter[late.sock] = newMetering /\ metering # late.sock
          /\ conn[late.sock] \in {"accepted", "closed"}
          /\ conn[late.sock] = "accepted" => rpc # NoCall /\ rpc.sock = late.sock
          /\ \A i \in 1..Len(queue) : queue[i].sock = late.sock => queue[i].kind = "register"
          /\ late.reply = Unserved /\ (Asks(late) => late.commit = 0)
      BY <1>0, <1>3, <2>3 DEF Lapsing
    <3>2. late.sock # s
      BY <1>0, <1>1, <1>3, <1>5, <3>1, TailOf DEF TypeOK, task
    <3>3. conn[late.sock] # "accepted"
      BY <1>0, <1>1, <1>3, <3>1, <3>2 DEF Calling
    <3>4. \A i \in 1..Len(queue') : queue'[i].sock = late.sock => queue'[i].kind = "register"
      BY <1>0, <1>10, <3>1, <3>2
    <3> QED BY <1>0, <1>6, <1>7, <2>1, <2>3, <3>1, <3>2, <3>3, <3>4 DEF Lapsing
  <2> QED BY <2>2, <2>3
<1>18. HandedOver'
  BY <1>0, <1>9 DEF HandedOver
<1>19. Backed'
  <2> SUFFICES ASSUME Id \in ledger.open, NEW r, r = ledger.entry[Id].regId
               PROVE  Claims(r)' <= ledger.entry[Id].lease + void[r]
    BY <1>0, <1>7 DEF Backed
  <2>1. r \in Sock /\ Claims(r) <= ledger.entry[Id].lease + void[r]
    BY <1>0, <1>3 DEF Backed, Inv, Owned
  <2>2. /\ ledger.entry[Id].lease \in Nat /\ void[r] \in Nat
    BY <1>0, <1>3, <2>1, MeteringAssumption DEF TypeOK, LedgerType, Entry
  <2>3. \A c \in Call \cup {NoCall} : \A q \in Sock : Pending(c, q) \in Nat
    BY DEF Pending, Reporting, Granting, Call, Reply
  <2>4. /\ Pending(rpc, r) \in Nat /\ Pending(rpc', r) \in Nat /\ Pending(late, r) \in Nat
    BY <1>0, <1>3, <1>12, <2>1, <2>3 DEF TypeOK
  <2>5. CASE r = s
    BY <1>0, <1>4, <1>6, <1>7, <1>9, <2>1, <2>2, <2>4, <2>5 DEF Claims
  <2>6. CASE r # s
    <3>1. Pending(rpc', r) = 0
      BY <1>0, <1>9, <2>6 DEF Pending
    <3>2. /\ meter'[r] = meter[r] /\ meter[r].budget \in Nat /\ meter[r].consumed \in Nat
      BY <1>0, <1>6, <2>1, <2>6 DEF Meter
    <3> QED BY <1>0, <1>7, <2>1, <2>2, <2>4, <3>1, <3>2 DEF Claims
  <2> QED BY <2>5, <2>6
<1>20. NeverOverbilled'
  <2>1. \A c \in Call \cup {NoCall} : Reporting(c) \in Nat
    BY DEF Reporting, Call
  <2>2. /\ Reporting(rpc) = 0 /\ Reporting(rpc') \in Nat /\ Reporting(late) \in Nat
        /\ ledger.dayUsed \in Nat /\ incurred \in Nat /\ incurred' \in Nat /\ incurred <= incurred'
    BY <1>0, <1>1, <1>3, <1>12, <2>1 DEF TypeOK, Reporting, LedgerType, Charged
  <2>3. ledger.dayUsed + Reporting(late) + Unreported(s) <= incurred
    BY <1>0, <1>3, <1>4, <1>11, <2>2 DEF NeverOverbilled
  <2>4. Unreported(s)' + Reporting(rpc') <= Unreported(s) + (incurred' - incurred)
    BY <1>0, <1>6, <1>9, <1>11, <2>2 
  <2>5. \A p, q \in Sock : Unreported(p)' > 0 /\ Unreported(q)' > 0 => p = q
    BY <1>0, <1>11, <1>14 DEF OneReports
  <2>6. ASSUME NEW p \in Sock
        PROVE  ledger.dayUsed + Reporting(rpc') + Reporting(late) + Unreported(p)' <= incurred'
    <3>1. CASE p = s
      BY <1>0, <1>4, <1>11, <2>2, <2>3, <2>4, <3>1
    <3>2. CASE Unreported(p)' = 0
      BY <1>0, <1>4, <1>11, <2>2, <2>3, <2>4, <3>2
    <3>3. CASE p # s /\ Unreported(p)' # 0
      <4>1. Unreported(p) = Unreported(p)' /\ p = metering
        BY <1>0, <1>3, <1>11, <3>3 DEF OneReports
      <4>2. me.settled
        BY <1>0, <1>8, <3>3, <4>1
      <4>3. Unreported(s) = 0 /\ o.consumed = 0 /\ o.messages = 0
        BY <1>0, <1>3, <1>4, <1>6, <1>9, <4>2 DEF OneReports, Unreported
      <4>4. Reporting(rpc') <= incurred' - incurred
        BY <1>0, <1>9, <1>6, <2>2, <4>3 
      <4>5. ledger.dayUsed + Reporting(late) + Unreported(p) <= incurred
        BY <1>0, <1>3, <1>11, <2>2 DEF NeverOverbilled
      <4> QED BY <1>0, <1>11, <2>2, <4>1, <4>4, <4>5
    <3> QED BY <3>1, <3>2, <3>3
  <2> QED BY <1>0, <1>7, <2>5, <2>6 DEF NeverOverbilled
<1> QED BY <1>0, <1>7, <1>12, <1>13, <1>14, <1>15, <1>16, <1>17, <1>18, <1>19, <1>20, LedgerParts DEF Inv

--------------------------------------------------------------------------
(* The steps that leave the ledger and the metering states alone.          *)

(* What a call pends and reports is a number of credits.                   *)
LEMMA PendingNat ==
  ASSUME NEW c \in Call \cup {NoCall}, NEW s
  PROVE  Pending(c, s) \in Nat /\ Reporting(c) \in Nat
BY DEF Pending, Reporting, Granting, Call, Reply

(* The values an inequality about a registration speaks of are numbers.    *)
LEMMA CountsNat ==
  ASSUME TypeOK, NEW s \in Sock
  PROVE  /\ meter[s] \in Meter /\ meter[s].budget \in Nat /\ meter[s].consumed \in Nat
         /\ meter[s].messages \in Nat /\ Unreported(s) \in Nat /\ void[s] \in Nat
         /\ Pending(rpc, s) \in Nat /\ Pending(late, s) \in Nat
         /\ Reporting(rpc) \in Nat /\ Reporting(late) \in Nat
         /\ ledger.entry[Id].lease \in Nat /\ ledger.dayUsed \in Nat /\ incurred \in Nat
<1>1. meter[s] \in Meter /\ void[s] \in Nat /\ incurred \in Nat
      /\ rpc \in Call \cup {NoCall} /\ late \in Call \cup {NoCall}
  BY DEF TypeOK
<1>2. meter[s].budget \in Nat /\ meter[s].consumed \in Nat /\ meter[s].messages \in Nat
  BY <1>1 DEF Meter
<1>3. Unreported(s) \in Nat
  BY <1>2 DEF Unreported
<1>4. ledger.entry[Id].lease \in Nat /\ ledger.dayUsed \in Nat
  BY MeteringAssumption DEF TypeOK, LedgerType, Entry
<1> QED BY <1>1, <1>2, <1>3, <1>4, PendingNat

(* If neither the ledger nor a metering state changes, it is enough that    *)
(* the calls claim and report no more.                                     *)
LEMMA QuietKeeps ==
  ASSUME Inv, UNCHANGED <<ledger, metering, meter, spent, incurred, void>>,
         TypeOK', OneServes', Queued', Calling', Lapsing', HandedOver',
         \A s \in Sock : meter[s].settled => conn'[s] \in {"superseded", "closed"},
         \A s \in Sock : Pending(rpc, s)' + Pending(late, s)' <= Pending(rpc, s) + Pending(late, s),
         Reporting(rpc)' + Reporting(late)' <= Reporting(rpc) + Reporting(late)
  PROVE  Inv'
<1>1. TypeOK /\ OneReports /\ Backed /\ NeverOverbilled /\ Owned(ledger) /\ ledger.config \in Configs
  BY DEF Inv
<1>2. \A s \in Sock : Unreported(s)' = Unreported(s)
  BY DEF Unreported
<1>3. OneReports'
  BY <1>1, <1>2 DEF OneReports
<1>4. Backed'
  <2> SUFFICES ASSUME Id \in ledger.open, NEW s, s = ledger.entry[Id].regId
               PROVE  Claims(s)' <= ledger.entry[Id].lease + void[s]
    BY DEF Backed
  <2>1. s \in Sock /\ Claims(s) <= ledger.entry[Id].lease + void[s]
    BY <1>1 DEF Backed, Owned
  <2>2. /\ meter[s].budget \in Nat /\ meter[s].consumed \in Nat /\ void[s] \in Nat
        /\ Pending(rpc, s) \in Nat /\ Pending(late, s) \in Nat /\ ledger.entry[Id].lease \in Nat
    BY <1>1, <2>1, CountsNat
  <2>3. Pending(rpc, s)' \in Nat /\ Pending(late, s)' \in Nat
    BY <2>1, PendingNat DEF TypeOK
  <2>4. Pending(rpc, s)' + Pending(late, s)' <= Pending(rpc, s) + Pending(late, s)
    BY <2>1
  <2>5. Claims(s)' = meter[s].budget + meter[s].consumed + Pending(rpc, s)' + Pending(late, s)'
    BY DEF Claims
  <2> QED BY <2>1, <2>2, <2>3, <2>4, <2>5 DEF Claims
<1>5. NeverOverbilled'
  <2>1. ASSUME NEW s \in Sock
        PROVE  ledger.dayUsed + Reporting(rpc)' + Reporting(late)' + Unreported(s) <= incurred
    <3>1. /\ Reporting(rpc)' \in Nat /\ Reporting(late)' \in Nat
      BY PendingNat DEF TypeOK
    <3>2. ledger.dayUsed + Reporting(rpc) + Reporting(late) + Unreported(s) <= incurred
      BY <1>1, <2>1 DEF NeverOverbilled
    <3> QED BY <1>1, <2>1, <3>1, <3>2, CountsNat
  <2> QED BY <1>1, <1>2, <2>1 DEF NeverOverbilled
<1> QED BY <1>1, <1>3, <1>4, <1>5 DEF Inv

(* A day or a lost connection passes without a trace in the books.         *)
LEMMA TickKeeps ==
  ASSUME Inv, Tick \/ (\E s \in Sock : Drop(s))
  PROVE  Inv'
<1>1. UNCHANGED <<ledger, conn, metering, meter, queue, rpc, late, spent, incurred, void>>
      /\ now' \in Nat /\ up' \subseteq Sock
  BY DEF Tick, Drop, Inv, TypeOK
<1>2. TypeOK'
  BY <1>1 DEF Inv, TypeOK
<1>3. OneServes' /\ Queued' /\ Calling' /\ Lapsing' /\ HandedOver'
  BY <1>1 DEF Inv, OneServes, Queued, Calling, Lapsing, HandedOver, TaskOK, task, me
<1>4. OneReports' /\ Backed' /\ NeverOverbilled' /\ ledger'.config \in Configs /\ Owned(ledger')
  BY <1>1 DEF Inv, OneReports, Backed, NeverOverbilled, Unreported, Claims
<1> QED BY <1>2, <1>3, <1>4 DEF Inv

(* A call that times out is lost, or goes on as the late one.              *)
LEMMA TimeoutKeeps ==
  ASSUME Inv, Timeout
  PROVE  Inv'
<1>1. /\ TypeOK /\ OneServes /\ OneReports /\ Queued /\ Calling /\ Lapsing
  BY DEF Inv
<1>2. /\ rpc # NoCall /\ rpc.reply # Refused /\ rpc' = [rpc EXCEPT !.reply = Refused]
      /\ late' = late \/ (rpc.reply = Unserved /\ late = NoCall /\ late' = rpc)
      /\ UNCHANGED <<ledger, now, conn, up, metering, meter, queue, spent, incurred, void>>
  BY DEF Timeout
<1>3. Refused \in Reply /\ Refused.grant = 0 /\ ~ Refused.ok /\ Refused # Unserved
  <2>1. Refused \in Reply /\ Refused.grant = 0 /\ ~ Refused.ok
    BY DEF Refused, Reply
  <2> QED BY <2>1, MeteringAssumption
<1>4. rpc \in Call /\ rpc.commit \in Nat /\ rpc.sock \in Sock
  BY <1>1, <1>2 DEF TypeOK, Call
<1>5. /\ rpc' \in Call /\ rpc' # NoCall /\ rpc'.kind = rpc.kind /\ rpc'.sock = rpc.sock
      /\ rpc'.commit = rpc.commit /\ rpc'.reply = Refused
  BY <1>2, <1>3, <1>4, MeteringAssumption DEF Call
<1>6. TypeOK'
  BY <1>1, <1>2, <1>4, <1>5 DEF TypeOK
<1>7. OneServes' /\ Queued'
  BY <1>1, <1>2 DEF OneServes, Queued, TaskOK
<1>8. Calling'
  BY <1>1, <1>2, <1>5 DEF Calling, task, me, Asks
<1>9. HandedOver'
  BY <1>3, <1>5 DEF HandedOver
<1>10. Lapsing'
  <2>1. CASE late' = late
    BY <1>1, <1>2, <1>5, <2>1 DEF Lapsing
  <2>2. CASE rpc.reply = Unserved /\ late' = rpc
    <3>1. /\ queue # << >> /\ rpc.sock = task.sock
          /\ rpc.kind = "authorize" <=> task.kind = "register"
          /\ Asks(rpc) => rpc.commit = 0
      BY <1>1, <1>2 DEF Calling
    <3>2. TaskOK(task)
      BY <1>1, <3>1, TailOf DEF TypeOK, Queued, task
    <3>3. CASE rpc.kind # "authorize"
      <4>1. conn[rpc.sock] \notin {"none", "accepted"}
        BY <3>1, <3>2, <3>3 DEF TaskOK
      <4> QED BY <1>2, <2>2, <3>1, <3>3, <4>1 DEF Lapsing
    <3>4. CASE rpc.kind = "authorize"
      <4>1. conn[rpc.sock] = "accepted"
        BY <3>1, <3>2, <3>4 DEF TaskOK
      <4>2. meter[rpc.sock] = newMetering /\ metering # rpc.sock
        BY <1>1, <1>4, <4>1 DEF OneServes
      <4>3. \A i \in 1..Len(queue) : queue[i].sock = rpc.sock => queue[i].kind = "register"
        BY <1>1, <4>1 DEF Queued, TaskOK
      <4>4. /\ late' # NoCall /\ late'.reply = Unserved /\ (Asks(late') => late'.commit = 0)
            /\ late'.kind = "authorize" /\ late'.sock = rpc.sock
            /\ rpc' # NoCall /\ rpc'.sock = rpc.sock /\ rpc'.reply = Refused
        BY <1>2, <1>5, <2>2, <3>1, <3>4
      <4> QED BY <1>2, <4>1, <4>2, <4>3, <4>4 DEF Lapsing
    <3> QED BY <3>3, <3>4
  <2> QED BY <1>2, <2>1, <2>2
<1>11. \A s \in Sock : Pending(rpc, s)' + Pending(late, s)' <= Pending(rpc, s) + Pending(late, s)
  <2> SUFFICES ASSUME NEW s \in Sock
               PROVE  Pending(rpc, s)' + Pending(late, s)' <= Pending(rpc, s) + Pending(late, s)
    OBVIOUS
  <2>1. Pending(rpc, s)' = 0
    BY <1>3, <1>5 DEF Pending, Reporting, Granting
  <2>2. Pending(rpc, s) \in Nat /\ Pending(late, s) \in Nat
    BY <1>1, CountsNat
  <2>3. late = NoCall => Pending(late, s) = 0
    BY DEF Pending
  <2> QED BY <1>2, <2>1, <2>2, <2>3
<1>12. Reporting(rpc)' + Reporting(late)' <= Reporting(rpc) + Reporting(late)
  <2>1. Reporting(rpc)' = 0
    BY <1>3, <1>5 DEF Reporting
  <2>2. Reporting(rpc) \in Nat /\ Reporting(late) \in Nat
    BY <1>1, PendingNat DEF TypeOK
  <2>3. late = NoCall => Reporting(late) = 0
    BY DEF Reporting
  <2> QED BY <1>2, <2>1, <2>2, <2>3
<1>13. \A s \in Sock : meter[s].settled => conn'[s] \in {"superseded", "closed"}
  BY <1>1, <1>2 DEF OneReports
<1> QED BY <1>2, <1>6, <1>7, <1>8, <1>9, <1>10, <1>11, <1>12, <1>13, QuietKeeps

(* Nothing is known of a connection before its register is answered: it     *)
(* has one task and no metering state, and no other call is of it.         *)
LEMMA ConnectKeeps ==
  ASSUME Inv, NEW s \in Sock, Connect(s)
  PROVE  Inv'
<1>1. /\ TypeOK /\ OneServes /\ OneReports /\ Queued /\ Calling /\ Lapsing /\ HandedOver
  BY DEF Inv
<1> DEFINE t == TaskOf("register", s, 0)
<1>2. /\ conn[s] = "none" /\ conn' = [conn EXCEPT ![s] = "accepted"] /\ up' = up \cup {s}
      /\ queue' = Append(queue, t)
      /\ UNCHANGED <<ledger, now, metering, meter, rpc, late, spent, incurred, void>>
  BY DEF Connect, Ordered
<1>3. t \in Task /\ t.kind = "register" /\ t.sock = s
  BY DEF TaskOf, Task
<1> HIDE DEF t
<1>4. /\ conn \in [Sock -> {"none", "accepted", "registered", "superseded", "closed"}]
      /\ conn'[s] = "accepted" /\ \A o \in Sock : o # s => conn'[o] = conn[o]
      /\ conn' \in [Sock -> {"none", "accepted", "registered", "superseded", "closed"}]
  BY <1>1, <1>2 DEF TypeOK
<1>5. \A i \in 1..Len(queue) : queue[i] \in Task /\ queue[i].sock \in Sock /\ queue[i].sock # s
  <2> SUFFICES ASSUME NEW i \in 1..Len(queue)
               PROVE  queue[i] \in Task /\ queue[i].sock \in Sock /\ queue[i].sock # s
    OBVIOUS
  <2>1. queue[i] \in Task
    BY <1>1 DEF TypeOK
  <2>2. TaskOK(queue[i])
    BY <1>1 DEF Queued
  <2> QED BY <1>2, <2>1, <2>2 DEF TaskOK, Task
<1>6. /\ queue' \in Seq(Task) /\ queue' # << >> /\ Single(queue')
      /\ \A i \in 1..Len(queue') :
           (i \in 1..Len(queue) /\ queue'[i] = queue[i]) \/ queue'[i] = t
      /\ queue # << >> => Head(queue') = Head(queue)
  <2>1. Single(queue) /\ queue \in Seq(Task)
    BY <1>1 DEF TypeOK, Queued
  <2> QED BY <1>2, <1>3, <1>5, <2>1, AppendOf
<1>7. TypeOK'
  BY <1>1, <1>2, <1>4, <1>6 DEF TypeOK
<1>8. OneServes'
  BY <1>1, <1>2, <1>4 DEF OneServes
<1>9. Queued'
  <2> SUFFICES ASSUME NEW i \in 1..Len(queue'), NEW q, q = queue'[i] PROVE TaskOK(q)'
    BY <1>6 DEF Queued, Single
  <2>1. CASE i \in 1..Len(queue) /\ q = queue[i]
    <3>1. TaskOK(q) /\ q.sock \in Sock /\ q.sock # s
      BY <1>1, <1>5, <2>1 DEF Queued
    <3> QED BY <1>2, <1>4, <3>1 DEF TaskOK
  <2>2. CASE q = t
    BY <1>3, <1>4, <2>2 DEF TaskOK
  <2> QED BY <1>6, <2>1, <2>2
<1>10. Calling'
  BY <1>1, <1>2, <1>6 DEF Calling, task, me, Asks
<1>11. Lapsing'
  <2> SUFFICES ASSUME late # NoCall PROVE Lapsing'
    BY <1>2 DEF Lapsing
  <2>1. late.sock \in Sock
    BY <1>1 DEF TypeOK, Call
  <2>2. late.sock # s
    BY <1>1, <1>2 DEF Lapsing
  <2>3. conn'[late.sock] = conn[late.sock]
    BY <1>4, <2>1, <2>2
  <2>4. ASSUME late.kind = "authorize", NEW i \in 1..Len(queue'), queue'[i].sock = late.sock
        PROVE  queue'[i].kind = "register"
    BY <1>1, <1>3, <1>6, <2>2, <2>4 DEF Lapsing
  <2> QED BY <1>1, <1>2, <2>3, <2>4 DEF Lapsing
<1>12. HandedOver'
  BY <1>1, <1>2 DEF HandedOver
<1>13. \A o \in Sock : meter[o].settled => conn'[o] \in {"superseded", "closed"}
  BY <1>1, <1>2, <1>4 DEF OneReports
<1>14. /\ \A o \in Sock : Pending(rpc, o)' + Pending(late, o)' <= Pending(rpc, o) + Pending(late, o)
       /\ Reporting(rpc)' + Reporting(late)' <= Reporting(rpc) + Reporting(late)
  <2>1. /\ \A o \in Sock : Pending(rpc, o) \in Nat /\ Pending(late, o) \in Nat
        /\ Reporting(rpc) \in Nat /\ Reporting(late) \in Nat
    BY <1>1, PendingNat DEF TypeOK
  <2>2. /\ \A o \in Sock : Pending(rpc, o)' = Pending(rpc, o) /\ Pending(late, o)' = Pending(late, o)
        /\ Reporting(rpc)' = Reporting(rpc) /\ Reporting(late)' = Reporting(late)
    BY <1>2 DEF Pending, Reporting, Granting
  <2> QED BY <2>1, <2>2
<1> QED BY <1>2, <1>7, <1>8, <1>9, <1>10, <1>11, <1>12, <1>13, <1>14, QuietKeeps

(* The register at the head calls the account, or is dropped or refused     *)
(* with its connection.                                                    *)
LEMMA RegisterKeeps ==
  ASSUME Inv, Register \/ Rejected
  PROVE  Inv'
<1>1. /\ TypeOK /\ OneServes /\ OneReports /\ Queued /\ Calling /\ Lapsing /\ HandedOver
  BY DEF Inv
<1>2. queue # << >> /\ task.kind = "register"
  BY <1>1 DEF Register, Rejected, Starts, Answered, Calling
<1>3. PICK s : s = task.sock
  OBVIOUS
<1>4. task \in Task /\ s \in Sock /\ conn[s] = "accepted"
  <2>1. TaskOK(task) /\ task \in Task
    BY <1>1, <1>2, TailOf DEF TypeOK, Queued, task
  <2> QED BY <1>2, <1>3, <2>1 DEF TaskOK, Task
<1>5. /\ UNCHANGED <<ledger, now, metering, meter, late, spent, incurred, void>>
      /\ \/ /\ rpc = NoCall /\ rpc' = CallOf("authorize", s, 0, 0)
            /\ queue' = queue /\ conn' = conn /\ up' = up
         \/ rpc = NoCall /\ rpc' = NoCall /\ queue' = Tail(queue) /\ conn' = conn /\ up' = up
         \/ /\ rpc # NoCall /\ rpc.reply # Unserved /\ rpc.sock = s
            /\ rpc' = NoCall /\ queue' = Tail(queue)
            /\ conn' = [conn EXCEPT ![s] = "closed"] /\ up' = up \ {s}
  BY <1>1, <1>3 DEF Register, Rejected, Starts, Answered, HeadOnly, Unspent, Calling
<1>6. CASE /\ rpc = NoCall /\ rpc' = CallOf("authorize", s, 0, 0)
           /\ queue' = queue /\ conn' = conn /\ up' = up
  <2>1. /\ rpc' \in Call /\ rpc' # NoCall /\ rpc'.reply = Unserved /\ rpc'.kind = "authorize"
        /\ rpc'.sock = s /\ rpc'.commit = 0
        /\ Reporting(rpc)' = 0 /\ \A o \in Sock : Pending(rpc, o)' = 0
    <3>1. PICK z \in Nat : z = 0
      OBVIOUS
    <3>2. rpc' = CallOf("authorize", s, z, z) /\ s \in Sock
      BY <1>4, <1>6, <3>1
    <3>3. /\ rpc' \in Call /\ rpc' # NoCall /\ rpc'.reply = Unserved /\ rpc'.kind = "authorize"
          /\ rpc'.sock = s /\ rpc'.commit = z
      BY ONLY <3>1, <3>2, NewCall
    <3> QED BY <3>1, <3>3 DEF Pending, Reporting, Granting
  <2>2. TypeOK'
    BY <1>1, <1>5, <1>6, <2>1 DEF TypeOK
  <2>3. OneServes' /\ Queued' /\ HandedOver'
    BY <1>1, <1>5, <1>6, <2>1 DEF OneServes, Queued, TaskOK, HandedOver
  <2>4. Calling'
    BY <1>2, <1>3, <1>6, <2>1 DEF Calling, task, me
  <2>5. Lapsing'
    BY <1>1, <1>5, <1>6 DEF Lapsing
  <2>6. /\ \A o \in Sock : Pending(rpc, o)' + Pending(late, o)' <= Pending(rpc, o) + Pending(late, o)
        /\ Reporting(rpc)' + Reporting(late)' <= Reporting(rpc) + Reporting(late)
    <3>1. /\ \A o \in Sock : Pending(rpc, o) \in Nat /\ Pending(late, o) \in Nat
          /\ Reporting(rpc) \in Nat /\ Reporting(late) \in Nat
      BY <1>1, PendingNat DEF TypeOK
    <3>2. /\ \A o \in Sock : Pending(late, o)' = Pending(late, o)
          /\ Reporting(late)' = Reporting(late)
      BY <1>5 DEF Pending, Reporting, Granting
    <3> QED BY <2>1, <3>1, <3>2
  <2>7. \A o \in Sock : meter[o].settled => conn'[o] \in {"superseded", "closed"}
    BY <1>1, <1>6 DEF OneReports
  <2> QED BY <1>5, <2>2, <2>3, <2>4, <2>5, <2>6, <2>7, QuietKeeps
<1>7. CASE /\ rpc' = NoCall /\ queue' = Tail(queue) /\ up' \subseteq up
           /\ \/ conn' = conn /\ rpc = NoCall
              \/ conn' = [conn EXCEPT ![s] = "closed"]
  <2>1. Reporting(rpc)' = 0 /\ \A o \in Sock : Pending(rpc, o)' = 0
    BY <1>7 DEF Pending, Reporting
  <2>2. /\ conn' \in [Sock -> {"none", "accepted", "registered", "superseded", "closed"}]
        /\ \A o \in Sock : o # s => conn'[o] = conn[o]
        /\ \/ conn'[s] = "accepted" /\ rpc = NoCall
           \/ conn'[s] = "closed"
    BY <1>1, <1>4, <1>7 DEF TypeOK
  <2>3. /\ queue' \in Seq(Task) /\ Single(queue')
        /\ \A i \in 1..Len(queue') : i + 1 \in 1..Len(queue) /\ queue'[i] = queue[i + 1]
        /\ \A i \in 1..Len(queue') : queue'[i].sock = s => queue'[i].kind # "register"
    BY <1>1, <1>2, <1>3, <1>7, TailOf DEF TypeOK, Queued, task
  <2>4. TypeOK'
    BY <1>1, <1>5, <1>7, <2>2, <2>3 DEF TypeOK
  <2>5. OneServes'
    BY <1>1, <1>4, <1>5, <2>2 DEF OneServes
  <2>6. Queued'
    <3> SUFFICES ASSUME NEW i \in 1..Len(queue'), NEW q, q = queue'[i] PROVE TaskOK(q)'
      BY <2>3 DEF Queued, Single
    <3>1. q \in Task /\ q.sock \in Sock
      <4>1. q \in Task
        BY <2>3
      <4> QED BY <4>1 DEF Task
    <3>2. TaskOK(q)
      BY <1>1, <2>3 DEF Queued
    <3>3. q.sock # s
      BY <1>4, <2>3, <3>2 DEF TaskOK
    <3> QED BY <1>5, <2>2, <3>1, <3>2, <3>3 DEF TaskOK
  <2>7. Calling' /\ HandedOver'
    BY <1>7 DEF Calling, HandedOver
  <2>8. Lapsing'
    <3> SUFFICES ASSUME late # NoCall PROVE Lapsing'
      BY <1>5 DEF Lapsing
    <3>1. late.sock \in Sock
      BY <1>1 DEF TypeOK, Call
    <3>2. late.reply = Unserved /\ (Asks(late) => late.commit = 0)
      BY <1>1 DEF Lapsing
    <3>3. CASE late.kind # "authorize"
      <4>1. conn[late.sock] \notin {"none", "accepted"}
        BY <1>1, <3>3 DEF Lapsing
      <4> QED BY <1>4, <1>5, <2>2, <3>1, <3>2, <3>3, <4>1 DEF Lapsing
    <3>4. CASE late.kind = "authorize"
      <4>1. /\ meter[late.sock] = newMetering /\ metering # late.sock
            /\ conn[late.sock] \in {"accepted", "closed"}
            /\ conn[late.sock] = "accepted" => rpc # NoCall /\ rpc.sock = late.sock
            /\ \A i \in 1..Len(queue) : queue[i].sock = late.sock => queue[i].kind = "register"
        BY <1>1, <3>4 DEF Lapsing
      <4>2. conn[late.sock] = "accepted" => late.sock = s
        BY <1>1, <1>3, <4>1 DEF Calling
      <4>3. conn'[late.sock] = "closed"
        BY <1>4, <2>2, <3>1, <4>1, <4>2
      <4>4. \A i \in 1..Len(queue') : queue'[i].sock = late.sock => queue'[i].kind = "register"
        BY <2>3, <4>1
      <4> QED BY <1>5, <3>2, <3>4, <4>1, <4>3, <4>4 DEF Lapsing
    <3> QED BY <3>3, <3>4
  <2>9. /\ \A o \in Sock : Pending(rpc, o)' + Pending(late, o)' <= Pending(rpc, o) + Pending(late, o)
        /\ Reporting(rpc)' + Reporting(late)' <= Reporting(rpc) + Reporting(late)
    <3>1. /\ \A o \in Sock : Pending(rpc, o) \in Nat /\ Pending(late, o) \in Nat
          /\ Reporting(rpc) \in Nat /\ Reporting(late) \in Nat
      BY <1>1, PendingNat DEF TypeOK
    <3>2. /\ \A o \in Sock : Pending(late, o)' = Pending(late, o)
          /\ Reporting(late)' = Reporting(late)
      BY <1>5 DEF Pending, Reporting, Granting
    <3> QED BY <2>1, <3>1, <3>2
  <2>10. \A o \in Sock : meter[o].settled => conn'[o] \in {"superseded", "closed"}
    <3>1. \A o \in Sock : meter[o].settled => conn[o] \in {"superseded", "closed"}
      BY <1>1 DEF OneReports
    <3> QED BY <1>4, <2>2, <3>1
  <2> QED BY <1>5, <2>4, <2>5, <2>6, <2>7, <2>8, <2>9, <2>10, QuietKeeps
<1> QED BY <1>5, <1>6, <1>7

--------------------------------------------------------------------------
(* Traffic, closes and hibernation.                                        *)

(* The registration that is served has the current state, or a fresh one.  *)
LEMMA ServedState ==
  ASSUME TypeOK, OneServes, OneReports, NEW s \in Sock, conn[s] = "registered"
  PROVE  /\ meteringFor(s) = meter[s] /\ ~ meter[s].settled /\ metering \in {s, None}
         /\ meter[s] \in Meter
<1>1. metering \in {s, None} /\ ~ meter[s].settled
  BY DEF OneServes, OneReports
<1>2. metering = None => meter[s] = newMetering
  BY DEF OneReports
<1> QED BY <1>1, <1>2 DEF meteringFor, TypeOK

(* What traffic and closes do: the state of the served registration counts  *)
(* at most the new operations more, and a task of it may be appended.      *)
LEMMA TrafficKeeps ==
  ASSUME Inv, NEW s \in Sock, conn[s] = "registered", UNCHANGED <<ledger, now, up, rpc, late, void>>,
         NEW m \in Meter, meter' = [meter EXCEPT ![s] = m], metering' = s, ~ m.settled,
         spent' \in Nat, incurred' \in Nat,
         m.budget + m.consumed = meter[s].budget + meter[s].consumed,
         m.consumed + m.messages + incurred <= Unreported(s) + incurred',
         incurred <= incurred', m.messages >= meter[s].messages,
         \/ queue' = queue /\ conn' = conn /\ m.flushQueued = meter[s].flushQueued
         \/ \E t \in Task :
              /\ queue' = Append(queue, t) /\ t.sock = s
              /\ \/ t.kind = "spend" /\ conn' = conn /\ m.flushQueued = meter[s].flushQueued
                 \/ /\ t.kind = "settle" /\ m.flushQueued = meter[s].flushQueued
                    /\ conn' = [conn EXCEPT ![s] = "closed"]
                 \/ /\ t.kind = "flush" /\ conn' = conn
                    /\ ~ meter[s].flushQueued /\ m.flushQueued /\ t.n <= m.messages
  PROVE  Inv'
<1>1. /\ TypeOK /\ OneServes /\ OneReports /\ Queued /\ Calling /\ Lapsing /\ HandedOver
      /\ Backed /\ NeverOverbilled /\ Owned(ledger) /\ ledger.config \in Configs
  BY DEF Inv
<1>2. /\ meteringFor(s) = meter[s] /\ ~ meter[s].settled /\ metering \in {s, None}
  BY <1>1, ServedState
<1>3. /\ meter'[s] = m /\ \A o \in Sock : o # s => meter'[o] = meter[o]
      /\ m.budget \in Nat /\ m.consumed \in Nat /\ m.messages \in Nat
      /\ meter' \in [Sock -> Meter]
  BY <1>1 DEF TypeOK, Meter
<1>4. /\ conn \in [Sock -> {"none", "accepted", "registered", "superseded", "closed"}]
      /\ conn' \in [Sock -> {"none", "accepted", "registered", "superseded", "closed"}]
      /\ conn'[s] \in {"registered", "closed"} /\ \A o \in Sock : o # s => conn'[o] = conn[o]
  BY <1>1 DEF TypeOK
<1>5. /\ queue' \in Seq(Task) /\ Single(queue')
      /\ \A i \in 1..Len(queue') :
           \/ \E j \in 1..Len(queue) : queue'[i] = queue[j]
           \/ /\ queue'[i].sock = s /\ queue'[i] \in Task
              /\ queue'[i].kind \in {"spend", "settle", "flush"}
              /\ queue'[i].kind = "settle" => conn'[s] = "closed"
              /\ queue'[i].kind = "flush" => m.flushQueued /\ queue'[i].n <= m.messages
      /\ meter[s].flushQueued => m.flushQueued
      /\ queue # << >> => queue' # << >> /\ Head(queue') = Head(queue)
  <2>1. queue \in Seq(Task) /\ Single(queue)
    BY <1>1 DEF TypeOK, Queued
  <2>2. CASE queue' = queue /\ conn' = conn /\ m.flushQueued = meter[s].flushQueued
    BY <2>1, <2>2
  <2>3. ASSUME NEW t \in Task, queue' = Append(queue, t), t.sock = s,
               \/ t.kind = "spend" /\ conn' = conn /\ m.flushQueued = meter[s].flushQueued
               \/ /\ t.kind = "settle" /\ m.flushQueued = meter[s].flushQueued
                  /\ conn' = [conn EXCEPT ![s] = "closed"]
               \/ /\ t.kind = "flush" /\ conn' = conn
                  /\ ~ meter[s].flushQueued /\ m.flushQueued /\ t.n <= m.messages
        PROVE  <1>5!:
    <3>1. /\ t.kind \in {"spend", "settle", "flush"}
          /\ t.kind = "settle" => conn'[s] = "closed"
          /\ t.kind = "flush" => m.flushQueued /\ t.n <= m.messages
          /\ meter[s].flushQueued => m.flushQueued
          /\ t.kind = "flush" => ~ meter[s].flushQueued
      BY <1>4, <2>3
    <3>2. t.kind = "flush" => \A i \in 1..Len(queue) : queue[i].kind = "flush" => queue[i].sock # s
      BY <1>1, <3>1 DEF Queued, TaskOK
    <3>3. /\ queue' \in Seq(Task) /\ Single(queue') /\ queue' # << >>
          /\ \A i \in 1..Len(queue') :
              (i \in 1..Len(queue) /\ queue'[i] = queue[i]) \/ queue'[i] = t
          /\ queue # << >> => Head(queue') = Head(queue)
      BY <2>1, <2>3, <3>1, <3>2, AppendOf
    <3> QED BY <2>3, <3>1, <3>3
  <2> QED BY <2>2, <2>3
<1>6. /\ Unreported(s)' = m.consumed + m.messages
      /\ \A o \in Sock : o # s => Unreported(o)' = Unreported(o)
      /\ \A o \in Sock : Unreported(o) \in Nat /\ Unreported(o)' \in Nat
  <2>1. \A o \in Sock : meter[o] \in Meter /\ meter'[o] \in Meter
    BY <1>1, <1>3 DEF TypeOK
  <2>2. /\ Unreported(s)' = m.consumed + m.messages
        /\ \A o \in Sock : o # s => Unreported(o)' = Unreported(o)
    BY <1>3 DEF Unreported
  <2>3. ASSUME NEW o \in Sock PROVE Unreported(o) \in Nat /\ Unreported(o)' \in Nat
    <3>1. \A y \in Meter : y.consumed + y.messages \in Nat
      BY DEF Meter
    <3>2. Unreported(o) = meter[o].consumed + meter[o].messages
          /\ Unreported(o)' = meter'[o].consumed + meter'[o].messages
      BY DEF Unreported
    <3> QED BY <2>1, <3>1, <3>2
  <2> QED BY <2>2, <2>3
<1>7. TypeOK'
  BY <1>1, <1>3, <1>4, <1>5 DEF TypeOK
<1>8. OneServes'
  <2>1. ASSUME NEW o \in Sock, NEW p \in Sock, conn'[o] = "registered", conn'[p] = "registered"
        PROVE  o = p
    BY <1>1, <1>4, <2>1 DEF OneServes
  <2>2. ASSUME NEW o \in Sock, conn'[o] = "registered" PROVE metering' \in {o, None}
    BY <1>1, <1>4, <2>2 DEF OneServes
  <2>3. ASSUME NEW o \in Sock, conn'[o] \in {"none", "accepted"}
        PROVE  meter'[o] = newMetering /\ metering' # o
    BY <1>1, <1>3, <1>4, <2>3 DEF OneServes
  <2> QED BY <2>1, <2>2, <2>3 DEF OneServes
<1>9. OneReports'
  <2>1. metering' # None
    BY MeteringAssumption
  <2>2. ASSUME NEW o \in Sock, o # s PROVE Unreported(o)' = 0
    <3>1. CASE metering = s
      BY <1>1, <1>6, <2>2, <3>1 DEF OneReports
    <3>2. CASE metering = None
      <4>1. meter[o] = newMetering
        BY <1>1, <3>2 DEF OneReports
      <4>2. Unreported(o) = 0
        BY <4>1 DEF Unreported, newMetering
      <4> QED BY <1>6, <2>2, <4>2
    <3> QED BY <1>2, <3>1, <3>2
  <2>3. ASSUME NEW o \in Sock, meter'[o].settled
        PROVE  conn'[o] \in {"superseded", "closed"} /\ Unreported(o)' = 0
    <3>1. o # s
      BY <1>3, <2>3
    <3> QED BY <1>1, <1>3, <1>4, <2>2, <2>3, <3>1 DEF OneReports
  <2> QED BY <2>1, <2>2, <2>3 DEF OneReports
<1>10. Queued'
  <2> SUFFICES ASSUME NEW i \in 1..Len(queue'), NEW q, q = queue'[i] PROVE TaskOK(q)'
    BY <1>5 DEF Queued, Single
  <2>1. CASE \E j \in 1..Len(queue) : q = queue[j]
    <3>1. TaskOK(q)
      BY <1>1, <2>1 DEF Queued
    <3>2. q \in Task
      BY <1>1, <2>1 DEF TypeOK
    <3>3. q.sock \in Sock /\ q.n \in Nat
      BY <3>2 DEF Task
    <3>4. CASE q.sock = s
      <4>1. q.kind \notin {"register", "settle"} /\ conn'[s] \notin {"none", "accepted"}
        BY <1>4, <3>1, <3>4 DEF TaskOK
      <4>2. q.kind = "flush" => m.flushQueued
        BY <1>5, <3>1, <3>4 DEF TaskOK
      <4>3. q.kind = "flush" => q.n <= meter[s].messages
        BY <1>2, <3>1, <3>4 DEF TaskOK
      <4>4. meter[s].messages \in Nat
        BY <1>1, CountsNat
      <4>5. q.kind = "flush" => q.n <= m.messages
        BY <1>3, <3>3, <4>3, <4>4
      <4> QED BY <1>3, <3>4, <4>1, <4>2, <4>5 DEF TaskOK
    <3>5. CASE q.sock # s
      <4>1. /\ q.kind = "register" => conn'[q.sock] = "accepted"
            /\ q.kind = "settle" => conn'[q.sock] = "closed"
            /\ q.kind # "register" => conn'[q.sock] \notin {"none", "accepted"}
            /\ q.kind = "flush" => /\ meter'[q.sock].flushQueued
                                   /\ meter'[q.sock].settled \/ q.n <= meter'[q.sock].messages
        BY <1>3, <1>4, <3>1, <3>3, <3>5 DEF TaskOK
      <4>2. q.kind # "register" => meter'[q.sock].settled \/ metering' = q.sock
        <5>1. q.kind # "register" => meter[q.sock].settled
          <6>1. metering # q.sock
            BY <1>2, <3>3, <3>5, MeteringAssumption
          <6> QED BY <3>1, <6>1 DEF TaskOK
        <5> QED BY <1>3, <3>3, <3>5, <5>1
      <4> QED BY <4>1, <4>2 DEF TaskOK
    <3> QED BY <3>4, <3>5
  <2>2. CASE /\ q.sock = s /\ q.kind \in {"spend", "settle", "flush"}
             /\ q.kind = "settle" => conn'[s] = "closed"
             /\ q.kind = "flush" => m.flushQueued /\ q.n <= m.messages
    BY <1>3, <1>4, <2>2 DEF TaskOK
  <2> QED BY <1>5, <2>1, <2>2
<1>11. Calling'
  <2> SUFFICES ASSUME rpc # NoCall PROVE Calling'
    BY DEF Calling
  <2>1. /\ queue # << >> /\ rpc.sock = task.sock
        /\ rpc.kind = "authorize" <=> task.kind = "register"
        /\ Asks(rpc) => rpc.commit = 0
        /\ task.kind = "settle" /\ me.settled => rpc.kind = "close"
    BY <1>1 DEF Calling
  <2>2. queue' # << >> /\ Head(queue') = Head(queue)
    BY <1>5, <2>1
  <2>3. PICK h : h = Head(queue)
    OBVIOUS
  <2>4. task = h /\ task' = h /\ h.sock \in Sock
    BY <1>1, <2>1, <2>2, <2>3, HeadType DEF task
  <2>5. meter'[h.sock].settled => meter[h.sock].settled
    BY <1>3, <2>4
  <2>6. me = meter[h.sock] /\ me' = meter'[h.sock]
    BY <2>4 DEF me
  <2>7. h.kind = "settle" /\ meter'[h.sock].settled => rpc.kind = "close"
    BY <2>1, <2>4, <2>5, <2>6
  <2> QED BY <2>1, <2>2, <2>4, <2>6, <2>7 DEF Calling, Asks
<1>12. Lapsing'
  <2> SUFFICES ASSUME late # NoCall PROVE Lapsing'
    BY DEF Lapsing
  <2>1. late.sock \in Sock /\ late.reply = Unserved /\ (Asks(late) => late.commit = 0)
    BY <1>1 DEF TypeOK, Call, Lapsing
  <2>2. CASE late.kind # "authorize"
    <3>1. conn[late.sock] \notin {"none", "accepted"}
      BY <1>1, <2>2 DEF Lapsing
    <3> QED BY <1>4, <2>1, <2>2, <3>1 DEF Lapsing
  <2>3. CASE late.kind = "authorize"
    <3>1. /\ meter[late.sock] = newMetering /\ metering # late.sock
          /\ conn[late.sock] \in {"accepted", "closed"}
          /\ conn[late.sock] = "accepted" =>
               rpc # NoCall /\ rpc.sock = late.sock /\ rpc.reply = Refused
          /\ \A i \in 1..Len(queue) : queue[i].sock = late.sock => queue[i].kind = "register"
      BY <1>1, <2>3 DEF Lapsing
    <3>2. late.sock # s
      BY <3>1
    <3>3. conn'[late.sock] = conn[late.sock] /\ meter'[late.sock] = meter[late.sock]
      BY <1>3, <1>4, <2>1, <3>2
    <3>4. \A i \in 1..Len(queue') : queue'[i].sock = late.sock => queue'[i].kind = "register"
      BY <1>5, <3>1, <3>2
    <3> QED BY <2>1, <2>3, <3>1, <3>2, <3>3, <3>4 DEF Lapsing
  <2> QED BY <2>2, <2>3
<1>13. \A o \in Sock : meter'[o].budget + meter'[o].consumed = meter[o].budget + meter[o].consumed
  BY <1>3
<1>14. HandedOver'
  BY <1>1, <1>13 DEF HandedOver
<1>15. Backed'
  <2> SUFFICES ASSUME Id \in ledger.open, NEW r, r = ledger.entry[Id].regId
               PROVE  Claims(r)' <= ledger.entry[Id].lease + void[r]
    BY DEF Backed
  <2>1. r \in Sock /\ Claims(r) <= ledger.entry[Id].lease + void[r]
    BY <1>1 DEF Backed, Owned
  <2>2. Pending(rpc, r)' = Pending(rpc, r) /\ Pending(late, r)' = Pending(late, r)
    BY DEF Pending, Reporting, Granting
  <2> QED BY <1>13, <2>1, <2>2 DEF Claims
<1>16. NeverOverbilled'
  <2>1. /\ Reporting(rpc)' = Reporting(rpc) /\ Reporting(late)' = Reporting(late)
    BY DEF Reporting
  <2>2. /\ Reporting(rpc) \in Nat /\ Reporting(late) \in Nat /\ ledger.dayUsed \in Nat
        /\ incurred \in Nat
    BY <1>1, CountsNat
  <2>3. \A o \in Sock : ledger.dayUsed + Reporting(rpc) + Reporting(late) + Unreported(o) <= incurred
    BY <1>1 DEF NeverOverbilled
  <2>4. ASSUME NEW o \in Sock
        PROVE  ledger.dayUsed + Reporting(rpc) + Reporting(late) + Unreported(o)' <= incurred'
    <3>1. CASE o = s
      BY <1>3, <1>6, <2>2, <2>3, <3>1, SMTT(30)
    <3>2. CASE o # s
      BY <1>6, <2>2, <2>3, <3>2, SMTT(30)
    <3> QED BY <3>1, <3>2
  <2>5. \A p, q \in Sock : Unreported(p)' > 0 /\ Unreported(q)' > 0 => p = q
    BY <1>6, <1>9 DEF OneReports
  <2> QED BY <2>1, <2>4, <2>5 DEF NeverOverbilled
<1> QED BY <1>1, <1>7, <1>8, <1>9, <1>10, <1>11, <1>12, <1>14, <1>15, <1>16 DEF Inv

(* Each kind of traffic, and a close, is such a step.                      *)
LEMMA TrafficSteps ==
  ASSUME Inv, NEW s \in Sock,
         Request(s) \/ BrowserFrame(s) \/ ControlFrame(s) \/ webSocketClose(s)
  PROVE  Inv'
<1>1. TypeOK /\ OneServes /\ OneReports
  BY DEF Inv
<1>2. conn[s] = "registered"
  BY DEF Request, BrowserFrame, ControlFrame, webSocketClose, ctl
<1>3. PICK x : x = meter[s]
  OBVIOUS
<1>4. /\ meteringFor(s) = x /\ ~ x.settled /\ x \in Meter
      /\ x.budget \in Nat /\ x.consumed \in Nat /\ x.messages \in Nat
      /\ Unreported(s) = x.consumed + x.messages
      /\ incurred \in Nat /\ spent \in Nat
  <2>1. meteringFor(s) = x /\ ~ x.settled
    BY <1>1, <1>2, <1>3, ServedState
  <2>2. /\ x \in Meter /\ x.budget \in Nat /\ x.consumed \in Nat /\ x.messages \in Nat
    BY <1>1, <1>3, CountsNat
  <2> QED BY <1>1, <1>3, <2>1, <2>2 DEF Unreported, TypeOK
<1>5. CASE Request(s)
  <2> DEFINE t == TaskOf("spend", s, 1)
  <2>1. t \in Task /\ t.kind = "spend" /\ t.sock = s
    BY DEF TaskOf, Task
  <2>2. /\ metering' = s /\ meter' = [meter EXCEPT ![s] = x] /\ queue' = Append(queue, t)
        /\ UNCHANGED <<ledger, now, conn, up, rpc, late, spent, incurred, void>>
    BY <1>4, <1>5 DEF Request, Ordered
  <2> HIDE DEF t
  <2>3. /\ x.consumed + x.messages + incurred <= Unreported(s) + incurred'
        /\ incurred' \in Nat /\ spent' \in Nat /\ incurred <= incurred' /\ x.messages >= x.messages
    BY <1>4, <2>2
  <2> QED BY <1>2, <1>3, <1>4, <2>1, <2>2, <2>3, TrafficKeeps
<1>6. CASE BrowserFrame(s)
  <2> DEFINE m == [x EXCEPT !.budget = @ - 1, !.consumed = @ + 1]
  <2>1. /\ meter' = [meter EXCEPT ![s] = m] /\ metering = s /\ metering' = metering /\ x.budget >= 1
        /\ spent' = spent + 1 /\ incurred' = incurred + 1
        /\ UNCHANGED <<ledger, now, conn, up, queue, rpc, late, void>>
    <3>1. meter' = [meter EXCEPT ![s].budget = @ - 1, ![s].consumed = @ + 1]
      BY <1>6 DEF BrowserFrame
    <3>2. meter' = [meter EXCEPT ![s] = m]
      BY <1>1, <1>3, <3>1 DEF TypeOK, Meter
    <3> QED BY <1>4, <1>6, <3>2 DEF BrowserFrame, ownsMetering
  <2>2. /\ m \in Meter /\ m.settled = x.settled /\ m.flushQueued = x.flushQueued
        /\ m.messages = x.messages /\ m.budget = x.budget - 1 /\ m.consumed = x.consumed + 1
    <3> DEFINE a == x.budget - 1
               c == x.consumed + 1
    <3>1. a \in Nat /\ c \in Nat /\ m = [x EXCEPT !.budget = a, !.consumed = c]
      BY <1>4, <2>1
    <3> HIDE DEF a, c, m
    <3> QED BY <1>4, <3>1 DEF Meter, a, c
  <2> HIDE DEF m
  <2>3. /\ m.budget + m.consumed = x.budget + x.consumed
        /\ m.consumed + m.messages + incurred <= Unreported(s) + incurred'
        /\ incurred' \in Nat /\ spent' \in Nat /\ incurred <= incurred' /\ m.messages >= x.messages
    BY <1>4, <2>1, <2>2
  <2> QED BY <1>2, <1>3, <1>4, <2>1, <2>2, <2>3, TrafficKeeps
<1>7. CASE ControlFrame(s)
  <2> DEFINE m == [x EXCEPT !.messages = @ + 1]
             full == WantsFlush(m) /\ m.active /\ ~ m.settled
  <2>1. /\ metering' = s /\ incurred' = incurred + 1
        /\ \/ full /\ meter' = [meter EXCEPT ![s] = [m EXCEPT !.flushQueued = TRUE]]
              /\ queue' = Append(queue, Batch(s, m))
           \/ ~ full /\ meter' = [meter EXCEPT ![s] = m] /\ queue' = queue
        /\ UNCHANGED <<ledger, now, conn, up, rpc, late, spent, void>>
    BY <1>4, <1>7 DEF ControlFrame, Ordered
  <2>2. /\ m \in Meter /\ m.settled = x.settled /\ m.flushQueued = x.flushQueued
        /\ m.messages = x.messages + 1 /\ m.budget = x.budget /\ m.consumed = x.consumed
    <3> DEFINE c == x.messages + 1
    <3>1. c \in Nat /\ m = [x EXCEPT !.messages = c]
      BY <1>4
    <3> HIDE DEF c, m
    <3> QED BY <1>4, <3>1 DEF Meter, c
  <2>3. full => ~ m.flushQueued
    BY DEF WantsFlush
  <2> HIDE DEF m, full
  <2>4. /\ m.budget + m.consumed = x.budget + x.consumed
        /\ m.consumed + m.messages + incurred <= Unreported(s) + incurred'
        /\ incurred' \in Nat /\ spent' \in Nat /\ incurred <= incurred' /\ m.messages >= x.messages
        /\ m.messages \in Nat
    BY <1>4, <2>1, <2>2
  <2>5. CASE ~ full
    <3>1. meter' = [meter EXCEPT ![s] = m] /\ queue' = queue
      BY <2>1, <2>5
    <3> QED BY <1>2, <1>3, <1>4, <2>1, <2>2, <2>4, <3>1, TrafficKeeps
  <2>6. CASE full
    <3> DEFINE p == [m EXCEPT !.flushQueued = TRUE]
               t == Batch(s, m)
    <3>1. meter' = [meter EXCEPT ![s] = p] /\ queue' = Append(queue, t)
      BY <2>1, <2>6
    <3>2. /\ p \in Meter /\ p.settled = m.settled /\ p.flushQueued /\ p.messages = m.messages
          /\ p.budget = m.budget /\ p.consumed = m.consumed
      BY <2>2 DEF Meter
    <3>3. t \in Task /\ t.kind = "flush" /\ t.sock = s /\ t.n <= m.messages
      BY <2>4, MeteringAssumption DEF Batch, TaskOf, Task
    <3> HIDE DEF p, t
    <3>4. ~ x.flushQueued /\ ~ p.settled
      BY <1>4, <2>2, <2>3, <2>6, <3>2
    <3> QED BY <1>2, <1>3, <1>4, <2>1, <2>2, <2>4, <3>1, <3>2, <3>3, <3>4, TrafficKeeps
  <2> QED BY <2>5, <2>6
<1>8. CASE webSocketClose(s)
  <2> DEFINE m == [x EXCEPT !.active = FALSE]
             t == TaskOf("settle", s, 0)
  <2>1. /\ metering' = s /\ meter' = [meter EXCEPT ![s] = m]
        /\ queue' = Append(queue, t) /\ conn' = [conn EXCEPT ![s] = "closed"]
        /\ UNCHANGED <<ledger, now, up, rpc, late, spent, incurred, void>>
    BY <1>4, <1>8 DEF webSocketClose, Ordered
  <2>2. /\ m \in Meter /\ m.settled = x.settled /\ m.flushQueued = x.flushQueued
        /\ m.messages = x.messages /\ m.budget = x.budget /\ m.consumed = x.consumed
    BY <1>4 DEF Meter
  <2>3. t \in Task /\ t.kind = "settle" /\ t.sock = s
    BY DEF TaskOf, Task
  <2> HIDE DEF m, t
  <2>4. /\ m.consumed + m.messages + incurred <= Unreported(s) + incurred'
        /\ incurred' \in Nat /\ spent' \in Nat /\ incurred <= incurred' /\ m.messages >= x.messages
        /\ m.budget + m.consumed = x.budget + x.consumed
    BY <1>4, <2>1, <2>2
  <2> QED BY <1>2, <1>3, <1>4, <2>1, <2>2, <2>3, <2>4, TrafficKeeps
<1> QED BY <1>5, <1>6, <1>7, <1>8

(* Nothing of a call or a task is lost when the object is evicted, for     *)
(* there is none; what was not reported yet is lost, and never billed.     *)
LEMMA HibernateKeeps ==
  ASSUME Inv, Hibernate
  PROVE  Inv'
<1>1. /\ TypeOK /\ OneServes /\ OneReports /\ Queued /\ Calling /\ Lapsing
      /\ Backed /\ NeverOverbilled /\ Owned(ledger) /\ ledger.config \in Configs
  BY DEF Inv
<1>2. /\ queue = << >> /\ metering' = None /\ meter' = [s \in Sock |-> newMetering]
      /\ UNCHANGED <<ledger, now, conn, up, queue, rpc, late, spent, incurred, void>>
  BY DEF Hibernate
<1>3. rpc = NoCall
  BY <1>1, <1>2 DEF Calling
<1>4. newMetering \in Meter /\ newMetering.settled = FALSE
      /\ newMetering.budget = 0 /\ newMetering.consumed = 0 /\ newMetering.messages = 0
  BY DEF newMetering, Meter
<1>5. \A s \in Sock : meter'[s] = newMetering /\ Unreported(s)' = 0
  BY <1>2, <1>4 DEF Unreported
<1>6. TypeOK'
  BY <1>1, <1>2, <1>4 DEF TypeOK
<1>7. OneServes'
  BY <1>1, <1>2, <1>5, MeteringAssumption DEF OneServes
<1>8. OneReports'
  BY <1>2, <1>4, <1>5 DEF OneReports
<1>9. Queued'
  BY <1>1, <1>2 DEF Queued, Single
<1>10. Calling' /\ HandedOver'
  BY <1>2, <1>3 DEF Calling, HandedOver
<1>11. Lapsing'
  <2> SUFFICES ASSUME late # NoCall PROVE Lapsing'
    BY <1>2 DEF Lapsing
  <2>1. late.sock \in Sock
    BY <1>1 DEF TypeOK, Call
  <2> QED BY <1>1, <1>2, <1>3, <1>5, <2>1, MeteringAssumption DEF Lapsing
<1>12. Backed'
  <2> SUFFICES ASSUME Id \in ledger.open, NEW r, r = ledger.entry[Id].regId
               PROVE  Claims(r)' <= ledger.entry[Id].lease + void[r]
    BY <1>2 DEF Backed
  <2>1. r \in Sock /\ Claims(r) <= ledger.entry[Id].lease + void[r]
    BY <1>1 DEF Backed, Owned
  <2>2. Pending(rpc, r)' = Pending(rpc, r) /\ Pending(late, r)' = Pending(late, r)
    BY <1>2 DEF Pending, Reporting, Granting
  <2>3. /\ meter[r].budget \in Nat /\ meter[r].consumed \in Nat /\ void[r] \in Nat
        /\ Pending(rpc, r) \in Nat /\ Pending(late, r) \in Nat /\ ledger.entry[Id].lease \in Nat
    BY <1>1, <2>1, CountsNat
  <2>4. Claims(r)' = Pending(rpc, r) + Pending(late, r)
    BY <1>4, <1>5, <2>1, <2>2, <2>3 DEF Claims
  <2> QED BY <2>1, <2>3, <2>4 DEF Claims
<1>13. NeverOverbilled'
  <2>1. ASSUME NEW s \in Sock
        PROVE  ledger.dayUsed + Reporting(rpc) + Reporting(late) + 0 <= incurred
    <3>1. ledger.dayUsed + Reporting(rpc) + Reporting(late) + Unreported(s) <= incurred
      BY <1>1 DEF NeverOverbilled
    <3> QED BY <1>1, <2>1, <3>1, CountsNat
  <2>2. Reporting(rpc)' = Reporting(rpc) /\ Reporting(late)' = Reporting(late)
    BY <1>2 DEF Reporting
  <2> QED BY <1>2, <1>5, <2>1, <2>2 DEF NeverOverbilled
<1> QED BY <1>1, <1>2, <1>6, <1>7, <1>8, <1>9, <1>10, <1>11, <1>12, <1>13 DEF Inv

--------------------------------------------------------------------------
(* A call is served, in time or late.                                      *)

(* Whatever call the account serves, the lease of the entry covers what     *)
(* its registration then claims: an entry opened anew has no lease, and    *)
(* what was counted before is void.                                        *)
LEMMA ServedClaims ==
  ASSUME Inv, NEW c \in Call, c.reply = Unserved, Asks(c) => c.commit = 0,
         ledger' = Effect(c, Fresh(ledger, now), Roll(ledger, now)),
         void' = VoidAfter(c, Fresh(ledger, now)), meter' = meter,
         rpc' \in Call \cup {NoCall}, late' \in Call \cup {NoCall},
         c.kind = "authorize" => /\ meter[c.sock] = newMetering
                                 /\ Pending(rpc, c.sock)' = 0 /\ Pending(late, c.sock)' = 0,
         \A s \in Sock :
           Pending(rpc, s)' + Pending(late, s)' + Pending(c, s)
             <= Pending(rpc, s) + Pending(late, s)
                  + (IF Lets(c) /\ c.sock = s THEN Answer(c, Fresh(ledger, now)).grant ELSE 0)
  PROVE  /\ ledger' \in LedgerType /\ ledger'.config \in Configs /\ Owned(ledger')
         /\ void' \in [Sock -> Nat] /\ ledger'.dayUsed <= ledger.dayUsed + c.commit
         /\ Backed'
<1> DEFINE F == Fresh(ledger, now)
           a == Answer(c, F)
<1>0. /\ TypeOK /\ ledger.config \in Configs /\ Owned(ledger) /\ Backed
      /\ ledger \in LedgerType /\ now \in Nat
  BY DEF Inv, TypeOK
<1>1. /\ ledger' \in LedgerType /\ ledger'.config \in Configs /\ Owned(ledger') /\ a \in Reply
      /\ ledger'.dayUsed <= ledger.dayUsed + c.commit
      /\ KeptOrGone(ledger, F)
      /\ \/ a.grant = 0 /\ KeptOrGone(ledger, ledger') /\ (Asks(c) => ~ a.ok)
         \/ /\ Asks(c) /\ a.ok /\ a.grant = 0
            /\ a.carried = F.entry[Id].regId /\ a.credits = F.entry[Id].lease
            /\ Id \in ledger'.open /\ ledger'.entry[Id].regId = c.sock
            /\ ledger'.entry[Id].lease = a.credits
         \/ /\ Lets(c) /\ Id \in ledger'.open /\ Id \in ledger.open
            /\ ledger'.entry[Id].regId = c.sock /\ ledger.entry[Id].regId = c.sock
            /\ a.grant <= ledger'.entry[Id].lease
            /\ ledger.entry[Id].lease + a.grant <= ledger'.entry[Id].lease + c.commit
  BY <1>0, ServeDoes
<1>2. c.sock \in Sock /\ c.commit \in Nat
  BY DEF Call
<1>3. Claims(c.sock) \in Nat
  BY <1>0, <1>2, CountsNat DEF Claims
<1>4. /\ void' = IF c.kind = "reauthorize" /\ a.ok /\ F.entry[Id].regId # c.sock
                 THEN [void EXCEPT ![c.sock] = Claims(c.sock)] ELSE void
      /\ \A s \in Sock :
           Pending(rpc, s)' + Pending(late, s)' + Pending(c, s)
             <= Pending(rpc, s) + Pending(late, s)
                  + (IF Lets(c) /\ c.sock = s THEN a.grant ELSE 0)
  BY DEF VoidAfter
<1> HIDE DEF F, a
<1>5. void' \in [Sock -> Nat]
  BY <1>0, <1>2, <1>3, <1>4 DEF TypeOK
<1>6. Backed'
  <2> SUFFICES ASSUME Id \in ledger'.open, NEW r, r = ledger'.entry[Id].regId
               PROVE  meter[r].budget + meter[r].consumed + Pending(rpc, r)' + Pending(late, r)'
                        <= ledger'.entry[Id].lease + void'[r]
    BY DEF Backed, Claims
  <2>1. r \in Sock
    BY <1>1 DEF Owned
  <2>2. /\ meter[r].budget \in Nat /\ meter[r].consumed \in Nat /\ void[r] \in Nat
        /\ Pending(rpc, r) \in Nat /\ Pending(late, r) \in Nat /\ ledger.entry[Id].lease \in Nat
    BY <1>0, <2>1, CountsNat
  <2>3. Pending(rpc, r)' \in Nat /\ Pending(late, r)' \in Nat /\ Pending(c, r) \in Nat
    BY <2>1, PendingNat
  <2>4. ledger'.entry[Id].lease \in Nat /\ void'[r] \in Nat /\ a.grant \in Nat
    <3>1. ledger'.entry[Id] \in Entry
      BY <1>1, MeteringAssumption DEF LedgerType
    <3>2. ledger'.entry[Id].lease \in Nat
      BY <3>1 DEF Entry
    <3>3. void'[r] \in Nat
      BY <1>5, <2>1
    <3> QED BY <1>1, <3>2, <3>3 DEF Reply
  <2>5. /\ Pending(rpc, r)' + Pending(late, r)' + Pending(c, r)
              <= Pending(rpc, r) + Pending(late, r) + (IF Lets(c) /\ c.sock = r THEN a.grant ELSE 0)
        /\ Claims(r) = meter[r].budget + meter[r].consumed + Pending(rpc, r) + Pending(late, r)
    BY <1>4, <2>1 DEF Claims
  <2>6. ASSUME Id \in ledger.open, ledger.entry[Id].regId = r
        PROVE  Claims(r) <= ledger.entry[Id].lease + void[r]
    BY <1>0, <2>6 DEF Backed
  <2>7. CASE a.grant = 0 /\ KeptOrGone(ledger, ledger') /\ (Asks(c) => ~ a.ok)
    <3>1. void' = void
      BY <1>4, <2>7 DEF Asks
    <3>2. Id \in ledger.open /\ ledger'.entry[Id] = ledger.entry[Id]
      BY <2>7 DEF KeptOrGone
    <3>3. Claims(r) <= ledger'.entry[Id].lease + void'[r]
      BY <2>6, <3>1, <3>2
    <3> QED BY <2>2, <2>3, <2>4, <2>5, <2>7, <3>3
  <2>8. CASE /\ Asks(c) /\ a.ok /\ a.grant = 0
             /\ a.credits = F.entry[Id].lease
             /\ ledger'.entry[Id].regId = c.sock /\ ledger'.entry[Id].lease = a.credits
    <3>1. r = c.sock /\ ~ Lets(c) /\ c.kind \in {"authorize", "reauthorize"}
      BY <2>8 DEF Asks, Lets
    <3>2. Pending(rpc, r)' + Pending(late, r)' <= Pending(rpc, r) + Pending(late, r)
      BY <2>2, <2>3, <2>5, <3>1
    <3>3. CASE c.kind = "authorize"
      <4>1. meter[r].budget = 0 /\ meter[r].consumed = 0
        BY <3>1, <3>3 DEF newMetering
      <4>2. Pending(rpc, r)' = 0 /\ Pending(late, r)' = 0
        BY <3>1, <3>3
      <4> QED BY <2>4, <4>1, <4>2
    <3>4. CASE c.kind = "reauthorize" /\ F.entry[Id].regId # c.sock
      <4>1. void'[r] = Claims(r)
        BY <1>0, <1>4, <2>1, <2>8, <3>1, <3>4 DEF TypeOK
      <4> QED BY <2>2, <2>3, <2>4, <2>5, <3>2, <4>1, SMTT(30)
    <3>5. CASE c.kind = "reauthorize" /\ F.entry[Id].regId = c.sock
      <4>1. void' = void
        BY <1>4, <3>5
      <4>2. Id \in ledger.open /\ F.entry[Id] = ledger.entry[Id]
        BY <1>1, <1>2, <3>5, LedgerAssumption DEF KeptOrGone, NoEntry, Sock
      <4>3. Claims(r) <= ledger'.entry[Id].lease + void'[r]
        BY <2>6, <2>8, <3>1, <3>5, <4>1, <4>2
      <4> QED BY <2>2, <2>3, <2>4, <2>5, <3>2, <4>3
    <3> QED BY <3>1, <3>3, <3>4, <3>5
  <2>9. CASE /\ Lets(c) /\ Id \in ledger.open
             /\ ledger'.entry[Id].regId = c.sock /\ ledger.entry[Id].regId = c.sock
             /\ ledger.entry[Id].lease + a.grant <= ledger'.entry[Id].lease + c.commit
    <3>1. r = c.sock /\ void' = void
      BY <1>4, <2>9 DEF Lets
    <3>2. Claims(r) <= ledger.entry[Id].lease + void'[r]
      BY <2>6, <2>9, <3>1
    <3>3. Pending(c, r) = c.commit
      BY <1>2, <2>9, <3>1, MeteringAssumption DEF Pending, Reporting, Granting, Lets
    <3>4. Pending(rpc, r)' + Pending(late, r)' + c.commit
            <= Pending(rpc, r) + Pending(late, r) + a.grant
      BY <2>5, <2>9, <3>1, <3>3
    <3>5. ledger.entry[Id].lease + a.grant <= ledger'.entry[Id].lease + c.commit
      BY <2>9
    <3> QED BY <1>2, <2>2, <2>3, <2>4, <2>5, <3>2, <3>4, <3>5
  <2> QED BY <1>1, <2>7, <2>8, <2>9
<1> QED BY <1>1, <1>5, <1>6

(* The account serves the call that is waited for.                         *)
LEMMA ServeKeeps ==
  ASSUME Inv, Serve
  PROVE  Inv'
<1>1. /\ TypeOK /\ OneServes /\ OneReports /\ Queued /\ Calling /\ Lapsing
      /\ Backed /\ NeverOverbilled /\ Owned(ledger) /\ ledger.config \in Configs
  BY DEF Inv
<1>2. PICK c, F, a : c = rpc /\ F = Fresh(ledger, now) /\ a = Answer(c, F)
  OBVIOUS
<1>3. /\ c # NoCall /\ c.reply = Unserved /\ rpc = c
      /\ ledger' = Effect(c, F, Roll(ledger, now))
      /\ rpc' = [c EXCEPT !.reply = a] /\ void' = VoidAfter(c, F)
      /\ UNCHANGED <<now, conn, up, metering, meter, queue, late, spent, incurred>>
  BY <1>2 DEF Serve
<1>4. /\ c \in Call /\ c.sock \in Sock /\ c.commit \in Nat
      /\ ledger \in LedgerType /\ now \in Nat
  BY <1>1, <1>3 DEF TypeOK, Call
<1>5. /\ a \in Reply /\ a # Unserved /\ a.grant \in Nat
      /\ KeptOrGone(ledger, F)
      /\ \/ a.grant = 0 /\ (Asks(c) => ~ a.ok)
         \/ /\ a.grant = 0 /\ a.carried = F.entry[Id].regId /\ a.credits = F.entry[Id].lease
            /\ ledger'.entry[Id].lease = a.credits
         \/ Lets(c)
  <2>1. /\ a \in Reply /\ KeptOrGone(ledger, F)
        /\ \/ a.grant = 0 /\ (Asks(c) => ~ a.ok)
           \/ /\ a.grant = 0 /\ a.carried = F.entry[Id].regId /\ a.credits = F.entry[Id].lease
              /\ ledger'.entry[Id].lease = a.credits
           \/ Lets(c)
    BY <1>1, <1>2, <1>3, <1>4, ServeDoes
  <2> QED BY <2>1, MeteringAssumption DEF Reply
<1>6. /\ rpc' \in Call /\ rpc' # NoCall /\ rpc'.kind = c.kind /\ rpc'.sock = c.sock
      /\ rpc'.commit = c.commit /\ rpc'.reply = a
  BY <1>3, <1>4, <1>5, MeteringAssumption DEF Call
<1>7. /\ queue # << >> /\ c.sock = task.sock
      /\ c.kind = "authorize" <=> task.kind = "register"
      /\ Asks(c) => c.commit = 0
  BY <1>1, <1>3 DEF Calling
<1>8. ASSUME c.kind = "authorize"
      PROVE  /\ meter[c.sock] = newMetering
             /\ Pending(rpc, c.sock)' = 0 /\ Pending(late, c.sock)' = 0
  <2>1. TaskOK(task)
    BY <1>1, <1>7, TailOf DEF TypeOK, Queued, task
  <2>2. conn[c.sock] = "accepted"
    BY <1>7, <1>8, <2>1 DEF TaskOK
  <2>3. meter[c.sock] = newMetering
    BY <1>1, <1>4, <2>2 DEF OneServes
  <2>4. a.grant = 0
    BY <1>5, <1>8 DEF Lets
  <2>5. Pending(rpc, c.sock)' = 0
    BY <1>5, <1>6, <2>4 DEF Pending, Reporting, Granting
  <2>6. Pending(late, c.sock)' = 0
    BY <1>1, <1>3, <2>2, MeteringAssumption DEF Lapsing, Pending, Reporting, Granting, Asks
  <2> QED BY <2>3, <2>5, <2>6
<1>9. \A s \in Sock :
        Pending(rpc, s)' + Pending(late, s)' + Pending(c, s)
          <= Pending(rpc, s) + Pending(late, s)
               + (IF Lets(c) /\ c.sock = s THEN a.grant ELSE 0)
  <2> SUFFICES ASSUME NEW s \in Sock
               PROVE  Pending(rpc, s)' + Pending(late, s)' + Pending(c, s)
                        <= Pending(rpc, s) + Pending(late, s)
                             + (IF Lets(c) /\ c.sock = s THEN a.grant ELSE 0)
    OBVIOUS
  <2>1. rpc = c /\ Pending(rpc, s) \in Nat /\ Pending(late, s) \in Nat
    BY <1>1, <1>3, CountsNat
  <2>2. Pending(late, s)' = Pending(late, s)
    BY <1>3 DEF Pending, Reporting, Granting
  <2>3. ~ Lets(c) => a.grant = 0
    BY <1>5
  <2>4. Pending(rpc, s)' = IF c.sock = s /\ c.kind # "close" THEN a.grant ELSE 0
    BY <1>5, <1>6 DEF Pending, Reporting, Granting
  <2>5. Pending(rpc, s)' = IF Lets(c) /\ c.sock = s THEN a.grant ELSE 0
    BY <2>3, <2>4 DEF Lets
  <2> HIDE DEF Lets
  <2> QED BY <1>5, <2>1, <2>2, <2>5
<1>10. /\ ledger' \in LedgerType /\ ledger'.config \in Configs /\ Owned(ledger')
       /\ void' \in [Sock -> Nat] /\ ledger'.dayUsed <= ledger.dayUsed + c.commit
       /\ Backed'
  <2>1. rpc' \in Call \cup {NoCall} /\ late' \in Call \cup {NoCall}
    BY <1>1, <1>3, <1>6 DEF TypeOK
  <2>2. meter' = meter
    BY <1>3
  <2> QED BY <1>2, <1>3, <1>4, <1>7, <1>8, <1>9, <2>1, <2>2, ServedClaims
<1>11. TypeOK'
  BY <1>1, <1>3, <1>6, <1>10 DEF TypeOK
<1>12. OneServes' /\ OneReports' /\ Queued'
  BY <1>1, <1>3 DEF OneServes, OneReports, Unreported, Queued, TaskOK
<1>13. Calling'
  BY <1>1, <1>3, <1>6 DEF Calling, task, me, Asks
<1>14. Lapsing'
  <2>1. rpc.reply # Refused
    <3>1. Refused \in Reply
      BY DEF Refused, Reply
    <3> QED BY <1>3, <3>1, MeteringAssumption
  <2> QED BY <1>1, <1>3, <2>1 DEF Lapsing
<1>15. HandedOver'
  <2> SUFFICES ASSUME c.kind = "authorize", a.ok
               PROVE  /\ ledger'.entry[Id].lease = a.credits
                      /\ a.carried \in Sock =>
                           meter[a.carried].budget + meter[a.carried].consumed
                             <= a.credits + void'[a.carried]
    BY <1>3, <1>6 DEF HandedOver
  <2>1. /\ a.carried = F.entry[Id].regId /\ a.credits = F.entry[Id].lease
        /\ ledger'.entry[Id].lease = a.credits
    BY <1>5 DEF Asks, Lets
  <2>2. void' = void
    BY <1>3 DEF VoidAfter
  <2>3. ASSUME NEW s \in Sock, s = a.carried
        PROVE  meter[s].budget + meter[s].consumed <= a.credits + void[s]
    <3>1. Id \in ledger.open /\ F.entry[Id] = ledger.entry[Id]
      BY <1>5, <2>1, <2>3, LedgerAssumption DEF KeptOrGone, NoEntry, Sock
    <3>2. Claims(s) <= a.credits + void[s]
      BY <1>1, <2>1, <2>3, <3>1 DEF Backed
    <3>3. a.credits \in Nat
      BY <1>5 DEF Reply
    <3> QED BY <1>1, <3>2, <3>3, CountsNat DEF Claims
  <2> QED BY <2>1, <2>2, <2>3
<1>16. NeverOverbilled'
  <2>1. Reporting(rpc)' = 0 /\ Reporting(late)' = Reporting(late) /\ Reporting(rpc) = c.commit
    BY <1>3, <1>5, <1>6 DEF Reporting
  <2>2. \A s \in Sock : Unreported(s)' = Unreported(s)
    BY <1>3 DEF Unreported
  <2>3. ASSUME NEW s \in Sock
        PROVE  ledger'.dayUsed + 0 + Reporting(late) + Unreported(s) <= incurred
    <3>1. ledger.dayUsed + c.commit + Reporting(late) + Unreported(s) <= incurred
      BY <1>1, <2>1 DEF NeverOverbilled
    <3>2. ledger'.dayUsed \in Nat
      BY <1>10 DEF LedgerType
    <3> QED BY <1>1, <1>4, <1>10, <2>3, <3>1, <3>2, CountsNat
  <2>4. \A s, o \in Sock : Unreported(s) > 0 /\ Unreported(o) > 0 => s = o
    BY <1>1 DEF NeverOverbilled
  <2> QED BY <1>3, <2>1, <2>2, <2>3, <2>4 DEF NeverOverbilled
<1> QED BY <1>10, <1>11, <1>12, <1>13, <1>14, <1>15, <1>16 DEF Inv

(* The account serves a call that was given up.                            *)
LEMMA ServeLateKeeps ==
  ASSUME Inv, ServeLate
  PROVE  Inv'
<1>1. /\ TypeOK /\ OneServes /\ OneReports /\ Queued /\ Calling /\ Lapsing /\ HandedOver
      /\ Backed /\ NeverOverbilled /\ Owned(ledger) /\ ledger.config \in Configs
  BY DEF Inv
<1>2. PICK c, F, a : c = late /\ F = Fresh(ledger, now) /\ a = Answer(c, F)
  OBVIOUS
<1>3. /\ c # NoCall /\ late = c
      /\ ledger' = Effect(c, F, Roll(ledger, now))
      /\ void' = VoidAfter(c, F) /\ late' = NoCall
      /\ UNCHANGED <<now, conn, up, metering, meter, queue, rpc, spent, incurred>>
  BY <1>2 DEF ServeLate
<1>4. /\ c \in Call /\ c.sock \in Sock /\ c.commit \in Nat
      /\ ledger \in LedgerType /\ now \in Nat
  BY <1>1, <1>3 DEF TypeOK, Call
<1>5. c.reply = Unserved /\ (Asks(c) => c.commit = 0)
  BY <1>1, <1>3 DEF Lapsing
<1>6. /\ a \in Reply /\ a.grant \in Nat
      /\ \/ KeptOrGone(ledger, ledger') /\ (Asks(c) => ~ a.ok)
         \/ ledger'.entry[Id].regId = c.sock
  <2>1. /\ a \in Reply
        /\ \/ KeptOrGone(ledger, ledger') /\ (Asks(c) => ~ a.ok)
           \/ ledger'.entry[Id].regId = c.sock
    BY <1>1, <1>2, <1>3, <1>4, ServeDoes
  <2> QED BY <2>1 DEF Reply
<1>7. ASSUME c.kind = "authorize"
      PROVE  /\ meter[c.sock] = newMetering
             /\ Pending(rpc, c.sock)' = 0 /\ Pending(late, c.sock)' = 0
             /\ ~ (rpc # NoCall /\ rpc.kind = "authorize" /\ rpc.sock = c.sock /\ rpc.reply.ok)
  <2>1. /\ meter[c.sock] = newMetering
        /\ conn[c.sock] = "accepted" =>
             rpc # NoCall /\ rpc.sock = c.sock /\ rpc.reply = Refused
        /\ \A i \in 1..Len(queue) : queue[i].sock = c.sock => queue[i].kind = "register"
    BY <1>1, <1>3, <1>7 DEF Lapsing
  <2>2. ASSUME rpc # NoCall, rpc.sock = c.sock PROVE rpc.reply = Refused
    <3>1. queue # << >> /\ task.sock = c.sock
      BY <1>1, <2>2 DEF Calling
    <3>2. TaskOK(task) /\ task.kind = "register"
      BY <1>1, <2>1, <3>1, TailOf DEF TypeOK, Queued, task
    <3> QED BY <2>1, <3>1, <3>2 DEF TaskOK
  <2>3. Refused.grant = 0 /\ ~ Refused.ok /\ Refused # Unserved
    <3>1. Refused \in Reply /\ Refused.grant = 0 /\ ~ Refused.ok
      BY DEF Refused, Reply
    <3> QED BY <3>1, MeteringAssumption
  <2>4. Pending(rpc, c.sock) = 0
    BY <2>2, <2>3 DEF Pending, Reporting, Granting
  <2> QED BY <1>3, <1>5, <1>7, <2>1, <2>2, <2>3, <2>4 DEF Pending, Reporting, Granting, Asks
<1>8. \A s \in Sock :
        Pending(rpc, s)' + Pending(late, s)' + Pending(c, s)
          <= Pending(rpc, s) + Pending(late, s) + (IF Lets(c) /\ c.sock = s THEN a.grant ELSE 0)
  <2> SUFFICES ASSUME NEW s \in Sock
               PROVE  Pending(rpc, s)' + Pending(late, s)' + Pending(c, s)
                        <= Pending(rpc, s) + Pending(late, s)
                             + (IF Lets(c) /\ c.sock = s THEN a.grant ELSE 0)
    OBVIOUS
  <2>1. late = c /\ Pending(rpc, s) \in Nat /\ Pending(late, s) \in Nat
    BY <1>1, <1>3, CountsNat
  <2>2. Pending(rpc, s)' = Pending(rpc, s) /\ Pending(late, s)' = 0
    BY <1>3 DEF Pending, Reporting, Granting
  <2> HIDE DEF Lets
  <2> QED BY <1>6, <2>1, <2>2
<1>9. /\ ledger' \in LedgerType /\ ledger'.config \in Configs /\ Owned(ledger')
      /\ void' \in [Sock -> Nat] /\ ledger'.dayUsed <= ledger.dayUsed + c.commit
      /\ Backed'
  <2>1. rpc' \in Call \cup {NoCall} /\ late' \in Call \cup {NoCall} /\ meter' = meter
    BY <1>1, <1>3 DEF TypeOK
  <2> QED BY <1>2, <1>3, <1>4, <1>5, <1>7, <1>8, <2>1, ServedClaims
<1>10. TypeOK'
  BY <1>1, <1>3, <1>9 DEF TypeOK
<1>11. OneServes' /\ OneReports' /\ Queued' /\ Calling' /\ Lapsing'
  BY <1>1, <1>3 DEF OneServes, OneReports, Unreported, Queued, TaskOK, Calling, task, me, Lapsing
<1>12. HandedOver'
  <2> SUFFICES ASSUME rpc # NoCall, rpc.kind = "authorize", rpc.reply # Unserved, rpc.reply.ok,
                      Id \in ledger'.open, ledger'.entry[Id].regId = rpc.sock
               PROVE  /\ ledger'.entry[Id].lease = rpc.reply.credits
                      /\ rpc.reply.carried \in Sock =>
                           meter[rpc.reply.carried].budget + meter[rpc.reply.carried].consumed
                             <= rpc.reply.credits + void'[rpc.reply.carried]
    BY <1>3 DEF HandedOver
  <2>1. c.sock # rpc.sock
    <3>1. CASE c.kind = "authorize"
      BY <1>7, <3>1
    <3>2. CASE c.kind # "authorize"
      <4>1. conn[c.sock] \notin {"none", "accepted"}
        BY <1>1, <1>3, <3>2 DEF Lapsing
      <4>2. queue # << >> /\ rpc.sock = task.sock /\ task.kind = "register"
        BY <1>1 DEF Calling
      <4>3. conn[rpc.sock] = "accepted"
        BY <1>1, <4>2, TailOf DEF TypeOK, Queued, TaskOK, task
      <4> QED BY <4>1, <4>3
    <3> QED BY <3>1, <3>2
  <2>2. KeptOrGone(ledger, ledger') /\ (Asks(c) => ~ a.ok)
    BY <1>6, <2>1
  <2>3. Id \in ledger.open /\ ledger'.entry[Id] = ledger.entry[Id]
    BY <2>2 DEF KeptOrGone
  <2>4. void' = void
    BY <1>2, <1>3, <2>2 DEF VoidAfter, Asks
  <2> QED BY <1>1, <2>3, <2>4 DEF HandedOver
<1>13. NeverOverbilled'
  <2>1. Reporting(rpc)' = Reporting(rpc) /\ Reporting(late)' = 0 /\ Reporting(late) = c.commit
    BY <1>3, <1>5 DEF Reporting
  <2>2. \A s \in Sock : Unreported(s)' = Unreported(s)
    BY <1>3 DEF Unreported
  <2>3. ASSUME NEW s \in Sock
        PROVE  ledger'.dayUsed + Reporting(rpc) + 0 + Unreported(s) <= incurred
    <3>1. ledger.dayUsed + Reporting(rpc) + c.commit + Unreported(s) <= incurred
      BY <1>1, <2>1 DEF NeverOverbilled
    <3>2. ledger'.dayUsed \in Nat
      BY <1>9 DEF LedgerType
    <3> QED BY <1>1, <1>4, <1>9, <2>3, <3>1, <3>2, CountsNat
  <2>4. \A s, o \in Sock : Unreported(s) > 0 /\ Unreported(o) > 0 => s = o
    BY <1>1 DEF NeverOverbilled
  <2> QED BY <1>3, <2>1, <2>2, <2>3, <2>4 DEF NeverOverbilled
<1> QED BY <1>9, <1>10, <1>11, <1>12, <1>13 DEF Inv

--------------------------------------------------------------------------
(* A register that was admitted is published.                              *)

(* A task put before the others.                                           *)
LEMMA PrependOf ==
  ASSUME NEW q \in Seq(Task), NEW t \in Task, t.kind = "settle", Single(q)
  PROVE  /\ <<t>> \o q \in Seq(Task) /\ Single(<<t>> \o q)
         /\ \A i \in 1..Len(<<t>> \o q) :
              \/ (<<t>> \o q)[i] = t
              \/ \E j \in 1..Len(q) : (<<t>> \o q)[i] = q[j]
<1> DEFINE p == <<t>> \o q
<1>1. /\ p \in Seq(Task) /\ Len(q) \in Nat /\ Len(p) = Len(q) + 1 /\ p[1] = t
      /\ \A i \in 1..Len(q) : p[i + 1] = q[i]
  OBVIOUS
<1>2. \A i \in 1..Len(p) : i = 1 \/ (i - 1 \in 1..Len(q) /\ p[i] = q[i - 1])
  <2> SUFFICES ASSUME NEW i \in 1..Len(p), i # 1
               PROVE  i - 1 \in 1..Len(q) /\ p[i] = q[i - 1]
    OBVIOUS
  <2>1. i - 1 \in 1..Len(q) /\ (i - 1) + 1 = i
    BY <1>1
  <2> QED BY <1>1, <2>1
<1> HIDE DEF p
<1>3. Single(p)
  <2> SUFFICES ASSUME NEW i \in 1..Len(p), NEW j \in 1..Len(p), p[i].kind = p[j].kind,
                      p[i].sock = p[j].sock, p[i].kind \in {"register", "flush"}
               PROVE  i = j
    BY DEF Single
  <2>1. i # 1 /\ j # 1
    BY <1>1
  <2>2. i - 1 = j - 1
    BY <1>2, <2>1 DEF Single
  <2> QED BY <2>2
<1>4. \A i \in 1..Len(p) : p[i] = t \/ \E j \in 1..Len(q) : p[i] = q[j]
  BY <1>1, <1>2
<1> QED BY <1>1, <1>3, <1>4 DEF p

(* The predecessor's state, not yet settled, goes to the successor: what it *)
(* counted and did not report, and of its budget what the account told.    *)
LEMMA HandOver ==
  ASSUME TypeOK, NEW p \in Sock, NEW a \in Reply
  PROVE  LET m == Carried(p, a)
         IN  /\ m \in Meter /\ ~ m.settled /\ ~ m.flushQueued
             /\ m.consumed = meter[p].consumed /\ m.messages = meter[p].messages
             /\ m.budget \in Nat /\ m.budget <= meter[p].budget
             /\ a.carried # p => m.budget = 0
             /\ m.budget = 0 \/ m.budget + m.consumed <= a.credits
<1> DEFINE m == Carried(p, a)
           b == IF a.carried = p
                THEN Smaller(meter[p].budget, Less(a.credits, meter[p].consumed)) ELSE 0
<1>1. /\ meter[p].budget \in Nat /\ meter[p].consumed \in Nat /\ meter[p].messages \in Nat
      /\ a.credits \in Nat
  BY CountsNat DEF Reply
<1>2. /\ b \in Nat /\ b <= meter[p].budget /\ (a.carried # p => b = 0)
      /\ b = 0 \/ b + meter[p].consumed <= a.credits
  BY <1>1 DEF Smaller, Less
<1>3. m = [newMetering EXCEPT !.budget = b, !.consumed = meter[p].consumed,
                              !.messages = meter[p].messages]
  BY DEF Carried
<1> HIDE DEF b, m
<1>4. /\ m \in Meter /\ ~ m.settled /\ ~ m.flushQueued /\ m.budget = b
      /\ m.consumed = meter[p].consumed /\ m.messages = meter[p].messages
  BY <1>1, <1>2, <1>3 DEF newMetering, Meter
<1> QED BY <1>2, <1>4 DEF m

(* The registration published: it alone serves, owes what its predecessor  *)
(* owed, and holds what the lease of the entry covers.                     *)
LEMMA RegisteredKeeps ==
  ASSUME Inv, Registered
  PROVE  Inv'
<1>1. /\ TypeOK /\ OneServes /\ OneReports /\ Queued /\ Calling /\ Lapsing /\ HandedOver
      /\ Backed /\ NeverOverbilled /\ Owned(ledger) /\ ledger.config \in Configs
  BY DEF Inv
<1>2. /\ rpc # NoCall /\ rpc.kind = "authorize" /\ rpc.reply # Unserved /\ rpc.reply.ok
  BY DEF Registered, Answered
<1>3. PICK s, g, a, hands, m, flush :
        /\ s = task.sock /\ g = metering /\ a = rpc.reply
        /\ hands = (metering # None /\ ~ meter[metering].settled)
        /\ m = IF hands THEN Carried(g, a) ELSE newMetering
        /\ flush = (s \in up /\ WantsFlush(m))
  OBVIOUS
<1>4. /\ queue # << >> /\ rpc.sock = s /\ task.kind = "register" /\ task \in Task /\ s \in Sock
      /\ a \in Reply /\ a.credits \in Nat /\ a.ok
  <2>1. queue # << >> /\ rpc.sock = s /\ task.kind = "register"
    BY <1>1, <1>2, <1>3 DEF Calling
  <2>2. task \in Task /\ task.sock \in Sock
    BY <1>1, <2>1, HeadType
  <2>3. a \in Reply
    BY <1>1, <1>2, <1>3 DEF TypeOK, Call
  <2> QED BY <1>2, <1>3, <2>1, <2>2, <2>3 DEF Reply
<1>5. conn[s] = "accepted" /\ meter[s] = newMetering /\ g # s /\ g \in Sock \cup {None}
  <2>1. TaskOK(task)
    BY <1>1, <1>4, TailOf DEF TypeOK, Queued, task
  <2>2. conn[s] = "accepted"
    BY <1>3, <1>4, <2>1 DEF TaskOK
  <2> QED BY <1>1, <1>3, <1>4, <2>2 DEF OneServes, TypeOK
<1>6. hands => g \in Sock /\ ~ meter[g].settled
  BY <1>3, <1>5
<1>7. ~ hands => g = None \/ (g \in Sock /\ meter[g].settled)
  BY <1>3, <1>5
<1>8. /\ m \in Meter /\ ~ m.settled /\ ~ m.flushQueued
      /\ m.budget \in Nat /\ m.consumed \in Nat /\ m.messages \in Nat
      /\ hands => /\ m.consumed = meter[g].consumed /\ m.messages = meter[g].messages
                  /\ a.carried # g => m.budget = 0
                  /\ m.budget = 0 \/ m.budget + m.consumed <= a.credits
      /\ ~ hands => m.budget = 0 /\ m.consumed = 0 /\ m.messages = 0
  <2>1. CASE hands
    <3>1. m = Carried(g, a) /\ g \in Sock
      BY <1>3, <1>6, <2>1
    <3>2. /\ m \in Meter /\ ~ m.settled /\ ~ m.flushQueued
          /\ m.consumed = meter[g].consumed /\ m.messages = meter[g].messages
          /\ a.carried # g => m.budget = 0
          /\ m.budget = 0 \/ m.budget + m.consumed <= a.credits
      BY <1>1, <1>4, <3>1, HandOver
    <3>3. m.budget \in Nat /\ m.consumed \in Nat /\ m.messages \in Nat
      BY <3>2 DEF Meter
    <3> QED BY <2>1, <3>2, <3>3
  <2>2. CASE ~ hands
    <3>1. m = newMetering
      BY <1>3, <2>2
    <3> QED BY <2>2, <3>1 DEF newMetering, Meter
  <2> QED BY <2>1, <2>2
<1>9. PICK x : x = [m EXCEPT !.flushQueued = flush, !.active = s \in up]
  OBVIOUS
<1>10. /\ x \in Meter /\ ~ x.settled /\ x.flushQueued = flush
       /\ x.budget = m.budget /\ x.consumed = m.consumed /\ x.messages = m.messages
  <2>1. flush \in BOOLEAN /\ (s \in up) \in BOOLEAN
    BY <1>3
  <2> QED BY <1>8, <1>9, <2>1 DEF Meter
<1>11. /\ conn' = [o \in Sock |-> IF o = s THEN IF s \in up THEN "registered" ELSE "closed"
                                  ELSE IF conn[o] = "registered" THEN "superseded" ELSE conn[o]]
       /\ up' \subseteq up /\ metering' = s
       /\ meter' = [[p \in Sock |->
                       IF hands /\ p = g
                       THEN [meter[p] EXCEPT !.active = FALSE, !.settled = TRUE, !.budget = 0,
                                             !.consumed = 0, !.messages = 0]
                       ELSE meter[p]] EXCEPT ![s] = x]
       /\ queue' = IF s \notin up THEN <<TaskOf("settle", s, 0)>> \o Tail(queue)
                   ELSE IF flush THEN Append(Tail(queue), Batch(s, m)) ELSE Tail(queue)
       /\ rpc' = NoCall
       /\ void' = [void EXCEPT ![s] = IF ~ hands THEN 0
                                      ELSE IF a.carried = g THEN void[g] ELSE m.consumed]
       /\ UNCHANGED <<ledger, now, late, spent, incurred>>
  BY <1>3, <1>9 DEF Registered, Ordered
<1>12. /\ conn' \in [Sock -> {"none", "accepted", "registered", "superseded", "closed"}]
       /\ conn'[s] = IF s \in up THEN "registered" ELSE "closed"
       /\ \A o \in Sock : o # s =>
            conn'[o] = IF conn[o] = "registered" THEN "superseded" ELSE conn[o]
  <2>1. conn \in [Sock -> {"none", "accepted", "registered", "superseded", "closed"}]
    BY <1>1 DEF TypeOK
  <2> QED BY <1>4, <1>11, <2>1
<1>13. /\ meter'[s] = x /\ meter' \in [Sock -> Meter]
       /\ \A o \in Sock : o # s /\ ~ (hands /\ o = g) => meter'[o] = meter[o]
       /\ hands => /\ meter'[g].settled /\ meter'[g].budget = 0 /\ meter'[g].consumed = 0
                   /\ meter'[g].messages = 0 /\ meter'[g].flushQueued = meter[g].flushQueued
  <2>1. \A p \in Sock : meter[p] \in Meter
    BY <1>1 DEF TypeOK
  <2> DEFINE off(y) == [y EXCEPT !.active = FALSE, !.settled = TRUE, !.budget = 0,
                                 !.consumed = 0, !.messages = 0]
  <2>2. \A y \in Meter : /\ off(y) \in Meter /\ off(y).settled /\ off(y).budget = 0
                         /\ off(y).consumed = 0 /\ off(y).messages = 0
                         /\ off(y).flushQueued = y.flushQueued
    BY DEF Meter
  <2>3. meter' = [[p \in Sock |-> IF hands /\ p = g THEN off(meter[p]) ELSE meter[p]]
                    EXCEPT ![s] = x]
    BY <1>11
  <2> HIDE DEF off
  <2>4. /\ meter'[s] = x
        /\ \A o \in Sock : o # s => meter'[o] = IF hands /\ o = g THEN off(meter[o]) ELSE meter[o]
        /\ meter' = [p \in Sock |-> meter'[p]]
    BY <1>4, <2>3
  <2>5. \A o \in Sock : meter'[o] \in Meter
    BY <1>10, <2>1, <2>2, <2>4
  <2>6. meter' \in [Sock -> Meter]
    BY <2>4, <2>5
  <2>7. hands => /\ meter'[g].settled /\ meter'[g].budget = 0 /\ meter'[g].consumed = 0
                 /\ meter'[g].messages = 0 /\ meter'[g].flushQueued = meter[g].flushQueued
    BY <1>5, <1>6, <2>1, <2>2, <2>4
  <2> QED BY <2>4, <2>6, <2>7
<1>14. /\ queue' \in Seq(Task) /\ Single(queue')
       /\ \A i \in 1..Len(queue') :
            \/ /\ \E j \in 1..Len(queue) : queue'[i] = queue[j]
               /\ queue'[i].sock # s
            \/ /\ queue'[i].sock = s
               /\ \/ queue'[i].kind = "settle" /\ s \notin up
                  \/ queue'[i].kind = "flush" /\ s \in up /\ flush /\ queue'[i].n <= m.messages
  <2> DEFINE q == Tail(queue)
  <2>1. /\ q \in Seq(Task) /\ Single(q)
        /\ \A i \in 1..Len(q) : (\E j \in 1..Len(queue) : q[i] = queue[j])
        /\ \A i \in 1..Len(q) : q[i].sock = s => q[i].kind # "register"
    BY <1>1, <1>3, <1>4, TailOf DEF TypeOK, Queued, task
  <2> HIDE DEF q
  <2>2. \A i \in 1..Len(q) : q[i].sock # s
    <3> SUFFICES ASSUME NEW i \in 1..Len(q), q[i].sock = s PROVE FALSE
      OBVIOUS
    <3>1. TaskOK(q[i])
      BY <1>1, <2>1 DEF Queued
    <3> QED BY <1>5, <2>1, <3>1 DEF TaskOK
  <2>3. CASE s \notin up
    <3> DEFINE t == TaskOf("settle", s, 0)
    <3>1. t \in Task /\ t.kind = "settle" /\ t.sock = s
      BY <1>4 DEF TaskOf, Task
    <3>2. queue' = <<t>> \o q
      BY <1>11, <2>3 DEF q
    <3> HIDE DEF t
    <3>3. /\ queue' \in Seq(Task) /\ Single(queue')
          /\ \A i \in 1..Len(queue') : queue'[i] = t \/ \E j \in 1..Len(q) : queue'[i] = q[j]
      BY <2>1, <3>1, <3>2, PrependOf
    <3> QED BY <2>1, <2>2, <2>3, <3>1, <3>3
  <2>4. CASE s \in up /\ flush
    <3> DEFINE t == Batch(s, m)
    <3>1. t \in Task /\ t.kind = "flush" /\ t.sock = s /\ t.n <= m.messages
      BY <1>4, <1>8, MeteringAssumption DEF Batch, TaskOf, Task
    <3>2. queue' = Append(q, t)
      BY <1>11, <2>4 DEF q
    <3> HIDE DEF t
    <3>3. /\ queue' \in Seq(Task) /\ Single(queue')
          /\ \A i \in 1..Len(queue') : queue'[i] = t \/ \E j \in 1..Len(q) : queue'[i] = q[j]
      BY <2>1, <2>2, <3>1, <3>2, AppendOf
    <3> QED BY <2>1, <2>2, <2>4, <3>1, <3>3
  <2>5. CASE s \in up /\ ~ flush
    <3>1. queue' = q
      BY <1>11, <2>5 DEF q
    <3> QED BY <2>1, <2>2, <3>1
  <2> QED BY <2>3, <2>4, <2>5
<1>15. void' \in [Sock -> Nat] /\ \A o \in Sock : o # s => void'[o] = void[o]
  <2>1. (IF ~ hands THEN 0 ELSE IF a.carried = g THEN void[g] ELSE m.consumed) \in Nat
    BY <1>1, <1>6, <1>8 DEF TypeOK
  <2> QED BY <1>1, <1>11, <2>1 DEF TypeOK
<1>16. TypeOK'
  BY <1>1, <1>4, <1>11, <1>12, <1>13, <1>14, <1>15 DEF TypeOK
<1>17. OneServes'
  <2>1. ASSUME NEW o \in Sock, conn'[o] = "registered" PROVE o = s
    BY <1>12, <2>1
  <2>2. ASSUME NEW o \in Sock, conn'[o] \in {"none", "accepted"}
        PROVE  meter'[o] = newMetering /\ s # o
    <3>1. o # s /\ conn[o] \in {"none", "accepted"}
      BY <1>12, <2>2
    <3>2. meter[o] = newMetering /\ g # o
      BY <1>1, <1>3, <3>1 DEF OneServes
    <3> QED BY <1>13, <3>1, <3>2
  <2> QED BY <1>11, <2>1, <2>2 DEF OneServes
<1>18. \A o \in Sock : o # s => Unreported(o)' = 0
  <2> SUFFICES ASSUME NEW o \in Sock, o # s
               PROVE  meter'[o].consumed + meter'[o].messages = 0
    BY DEF Unreported
  <2>1. CASE hands /\ o = g
    BY <1>13, <2>1
  <2>2. CASE ~ (hands /\ o = g)
    <3>1. meter'[o] = meter[o]
      BY <1>13, <2>2
    <3>2. o = g => meter[o].settled
      BY <1>5, <1>7, <2>2, MeteringAssumption
    <3>3. Unreported(o) = 0
      BY <1>1, <1>3, <3>2 DEF OneReports
    <3> QED BY <3>1, <3>3 DEF Unreported
  <2> QED BY <2>1, <2>2
<1>19. OneReports'
  <2>1. s # None
    BY <1>4, MeteringAssumption
  <2>2. ASSUME NEW o \in Sock, meter'[o].settled
        PROVE  conn'[o] \in {"superseded", "closed"} /\ Unreported(o)' = 0
    <3>1. o # s
      BY <1>10, <1>13, <2>2
    <3>2. CASE hands /\ o = g
      <4>1. conn[o] \notin {"none", "accepted"}
        BY <1>1, <1>3, <3>2 DEF OneServes
      <4>2. conn[o] \in {"registered", "superseded", "closed"}
        BY <1>1, <4>1 DEF TypeOK
      <4> QED BY <1>12, <1>18, <3>1, <4>2
    <3>3. CASE ~ (hands /\ o = g)
      <4>1. meter[o].settled
        BY <1>13, <2>2, <3>1, <3>3
      <4>2. conn[o] \in {"superseded", "closed"}
        BY <1>1, <4>1 DEF OneReports
      <4> QED BY <1>12, <1>18, <3>1, <4>2
    <3> QED BY <3>2, <3>3
  <2> QED BY <1>11, <1>18, <2>1, <2>2 DEF OneReports
<1>20. Queued'
  <2> SUFFICES ASSUME NEW i \in 1..Len(queue'), NEW q, q = queue'[i] PROVE TaskOK(q)'
    BY <1>14 DEF Queued, Single
  <2>0. \/ (\E j \in 1..Len(queue) : q = queue[j]) /\ q.sock # s
        \/ /\ q.sock = s
           /\ \/ q.kind = "settle" /\ s \notin up
              \/ q.kind = "flush" /\ s \in up /\ flush /\ q.n <= m.messages
    BY <1>14
  <2>1. CASE (\E j \in 1..Len(queue) : q = queue[j]) /\ q.sock # s
    <3>1. TaskOK(q)
      BY <1>1, <2>1 DEF Queued
    <3>2. q \in Task
      BY <1>1, <2>1 DEF TypeOK
    <3>3. q.sock \in Sock
      BY <3>2 DEF Task
    <3>4. PICK o : o = q.sock
      OBVIOUS
    <3>5. o \in Sock /\ o # s /\ conn'[o] = IF conn[o] = "registered" THEN "superseded" ELSE conn[o]
      BY <1>12, <2>1, <3>3, <3>4
    <3>6. /\ q.kind = "register" => conn'[o] = "accepted"
          /\ q.kind = "settle" => conn'[o] = "closed"
          /\ q.kind # "register" => conn'[o] \notin {"none", "accepted"}
      BY <3>1, <3>4, <3>5 DEF TaskOK
    <3>7. q.kind # "register" => meter'[o].settled
      <4>1. CASE hands /\ o = g
        BY <1>13, <4>1
      <4>2. CASE ~ (hands /\ o = g)
        <5>1. o = g => meter[o].settled
          BY <1>5, <1>7, <3>5, <4>2, MeteringAssumption
        <5>2. q.kind # "register" => meter[o].settled
          BY <1>3, <3>1, <3>4, <5>1 DEF TaskOK
        <5> QED BY <1>13, <3>5, <4>2, <5>2
      <4> QED BY <4>1, <4>2
    <3>8. q.kind = "flush" => meter'[o].flushQueued
      <4>1. q.kind = "flush" => meter[o].flushQueued
        BY <3>1, <3>4 DEF TaskOK
      <4>2. CASE hands /\ o = g
        BY <1>13, <4>1, <4>2
      <4>3. CASE ~ (hands /\ o = g)
        BY <1>13, <3>5, <4>1, <4>3
      <4> QED BY <4>2, <4>3
    <3> QED BY <3>4, <3>6, <3>7, <3>8 DEF TaskOK
  <2>2. CASE q.sock = s /\ q.kind = "settle" /\ s \notin up
    <3>1. conn'[s] = "closed" /\ metering' = s
      BY <1>11, <1>12, <2>2
    <3> QED BY <2>2, <3>1 DEF TaskOK
  <2>3. CASE q.sock = s /\ q.kind = "flush" /\ s \in up /\ flush /\ q.n <= m.messages
    <3>1. /\ conn'[s] = "registered" /\ metering' = s
          /\ meter'[s].flushQueued /\ q.n <= meter'[s].messages
      BY <1>10, <1>11, <1>12, <1>13, <2>3
    <3> QED BY <2>3, <3>1 DEF TaskOK
  <2> QED BY <2>0, <2>1, <2>2, <2>3
<1>21. Calling' /\ HandedOver'
  BY <1>11 DEF Calling, HandedOver
<1>22. late # NoCall => late.sock # s /\ late.sock \in Sock
  <2> SUFFICES ASSUME late # NoCall, late.sock = s PROVE FALSE
    BY <1>1 DEF TypeOK, Call
  <2>1. late.kind = "authorize"
    BY <1>1, <1>5 DEF Lapsing
  <2>2. rpc.reply = Refused
    BY <1>1, <1>5, <2>1 DEF Lapsing
  <2>3. ~ Refused.ok
    BY DEF Refused
  <2> QED BY <1>2, <2>2, <2>3
<1>23. Lapsing'
  <2> SUFFICES ASSUME late # NoCall PROVE Lapsing'
    BY <1>11 DEF Lapsing
  <2>1. PICK o, c : o = late.sock /\ c = late
    OBVIOUS
  <2>2. /\ late' = c /\ c.sock = o /\ o \in Sock /\ o # s
        /\ conn'[o] = IF conn[o] = "registered" THEN "superseded" ELSE conn[o]
        /\ c.reply = Unserved /\ (Asks(c) => c.commit = 0)
    BY <1>1, <1>11, <1>12, <1>22, <2>1 DEF Lapsing
  <2>3. CASE c.kind # "authorize"
    <3>1. conn'[o] \notin {"none", "accepted"}
      BY <1>1, <2>1, <2>2, <2>3 DEF Lapsing
    <3> QED BY <2>2, <2>3, <3>1 DEF Lapsing
  <2>4. CASE c.kind = "authorize"
    <3>1. /\ meter[o] = newMetering /\ g # o
          /\ conn[o] \in {"accepted", "closed"}
          /\ conn[o] = "accepted" => rpc.sock = o
          /\ \A i \in 1..Len(queue) : queue[i].sock = o => queue[i].kind = "register"
      BY <1>1, <1>3, <2>1, <2>4 DEF Lapsing
    <3>2. conn'[o] = "closed" /\ meter'[o] = newMetering /\ metering' # o
      BY <1>4, <1>11, <1>13, <2>2, <3>1
    <3>3. \A i \in 1..Len(queue') : queue'[i].sock = o => queue'[i].kind = "register"
      BY <1>14, <2>2, <3>1
    <3> QED BY <2>2, <2>4, <3>2, <3>3 DEF Lapsing
  <2> QED BY <2>3, <2>4
<1>24. Backed'
  <2> SUFFICES ASSUME Id \in ledger.open, NEW r, r = ledger.entry[Id].regId
               PROVE  Claims(r)' <= ledger.entry[Id].lease + void'[r]
    BY <1>11 DEF Backed
  <2>1. r \in Sock /\ Claims(r) <= ledger.entry[Id].lease + void[r]
    BY <1>1 DEF Backed, Owned
  <2>2. /\ meter[r].budget \in Nat /\ meter[r].consumed \in Nat /\ void[r] \in Nat
        /\ Pending(rpc, r) \in Nat /\ Pending(late, r) \in Nat /\ ledger.entry[Id].lease \in Nat
    BY <1>1, <2>1, CountsNat
  <2>3. Pending(rpc, r)' = 0 /\ Pending(late, r)' = Pending(late, r)
    BY <1>11 DEF Pending, Reporting, Granting
  <2>4. Claims(r)' = meter'[r].budget + meter'[r].consumed + 0 + Pending(late, r)
    BY <2>3 DEF Claims
  <2>5. CASE r = s
    <3>1. Pending(late, r) = 0
      BY <1>22, <2>5 DEF Pending
    <3>2. /\ ledger.entry[Id].lease = a.credits
          /\ a.carried \in Sock =>
               meter[a.carried].budget + meter[a.carried].consumed <= a.credits + void[a.carried]
      BY <1>1, <1>2, <1>3, <1>4, <2>5 DEF HandedOver
    <3>3. void'[s] = IF ~ hands THEN 0 ELSE IF a.carried = g THEN void[g] ELSE m.consumed
      BY <1>1, <1>4, <1>11 DEF TypeOK
    <3>4. m.budget + m.consumed <= a.credits + void'[s]
      <4>1. CASE ~ hands
        BY <1>4, <1>8, <3>3, <4>1
      <4>2. CASE hands /\ a.carried = g
        <5>1. /\ meter[g].budget \in Nat /\ meter[g].consumed \in Nat /\ void[g] \in Nat
          BY <1>1, <1>6, <4>2, CountsNat
        <5>2. meter[g].budget + meter[g].consumed <= a.credits + void[g]
          BY <1>6, <3>2, <4>2
        <5>3. void'[s] = void[g] /\ m.consumed = meter[g].consumed /\ m.budget \in Nat
              /\ (m.budget = 0 \/ m.budget + m.consumed <= a.credits)
          BY <1>8, <3>3, <4>2
        <5> QED BY <1>4, <5>1, <5>2, <5>3
      <4>3. CASE hands /\ a.carried # g
        BY <1>4, <1>8, <3>3, <4>3
      <4> QED BY <4>1, <4>2, <4>3
    <3>5. meter'[r].budget = m.budget /\ meter'[r].consumed = m.consumed
      BY <1>10, <1>13, <2>5
    <3> QED BY <1>8, <2>4, <2>5, <3>1, <3>2, <3>4, <3>5
  <2>6. CASE r # s
    <3>1. /\ meter'[r].budget \in Nat /\ meter'[r].consumed \in Nat
          /\ meter'[r].budget <= meter[r].budget /\ meter'[r].consumed <= meter[r].consumed
      <4>1. CASE hands /\ r = g
        BY <1>13, <2>2, <4>1
      <4>2. CASE ~ (hands /\ r = g)
        BY <1>13, <2>1, <2>2, <2>6, <4>2
      <4> QED BY <4>1, <4>2
    <3>2. void'[r] = void[r]
      BY <1>15, <2>1, <2>6
    <3> QED BY <2>1, <2>2, <2>4, <3>1, <3>2 DEF Claims
  <2> QED BY <2>5, <2>6
<1>25. NeverOverbilled'
  <2>1. Reporting(rpc)' = 0 /\ Reporting(late)' = Reporting(late)
    BY <1>11 DEF Reporting
  <2>2. \A p \in Sock : ledger.dayUsed + Reporting(rpc) + Reporting(late) + Unreported(p) <= incurred
    BY <1>1 DEF NeverOverbilled
  <2>3. \E p \in Sock : Unreported(s)' <= Unreported(p)
    <3>1. Unreported(s)' = m.consumed + m.messages
      BY <1>10, <1>13 DEF Unreported
    <3>2. CASE hands
      BY <1>6, <1>8, <3>1, <3>2 DEF Unreported
    <3>3. CASE ~ hands
      <4>1. Unreported(s)' = 0 /\ Unreported(s) \in Nat
        BY <1>1, <1>4, <1>8, <3>1, <3>3, CountsNat
      <4> QED BY <1>4, <4>1
    <3> QED BY <3>2, <3>3
  <2>4. Unreported(s)' \in Nat
    BY <1>8, <1>10, <1>13 DEF Unreported
  <2>5. ASSUME NEW o \in Sock
        PROVE  ledger.dayUsed + 0 + Reporting(late) + Unreported(o)' <= incurred
    <3>1. PICK p \in Sock : Unreported(o)' <= Unreported(p)
      <4>1. CASE o = s
        BY <2>3, <4>1
      <4>2. CASE o # s
        <5>1. Unreported(o)' = 0 /\ Unreported(o) \in Nat
          BY <1>1, <1>18, <2>5, <4>2, CountsNat
        <5> QED BY <5>1
      <4> QED BY <4>1, <4>2
    <3>2. Unreported(o)' \in Nat
      BY <1>18, <2>4
    <3> QED BY <1>1, <2>2, <3>1, <3>2, CountsNat
  <2>6. \A p, q \in Sock : Unreported(p)' > 0 /\ Unreported(q)' > 0 => p = q
    BY <1>18
  <2> QED BY <1>11, <2>1, <2>5, <2>6 DEF NeverOverbilled
<1> QED
  BY <1>1, <1>11, <1>16, <1>17, <1>19, <1>20, <1>21, <1>23, <1>24, <1>25 DEF Inv

--------------------------------------------------------------------------
(* The theorems                                                            *)

(* A tunnel without connections meets the invariant.                       *)
LEMMA InitKeeps ==
  ASSUME Init
  PROVE  Inv
<1>1. /\ now = Ttl + 1 /\ conn = [s \in Sock |-> "none"] /\ up = {} /\ metering = None
      /\ meter = [s \in Sock |-> newMetering] /\ queue = << >> /\ rpc = NoCall /\ late = NoCall
      /\ spent = 0 /\ incurred = 0 /\ void = [s \in Sock |-> 0]
  BY DEF Init
<1>2. PICK c \in Configs : ledger = [EmptyLedger(Ttl + 1) EXCEPT !.config = c]
  BY DEF Init
<1>3. Ttl + 1 \in Nat
  BY LedgerAssumption
<1>4. EmptyLedger(Ttl + 1) \in LedgerType
  BY <1>3, EmptyType
<1>5. /\ ledger \in LedgerType /\ ledger.config = c /\ ledger.open = {} /\ ledger.dayUsed = 0
      /\ ledger.entry[Id] = NoEntry
  <2>1. /\ EmptyLedger(Ttl + 1).open = {} /\ EmptyLedger(Ttl + 1).dayUsed = 0
        /\ EmptyLedger(Ttl + 1).entry[Id] = NoEntry
    BY MeteringAssumption DEF EmptyLedger
  <2>2. PICK L : L = EmptyLedger(Ttl + 1)
    OBVIOUS
  <2> QED BY <1>2, <1>4, <2>1, <2>2 DEF LedgerType
<1>6. newMetering \in Meter /\ newMetering.settled = FALSE
      /\ newMetering.consumed = 0 /\ newMetering.messages = 0
  BY DEF newMetering, Meter
<1>7. TypeOK
  BY <1>1, <1>3, <1>5, <1>6 DEF TypeOK
<1>8. ledger.config \in Configs /\ Owned(ledger) /\ Backed
  BY <1>5 DEF Owned, Backed
<1>9. OneServes /\ OneReports
  BY <1>1, <1>6, MeteringAssumption DEF OneServes, OneReports, Unreported
<1>10. Queued /\ Calling /\ Lapsing /\ HandedOver
  BY <1>1 DEF Queued, Single, Calling, Lapsing, HandedOver
<1>11. NeverOverbilled
  BY <1>1, <1>5, <1>6 DEF NeverOverbilled, Unreported, Reporting
<1> QED BY <1>7, <1>8, <1>9, <1>10, <1>11 DEF Inv

(* Every step keeps it.                                                    *)
LEMMA StepKeeps ==
  ASSUME Inv, [Next]_vars
  PROVE  Inv'
<1>1. CASE UNCHANGED vars
  <2>1. UNCHANGED <<ledger, conn, metering, meter, queue, rpc, late, spent, incurred, void, now, up>>
    BY <1>1 DEF vars
  <2>2. TypeOK'
    BY <2>1 DEF Inv, TypeOK
  <2>3. OneServes' /\ Queued' /\ Calling' /\ Lapsing' /\ HandedOver'
    BY <2>1 DEF Inv, OneServes, Queued, Calling, Lapsing, HandedOver, TaskOK, task, me
  <2>4. OneReports' /\ Backed' /\ NeverOverbilled' /\ ledger'.config \in Configs /\ Owned(ledger')
    BY <2>1 DEF Inv, OneReports, Backed, NeverOverbilled, Unreported, Claims
  <2> QED BY <2>2, <2>3, <2>4 DEF Inv
<1>2. ASSUME NEW s \in Sock, Connect(s) PROVE Inv'
  BY <1>2, ConnectKeeps
<1>3. ASSUME NEW s \in Sock, Drop(s) PROVE Inv'
  BY <1>3, TickKeeps
<1>4. ASSUME NEW s \in Sock,
             Request(s) \/ BrowserFrame(s) \/ ControlFrame(s) \/ webSocketClose(s)
      PROVE  Inv'
  BY <1>4, TrafficSteps
<1>5. CASE Chain
  <2>1. HeadStep \/ Register \/ Rejected \/ Registered
    BY <1>5 DEF Chain, HeadStep
  <2> QED BY <2>1, HeadKeeps, RegisterKeeps, RegisteredKeeps
<1>6. CASE Serve
  BY <1>6, ServeKeeps
<1>7. CASE Timeout
  BY <1>7, TimeoutKeeps
<1>8. CASE ServeLate
  BY <1>8, ServeLateKeeps
<1>9. CASE Hibernate
  BY <1>9, HibernateKeeps
<1>10. CASE Tick
  BY <1>10, TickKeeps
<1> QED BY <1>1, <1>2, <1>3, <1>4, <1>5, <1>6, <1>7, <1>8, <1>9, <1>10 DEF Next

(* The books, the queue and the calls are well formed, one registration    *)
(* serves at a time and one has something to report.                       *)
THEOREM InvHolds == Spec => []Inv
<1>1. Init => Inv
  BY InitKeeps
<1>2. Inv /\ [Next]_vars => Inv'
  BY StepKeeps
<1> QED BY <1>1, <1>2, PTL DEF Spec

(* Every variable keeps its type.                                          *)
THEOREM TypeCorrect == Spec => []TypeOK
<1>1. Inv => TypeOK
  BY DEF Inv
<1> QED BY <1>1, InvHolds, PTL

(* What the registration that has the entry can still spend, spent and has *)
(* yet to report is covered by the lease of the entry, but for what it     *)
(* counted of a lease that was reaped: for every number of connections and *)
(* every pattern of lost, late and repeated calls and of evictions.        *)
THEOREM LeaseBacked == Spec => []Backed
<1>1. Inv => Backed
  BY DEF Inv
<1> QED BY <1>1, InvHolds, PTL

(* No credit is billed twice: what is billed, on its way and owed never    *)
(* exceeds the operations charged or delivered.                            *)
THEOREM BilledOnce == Spec => []NeverOverbilled
<1>1. Inv => NeverOverbilled
  BY DEF Inv
<1> QED BY <1>1, InvHolds, PTL
==========================================================================

---------------------------- MODULE LedgerOps ----------------------------
(* The state of one AccountDO and what each of its handlers does to it     *)
(* (src/server-cf/src/account-do.ts), as operators on a ledger record.     *)
(* AccountLedger turns them into the actions of one account;               *)
(* TunnelMetering calls the same operators from the tunnel's side.         *)
EXTENDS LeaseTotals, FiniteSets

CONSTANTS
  NTunnels,      \* the tunnel ids of the account are 1..NTunnels
  Regs,          \* registration nonces (regId)
  Blank,         \* the empty regId of an entry stored before nonces existed
  Hashes,        \* hashes of api tokens
  LegacySecret,  \* the credential of a register that presented TUNNEL_SECRET
  Configs,       \* the configurations the registry may push
  NoAccount,     \* no configuration yet
  BuiltIn,       \* what the internal account provisions itself with, else NoAccount
  Ttl,           \* OPEN_REAP_TTL_MS, in clock ticks
  DayLen,        \* ticks per UTC day
  MonthLen       \* ticks per UTC month

Tunnel == 1..NTunnels

ConfigType ==
  [active : BOOLEAN, dayLimit : Nat, monthLimit : Nat, concurrentMax : Nat,
   leaseChunk : Nat, reservedMax : Nat]

ASSUME LedgerAssumption ==
  /\ NTunnels \in Nat /\ Ttl \in Nat
  /\ DayLen \in Nat \ {0} /\ MonthLen \in Nat \ {0} /\ MonthLen % DayLen = 0
  /\ Configs # {} /\ Configs \subseteq ConfigType /\ NoAccount \notin Configs
  /\ BuiltIn \in Configs \cup {NoAccount}
  /\ Blank \notin Regs /\ LegacySecret \notin Hashes

--------------------------------------------------------------------------
(* One ledger: the configuration and token hashes pushed by the registry,  *)
(* the usage record, and the open tunnels with their entries.              *)

Entry == [lease : Nat, regId : Regs \cup {Blank}, seen : Nat]
NoEntry == [lease |-> 0, regId |-> Blank, seen |-> 0]

LedgerType ==
  [config : Configs \cup {NoAccount}, hashes : SUBSET Hashes,
   day : Nat, month : Nat, dayUsed : Nat, monthUsed : Nat, leased : Nat,
   open : SUBSET Tunnel, entry : [Tunnel -> Entry], reserved : SUBSET Tunnel]

DayKey(now) == now \div DayLen
MonthKey(now) == now \div MonthLen

EmptyLedger(now) ==
  [config |-> NoAccount, hashes |-> {},
   day |-> DayKey(now), month |-> MonthKey(now),
   dayUsed |-> 0, monthUsed |-> 0, leased |-> 0,
   open |-> {}, entry |-> [t \in Tunnel |-> NoEntry], reserved |-> {}]

\* Math.max(0, a - b)
Less(a, b) == IF a > b THEN a - b ELSE 0

Smaller(a, b) == IF a < b THEN a ELSE b

Leases(entry) == [t \in Tunnel |-> entry[t].lease]

\* rollPeriods: leases and open tunnels carry over a day or month boundary.
Roll(L, now) ==
  [L EXCEPT !.day = DayKey(now),
            !.dayUsed = IF L.day = DayKey(now) THEN @ ELSE 0,
            !.month = MonthKey(now),
            !.monthUsed = IF L.month = MonthKey(now) THEN @ ELSE 0]

Expired(L, now) == {t \in L.open : now - L.entry[t].seen > Ttl}

\* Mutant: a reap that forgets the refund.
ReapNoRefund(L, now) ==
  LET dead == Expired(L, now)
  IN  [L EXCEPT !.open = @ \ dead,
                !.entry = [t \in Tunnel |-> IF t \in dead THEN NoEntry ELSE L.entry[t]]]

\* reap: forget the tunnels not heard of for more than Ttl, refund their leases.
Reap(L, now) ==
  LET dead == Expired(L, now)
      lost == Total([t \in Tunnel |-> IF t \in dead THEN L.entry[t].lease ELSE 0], NTunnels)
  IN  [L EXCEPT !.open = @ \ dead,
                !.entry = [t \in Tunnel |-> IF t \in dead THEN NoEntry ELSE L.entry[t]],
                !.leased = Less(@, lost)]

\* Mutant: periods rolled, dead tunnels never reaped.
FreshNoReap(L, now) == Roll(L, now)

Fresh(L, now) == Reap(Roll(L, now), now)

\* Mutant: outstanding leases not counted against the day.
DayRemainingUnleased(L) == IF L.config = NoAccount THEN 0 ELSE L.config.dayLimit - L.dayUsed

DayRemaining(L) ==
  IF L.config = NoAccount THEN 0 ELSE L.config.dayLimit - L.dayUsed - L.leased
MonthRemaining(L) ==
  IF L.config = NoAccount THEN 0 ELSE L.config.monthLimit - L.monthUsed - L.leased

Owns(L, t, r) == /\ t \in L.open
                 /\ L.entry[t].regId = Blank \/ r = Blank \/ L.entry[t].regId = r

\* Mutant: a commit not capped by the lease.
CommitUncapped(L, t, consumed) ==
  [L EXCEPT !.entry[t].lease = @ - consumed,
            !.leased = Less(@, consumed),
            !.dayUsed = @ + consumed,
            !.monthUsed = @ + consumed]

\* Mutant: the whole consumption is counted as used, what the lease lacks too.
CommitUsesAll(L, t, consumed) ==
  LET c == Smaller(consumed, L.entry[t].lease)
  IN  [L EXCEPT !.entry[t].lease = @ - c,
                !.leased = Less(@, c),
                !.dayUsed = @ + consumed,
                !.monthUsed = @ + consumed]

\* applyCommit: consumed credits move from leased to used, at most the lease.
Commit(L, t, consumed) ==
  LET c == Smaller(consumed, L.entry[t].lease)
  IN  [L EXCEPT !.entry[t].lease = @ - c,
                !.leased = Less(@, c),
                !.dayUsed = @ + c,
                !.monthUsed = @ + c]

--------------------------------------------------------------------------
(* /authorize                                                              *)

\* ensureBootstrap: only the internal account provisions itself.
Booted(L) == IF L.config = NoAccount THEN [L EXCEPT !.config = BuiltIn] ELSE L

\* The checks made before the ledger is touched.
Accepts(L, cred) == /\ L.config # NoAccount
                    /\ L.config.active
                    /\ cred = LegacySecret \/ cred \in L.hashes

\* The checks made on the rolled and reaped ledger.
Admits(L, t) ==
  /\ t \in L.open \/ Cardinality(L.open) < L.config.concurrentMax
  /\ DayRemaining(L) > 0 /\ MonthRemaining(L) > 0
  /\ \/ L.config.reservedMax = 0
     \/ t \in L.reserved
     \/ Cardinality(L.reserved) < L.config.reservedMax

\* Mutant: a replacement keeps the nonce of its predecessor.
AdmittedOldNonce(L, t, r, now) ==
  [L EXCEPT !.open = @ \cup {t},
            !.entry[t] = [lease |-> L.entry[t].lease,
                          regId |-> IF t \in L.open THEN L.entry[t].regId ELSE r,
                          seen |-> now],
            !.reserved = @ \cup {t}]

\* A replacement keeps the outstanding lease and takes over the nonce.
Admitted(L, t, r, now) ==
  [L EXCEPT !.open = @ \cup {t},
            !.entry[t] = [lease |-> L.entry[t].lease, regId |-> r, seen |-> now],
            !.reserved = @ \cup {t}]

--------------------------------------------------------------------------
(* /lease by the owner, on the rolled and reaped ledger                    *)

MayLease(L, t, r) == L.config # NoAccount /\ Owns(L, t, r)

\* Mutant: the monthly window not looked at.
GrantByDay(L, want) ==
  LET most == Smaller(want, Smaller(L.config.leaseChunk, DayRemaining(L)))
  IN  IF most > 0 THEN most ELSE 0

\* Math.min(want, leaseChunk, headroom), never negative
Grant(L, want) ==
  LET room == Smaller(DayRemaining(L), MonthRemaining(L))
      most == Smaller(want, Smaller(L.config.leaseChunk, room))
  IN  IF most > 0 THEN most ELSE 0

Leased(L, t, want, consumed, now) ==
  LET paid == Commit(L, t, consumed)
      g == Grant(paid, want)
  IN  [paid EXCEPT !.entry[t].lease = @ + g,
                   !.entry[t].seen = now,
                   !.leased = @ + g]

\* What the caller is granted.
LeaseGrant(L, t, want, consumed) == Grant(Commit(L, t, consumed), want)

--------------------------------------------------------------------------
(* /close by the owner, on the rolled ledger: commit, then refund the rest. *)
(* Seconds of connection cost nothing (CREDIT_WEIGHTS.second = 0).         *)
Closed(L, t, consumed) ==
  LET paid == Commit(L, t, consumed)
  IN  [paid EXCEPT !.open = @ \ {t},
                   !.entry[t] = NoEntry,
                   !.leased = Less(@, paid.entry[t].lease)]

--------------------------------------------------------------------------
(* The durable copy: each storage key is put separately.                   *)

PutOpen(D, L) == [D EXCEPT !.open = L.open, !.entry = L.entry]
PutUsage(D, L) ==
  [D EXCEPT !.day = L.day, !.month = L.month, !.dayUsed = L.dayUsed,
            !.monthUsed = L.monthUsed, !.leased = L.leased]
PutReserved(D, L) == [D EXCEPT !.reserved = L.reserved]
PutConfig(D, L) == [D EXCEPT !.config = L.config]

--------------------------------------------------------------------------
(* What the properties say of a ledger.                                    *)

LeaseSum(L) == L.leased = Total(Leases(L.entry), NTunnels)

DebitWithin(L) ==
  /\ \E c \in Configs : L.dayUsed + L.leased <= c.dayLimit
  /\ \E c \in Configs : L.monthUsed + L.leased <= c.monthLimit
==========================================================================

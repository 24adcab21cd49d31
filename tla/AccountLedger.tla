-------------------------- MODULE AccountLedger --------------------------
(* One AccountDO (src/server-cf/src/account-do.ts): the credit counters,   *)
(* the open-tunnel set and the lease ledger of an account, called by the   *)
(* TunnelDOs of its tunnels and configured by the RegistryDO.              *)
(*                                                                         *)
(* A handler runs alone: while it awaits storage the runtime delivers no   *)
(* event to the object.  Only ensureBootstrap awaits another object, after *)
(* it has set the configuration: it is a step of its own, and the rest of  *)
(* that /authorize a later one.  What a handler leaves in memory and what  *)
(* it puts in storage are separate, `mem` and `disk`, because the object   *)
(* is evicted when idle and then reloads only what was put.  A handler     *)
(* that makes two puts may also crash between them, before it answers.     *)
EXTENDS LedgerOps

CONSTANTS
  Wants,        \* the sizes of lease a caller asks for
  Consumptions, \* the consumption a caller reports in one call
  LegacyLeases, \* leases of entries stored in the old shape (a bare number)
  MaxNow,       \* bound on the clock
  MaxLease,     \* bound on the outstanding lease of one tunnel
  MayEvict,     \* whether the object can be evicted
  MayTear       \* whether it can crash between two puts of a handler

ASSUME AccountAssumption ==
  /\ Wants \subseteq Nat /\ Consumptions \subseteq Nat /\ LegacyLeases \subseteq Nat
  /\ MaxNow \in Nat /\ MaxLease \in Nat /\ MayEvict \in BOOLEAN /\ MayTear \in BOOLEAN

VARIABLES
  now,   \* wall clock
  mem,   \* the object's fields
  disk,  \* its storage
  gone   \* tunnels whose TunnelDO vanished without a close

vars == <<now, mem, disk, gone>>

--------------------------------------------------------------------------
(* The clock starts past the ttl: an entry of the old shape has seen = 0,  *)
(* the epoch.                                                              *)

StoredLegacy(L, t, n, c) ==
  [L EXCEPT !.config = c, !.open = {t}, !.leased = n,
            !.entry[t] = [lease |-> n, regId |-> Blank, seen |-> 0]]

Init ==
  /\ now = Ttl + 1
  /\ \/ mem = EmptyLedger(Ttl + 1)
     \/ \E t \in Tunnel, n \in LegacyLeases, c \in Configs :
           n <= c.dayLimit /\ n <= c.monthLimit /\ mem = StoredLegacy(EmptyLedger(Ttl + 1), t, n, c)
  /\ disk = mem
  /\ gone = {}

Tick == /\ now < MaxNow
        /\ now' = now + 1
        /\ UNCHANGED <<mem, disk, gone>>

\* Pushed by the registry: configuration, token hashes, or both.
Configure(c, hs) ==
  /\ mem' = [mem EXCEPT !.config = c, !.hashes = hs]
  /\ disk' = [disk EXCEPT !.config = c, !.hashes = hs]
  /\ UNCHANGED <<now, gone>>

\* ensureBootstrap, of an /authorize that finds no configuration.
Bootstrap ==
  /\ Booted(mem) # mem
  /\ mem' = Booted(mem)
  /\ disk' = PutConfig(disk, mem')
  /\ UNCHANGED <<now, gone>>

\* A call that is not accepted (no configuration, a suspended account, a bad
\* token) leaves everything as it is and is no step.
Authorize(t, r, cred) ==
  LET F == Fresh(mem, now)
  IN  /\ Accepts(mem, cred)
      /\ \/ /\ Admits(F, t)
            /\ mem' = Admitted(F, t, r, now)
            /\ disk' = PutReserved(PutOpen(disk, mem'), mem')
         \/ /\ ~ Admits(F, t)
            /\ mem' = F
            /\ disk' = disk
      /\ UNCHANGED <<now, gone>>

\* The bound only matters once an eviction has lost count of a lease.
Bounded(t, want) == mem.entry[t].lease + want <= MaxLease

\* Mutant: the new lease is not put.
LeaseUsageOnly(t, r, want, consumed) ==
  LET F == Fresh(mem, now)
  IN  /\ Bounded(t, want)
      /\ mem' = IF MayLease(F, t, r) THEN Leased(F, t, want, consumed, now) ELSE F
      /\ disk' = PutUsage(disk, mem')
      /\ UNCHANGED <<now, gone>>

Lease(t, r, want, consumed) ==
  LET F == Fresh(mem, now)
  IN  /\ Bounded(t, want)
      /\ \/ /\ MayLease(F, t, r)
            /\ mem' = Leased(F, t, want, consumed, now)
            /\ disk' = PutUsage(PutOpen(disk, mem'), mem')
         \/ /\ ~ MayLease(F, t, r)
            /\ mem' = F
            /\ disk' = PutUsage(disk, mem')
      /\ UNCHANGED <<now, gone>>

\* Mutant: the final commit is not put.
CloseOpenOnly(t, r, consumed) ==
  LET R == Roll(mem, now)
  IN  /\ mem' = IF Owns(R, t, r) THEN Closed(R, t, consumed) ELSE R
      /\ disk' = PutOpen(disk, mem')
      /\ UNCHANGED <<now, gone>>

Close(t, r, consumed) ==
  LET R == Roll(mem, now)
  IN  /\ \/ /\ Owns(R, t, r)
            /\ mem' = Closed(R, t, consumed)
            /\ disk' = PutUsage(PutOpen(disk, mem'), mem')
         \/ /\ ~ Owns(R, t, r)
            /\ mem' = R
            /\ disk' = PutUsage(disk, mem')
      /\ UNCHANGED <<now, gone>>

ReleaseId(t) ==
  /\ t \in mem.reserved
  /\ mem' = [mem EXCEPT !.reserved = @ \ {t}]
  /\ disk' = PutReserved(disk, mem')
  /\ UNCHANGED <<now, gone>>

\* The dashboard's view rolls the periods in memory and puts nothing.
UsageView ==
  /\ mem' = Roll(mem, now)
  /\ UNCHANGED <<now, disk, gone>>

--------------------------------------------------------------------------
(* Faults                                                                  *)

\* Idle eviction: the constructor reloads every field from storage.
Evict ==
  /\ MayEvict
  /\ mem' = disk
  /\ UNCHANGED <<now, disk, gone>>

\* A crash after the put of `open`, before the put of `reserved` or `usage`;
\* nobody is answered.
TornAuthorize(t, r, cred) ==
  LET F == Fresh(mem, now)
  IN  /\ MayTear
      /\ Accepts(mem, cred)
      /\ Admits(F, t) /\ t \notin F.reserved
      /\ disk' = PutOpen(disk, Admitted(F, t, r, now))
      /\ mem' = disk'
      /\ UNCHANGED <<now, gone>>

TornLease(t, r, want, consumed) ==
  LET F == Fresh(mem, now)
  IN  /\ MayTear
      /\ Bounded(t, want)
      /\ MayLease(F, t, r)
      /\ disk' = PutOpen(disk, Leased(F, t, want, consumed, now))
      /\ mem' = disk'
      /\ UNCHANGED <<now, gone>>

TornClose(t, r, consumed) ==
  LET R == Roll(mem, now)
  IN  /\ MayTear
      /\ Owns(R, t, r)
      /\ disk' = PutOpen(disk, Closed(R, t, consumed))
      /\ mem' = disk'
      /\ UNCHANGED <<now, gone>>

\* A TunnelDO dies without a close and sends no more calls; another tunnel
\* of the account stays.  The bound leaves the clock room to pass the ttl.
Vanish(t) ==
  /\ t \in mem.open \ gone
  /\ Tunnel \ gone # {t}
  /\ now + Ttl < MaxNow
  /\ gone' = gone \cup {t}
  /\ UNCHANGED <<now, mem, disk>>

--------------------------------------------------------------------------
Calls(t) ==
  \/ \E r \in Regs, cred \in Hashes \cup {LegacySecret} :
        Authorize(t, r, cred) \/ TornAuthorize(t, r, cred)
  \/ \E r \in Regs, want \in Wants, c \in Consumptions :
        Lease(t, r, want, c) \/ TornLease(t, r, want, c)
  \/ \E r \in Regs, c \in Consumptions : Close(t, r, c) \/ TornClose(t, r, c)

Next ==
  \/ Tick
  \/ \E c \in Configs, hs \in SUBSET Hashes : Configure(c, hs)
  \/ \E t \in Tunnel \ gone : Calls(t)
  \/ Bootstrap
  \/ \E t \in Tunnel : ReleaseId(t) \/ Vanish(t)
  \/ UsageView
  \/ Evict

Spec == Init /\ [][Next]_vars

(* Time passes, and the connector of some tunnel that is alive keeps       *)
(* asking: one that has registered before, and was sent no fatal error,    *)
(* retries a refusal with backoff and without end (scheduleReconnect).     *)
Retry == \E t \in Tunnel \ gone, r \in Regs : Authorize(t, r, LegacySecret)

FairSpec == Spec /\ WF_vars(Tick) /\ WF_vars(Retry)

--------------------------------------------------------------------------
TypeOK ==
  /\ now \in Nat /\ gone \subseteq Tunnel
  /\ mem \in LedgerType /\ disk \in LedgerType

(* `leased` is the sum of the outstanding leases: the comment on           *)
(* Usage.leased, which every handler maintains by separate increments.     *)
LeasedIsSum == LeaseSum(mem)

(* The debited balance never passes the largest limit that was pushed, in  *)
(* either window, although the leases carry over a reset and are counted   *)
(* against both windows.                                                   *)
WithinLimits == DebitWithin(mem)

(* A step that debits credits leaves both windows within the limits in     *)
(* force, even when the registry lowered them below what is outstanding.   *)
NoOvergrant ==
  [][ mem'.monthUsed + mem'.leased > mem.monthUsed + mem.leased
        => /\ mem'.dayUsed + mem'.leased <= mem'.config.dayLimit
           /\ mem'.monthUsed + mem'.leased <= mem'.config.monthLimit ]_vars

(* A lease that was answered survives eviction: every entry in memory is   *)
(* in storage, as it is.                                                   *)
EntriesDurable ==
  /\ mem.open \subseteq disk.open
  /\ \A t \in mem.open : mem.entry[t] = disk.entry[t]

(* Usage that was committed in the current window survives eviction.       *)
UsageDurable ==
  /\ mem.day = disk.day => mem.dayUsed = disk.dayUsed
  /\ mem.month = disk.month => mem.monthUsed = disk.monthUsed

(* The account is not stuck at its concurrency cap: a tunnel that vanished *)
(* without a close is forgotten while some connector keeps asking.         *)
VanishedReclaimed == \A t \in Tunnel : t \in gone ~> t \notin mem.open

--------------------------------------------------------------------------
(* A resident AccountLedger implements CreditAccount. *)
Account == INSTANCE CreditAccount WITH
       N <- NTunnels, Limits <- Configs, NoLimit <- NoAccount,
       limit <- mem.config, held <- Leases(mem.entry), day <- mem.day, month <- mem.month,
       dayUsed <- mem.dayUsed, monthUsed <- mem.monthUsed

(* Every credit is free, held by a tunnel or used; it is handed out within *)
(* the limits in force, used by whoever holds it, and otherwise given back. *)
CreditsKept == Account!Spec
==========================================================================

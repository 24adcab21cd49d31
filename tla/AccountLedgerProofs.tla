------------------------ MODULE AccountLedgerProofs ------------------------
(* The theorems of AccountLedger, for every number of tunnels, every set   *)
(* of configurations and every bound.                                      *)
EXTENDS AccountLedger, LedgerOpsProofs

USE DEF Tunnel

(* So is every initial state, an entry stored in the old shape included.   *)
LEMMA InitKeeps ==
  ASSUME Init
  PROVE  TypeOK /\ LeasedIsSum /\ WithinLimits
<1> DEFINE E == EmptyLedger(Ttl + 1)
<1>1. Ttl + 1 \in Nat
  BY LedgerAssumption
<1>2. E \in LedgerType /\ LeaseSum(E) /\ DebitWithin(E)
  BY <1>1, EmptyType
<1>3. CASE mem = E
  BY <1>1, <1>2, <1>3 DEF Init, TypeOK, LeasedIsSum, WithinLimits
<1>4. ASSUME NEW t \in Tunnel, NEW n \in LegacyLeases, NEW c \in Configs,
             n <= c.dayLimit, n <= c.monthLimit, mem = StoredLegacy(E, t, n, c)
      PROVE  TypeOK /\ LeasedIsSum /\ WithinLimits
  <2>1. n \in Nat
    BY AccountAssumption
  <2> DEFINE e == [lease |-> n, regId |-> Blank, seen |-> 0]
             held == [E.entry EXCEPT ![t] = e]
  <2>2. mem = [E EXCEPT !.config = c, !.open = {t}, !.leased = n, !.entry = held]
    BY <1>2, <1>4 DEF StoredLegacy, LedgerType
  <2>3. e \in Entry /\ held \in [Tunnel -> Entry]
    BY <1>2, <2>1 DEF Entry, LedgerType
  <2>4. mem \in LedgerType
    <3> HIDE DEF e, held, E
    <3> QED BY <1>2, <2>1, <2>2, <2>3 DEF LedgerType
  <2>5. Leases(held) = [i \in 1..NTunnels |-> IF i = t THEN n ELSE 0]
    BY DEF Leases, EmptyLedger, NoEntry
  <2>6. Total(Leases(held), NTunnels) = n
    BY <2>1, <2>5, TotalPoint, LedgerAssumption, SMTT(30)
  <2>7. mem.leased = n /\ mem.entry = held /\ mem.dayUsed = 0 /\ mem.monthUsed = 0
    BY <2>2 DEF EmptyLedger
  <2>8. LeaseSum(mem)
    <3> HIDE DEF held, E
    <3> QED BY <2>6, <2>7 DEF LeaseSum
  <2>9. DebitWithin(mem)
    BY <1>4, <2>1, <2>7 DEF DebitWithin
  <2> QED BY <1>1, <2>4, <2>8, <2>9 DEF Init, TypeOK, LeasedIsSum, WithinLimits
<1> QED BY <1>3, <1>4 DEF Init

--------------------------------------------------------------------------
(* Each put leaves a well formed storage.                                  *)
LEMMA PutType ==
  ASSUME NEW D \in LedgerType, NEW L \in LedgerType
  PROVE  /\ PutOpen(D, L) \in LedgerType /\ PutUsage(D, L) \in LedgerType
         /\ PutReserved(D, L) \in LedgerType /\ PutConfig(D, L) \in LedgerType
BY DEF PutOpen, PutUsage, PutReserved, PutConfig, LedgerType

--------------------------------------------------------------------------
(* Type correctness.                                                       *)

(* Every step keeps the types: no counter ever goes below zero.            *)
LEMMA TypeStep ==
  ASSUME TypeOK, [Next]_vars
  PROVE  TypeOK'
<1> USE DEF TypeOK
<1>1. ASSUME NEW t \in Tunnel, NEW r \in Regs, NEW cred \in Hashes \cup {LegacySecret},
             Authorize(t, r, cred) \/ TornAuthorize(t, r, cred)
      PROVE  TypeOK'
  <2> DEFINE F == Fresh(mem, now)
             A == Admitted(F, t, r, now)
  <2>1. F \in LedgerType /\ A \in LedgerType
    BY FreshKeeps, AdmittedKeeps
  <2>2. PutOpen(disk, A) \in LedgerType /\ PutReserved(PutOpen(disk, A), A) \in LedgerType
    BY <2>1, PutType
  <2> HIDE DEF A
  <2> QED BY <1>1, <2>1, <2>2 DEF Authorize, TornAuthorize, A
<1>2. ASSUME NEW t \in Tunnel, NEW r \in Regs, NEW w \in Wants, NEW c \in Consumptions,
             Lease(t, r, w, c) \/ TornLease(t, r, w, c)
      PROVE  TypeOK'
  <2> DEFINE F == Fresh(mem, now)
             G == Leased(F, t, w, c, now)
  <2>1. F \in LedgerType /\ w \in Nat /\ c \in Nat
    BY FreshKeeps, AccountAssumption
  <2>2. F.config # NoAccount => G \in LedgerType
    <3> HIDE DEF F
    <3> QED BY <2>1, LeasedKeeps
  <2> HIDE DEF G
  <2>3. CASE Lease(t, r, w, c)
    <3>1. mem' \in LedgerType
      BY <2>1, <2>2, <2>3 DEF Lease, MayLease, G
    <3> QED BY <2>3, <3>1, PutType DEF Lease
  <2>4. CASE TornLease(t, r, w, c)
    BY <2>2, <2>4, PutType DEF TornLease, MayLease, G
  <2> QED BY <1>2, <2>3, <2>4
<1>3. ASSUME NEW t \in Tunnel, NEW r \in Regs, NEW c \in Consumptions,
             Close(t, r, c) \/ TornClose(t, r, c)
      PROVE  TypeOK'
  <2> DEFINE R == Roll(mem, now)
             G == Closed(R, t, c)
  <2>1. R \in LedgerType /\ c \in Nat
    BY RollKeeps, AccountAssumption
  <2>2. G \in LedgerType
    <3> HIDE DEF R
    <3> QED BY <2>1, ClosedKeeps
  <2> HIDE DEF G
  <2>3. CASE Close(t, r, c)
    <3>1. mem' \in LedgerType
      BY <2>1, <2>2, <2>3 DEF Close, G
    <3> QED BY <2>3, <3>1, PutType DEF Close
  <2>4. CASE TornClose(t, r, c)
    BY <2>2, <2>4, PutType DEF TornClose, G
  <2> QED BY <1>3, <2>3, <2>4
<1>4. CASE Tick
  BY <1>4 DEF Tick
<1>5. ASSUME NEW c \in Configs, NEW hs \in SUBSET Hashes, Configure(c, hs)
      PROVE  TypeOK'
  BY <1>5 DEF Configure, LedgerType
<1>6. CASE Bootstrap
  <2>1. mem' \in LedgerType
    BY <1>6, BootedKeeps DEF Bootstrap
  <2> QED BY <1>6, <2>1, PutType DEF Bootstrap
<1>7. ASSUME NEW t \in Tunnel, ReleaseId(t)
      PROVE  TypeOK'
  <2>1. mem' \in LedgerType
    BY <1>7 DEF ReleaseId, LedgerType
  <2> QED BY <1>7, <2>1, PutType DEF ReleaseId
<1>8. ASSUME NEW t \in Tunnel, Vanish(t)
      PROVE  TypeOK'
  BY <1>8 DEF Vanish
<1>9. CASE UsageView
  BY <1>9, RollKeeps DEF UsageView
<1>10. CASE Evict
  BY <1>10 DEF Evict
<1>11. CASE UNCHANGED vars
  BY <1>11 DEF vars
<1> QED BY <1>1, <1>2, <1>3, <1>4, <1>5, <1>6, <1>7, <1>8, <1>9, <1>10, <1>11 DEF Next, Calls

(* No handler, eviction or torn write makes a counter or a lease negative, *)
(* whatever consumption the callers report.                                *)
THEOREM TypeCorrect == Spec => []TypeOK
<1>1. Init => TypeOK
  BY InitKeeps
<1> QED BY <1>1, TypeStep, PTL DEF Spec

--------------------------------------------------------------------------
(* While the object is resident.                                           *)

Balanced == LeasedIsSum /\ WithinLimits

(* Every step of a resident object keeps the ledger balanced.              *)
LEMMA BalanceStep ==
  ASSUME MayEvict = FALSE, MayTear = FALSE, TypeOK, Balanced, [Next]_vars
  PROVE  Balanced'
<1> USE DEF TypeOK, Balanced, LeasedIsSum, WithinLimits
<1>1. ASSUME NEW t \in Tunnel, NEW r \in Regs, NEW cred \in Hashes \cup {LegacySecret},
             Authorize(t, r, cred)
      PROVE  Balanced'
  <2> DEFINE F == Fresh(mem, now)
  <2>1. F \in LedgerType /\ LeaseSum(F) /\ DebitWithin(F)
    BY FreshKeeps
  <2>2. LeaseSum(Admitted(F, t, r, now)) /\ DebitWithin(Admitted(F, t, r, now))
    <3> HIDE DEF F
    <3> QED BY <2>1, AdmittedKeeps
  <2> HIDE DEF LeaseSum, DebitWithin
  <2> QED BY <1>1, <2>1, <2>2 DEF Authorize
<1>2. ASSUME NEW t \in Tunnel, NEW r \in Regs, NEW w \in Wants, NEW c \in Consumptions,
             Lease(t, r, w, c)
      PROVE  Balanced'
  <2> DEFINE F == Fresh(mem, now)
             G == Leased(F, t, w, c, now)
  <2>1. F \in LedgerType /\ LeaseSum(F) /\ DebitWithin(F) /\ w \in Nat /\ c \in Nat
    BY FreshKeeps, AccountAssumption
  <2>2. F.config # NoAccount => LeaseSum(G) /\ DebitWithin(G)
    <3> HIDE DEF F
    <3> QED BY <2>1, LeasedKeeps
  <2> HIDE DEF G
  <2> QED BY <1>2, <2>1, <2>2 DEF Lease, MayLease, G
<1>3. ASSUME NEW t \in Tunnel, NEW r \in Regs, NEW c \in Consumptions, Close(t, r, c)
      PROVE  Balanced'
  <2> DEFINE R == Roll(mem, now)
             G == Closed(R, t, c)
  <2>1. R \in LedgerType /\ LeaseSum(R) /\ DebitWithin(R) /\ c \in Nat
    BY RollKeeps, AccountAssumption
  <2>2. LeaseSum(G) /\ DebitWithin(G)
    <3> HIDE DEF R
    <3> QED BY <2>1, ClosedKeeps
  <2> HIDE DEF G
  <2> QED BY <1>3, <2>1, <2>2 DEF Close, G
<1>4. ASSUME NEW c \in Configs, NEW hs \in SUBSET Hashes, Configure(c, hs)
      PROVE  Balanced'
  <2>1. /\ mem'.leased = mem.leased /\ mem'.entry = mem.entry
        /\ mem'.dayUsed = mem.dayUsed /\ mem'.monthUsed = mem.monthUsed
    BY <1>4 DEF Configure, LedgerType
  <2> QED BY <2>1 DEF LeaseSum, DebitWithin
<1>5. CASE Bootstrap
  BY <1>5, BootedKeeps DEF Bootstrap
<1>6. ASSUME NEW t \in Tunnel, ReleaseId(t)
      PROVE  Balanced'
  <2>1. /\ mem'.leased = mem.leased /\ mem'.entry = mem.entry
        /\ mem'.dayUsed = mem.dayUsed /\ mem'.monthUsed = mem.monthUsed
    BY <1>6 DEF ReleaseId, LedgerType
  <2> QED BY <2>1 DEF LeaseSum, DebitWithin
<1>7. CASE UsageView
  BY <1>7, RollKeeps DEF UsageView
<1>8. CASE UNCHANGED mem
  BY <1>8
<1>9. CASE \/ Evict
           \/ \E t \in Tunnel, r \in Regs, c \in Consumptions :
                 TornClose(t, r, c) \/ \E w \in Wants : TornLease(t, r, w, c)
           \/ \E t \in Tunnel, r \in Regs, cred \in Hashes \cup {LegacySecret} :
                 TornAuthorize(t, r, cred)
  BY <1>9 DEF Evict, TornClose, TornLease, TornAuthorize
<1> QED BY <1>1, <1>2, <1>3, <1>4, <1>5, <1>6, <1>7, <1>8, <1>9
        DEF Next, Calls, Tick, Vanish, vars

(* While the object is neither evicted nor crashes between two puts, `leased` *)
(* is the sum of the outstanding leases and the debit of the day and of the *)
(* month stays within the largest limits pushed.                           *)
THEOREM ResidentBalance ==
  ASSUME MayEvict = FALSE, MayTear = FALSE
  PROVE  Spec => [](LeasedIsSum /\ WithinLimits)
<1>1. Init => TypeOK /\ Balanced
  BY InitKeeps DEF Balanced
<1>2. TypeOK /\ Balanced /\ [Next]_vars => Balanced'
  BY BalanceStep
<1>3. TypeOK /\ [Next]_vars => TypeOK'
  BY TypeStep
<1>4. Spec => [](TypeOK /\ Balanced)
  BY <1>1, <1>2, <1>3, PTL DEF Spec
<1>5. Balanced => LeasedIsSum /\ WithinLimits
  BY DEF Balanced
<1> QED BY <1>4, <1>5, PTL

--------------------------------------------------------------------------
(* What survives an eviction or a crash: Kept relates the storage D to the *)
(* memory L at time n.                                                     *)

Kept(D, L, n) ==
  /\ L.open \subseteq D.open
  /\ \A t \in L.open : L.entry[t] = D.entry[t]
  /\ L.day = D.day => L.dayUsed = D.dayUsed
  /\ L.month = D.month => L.monthUsed = D.monthUsed
  /\ D.day <= L.day /\ L.day <= DayKey(n)
  /\ D.month <= L.month /\ L.month <= MonthKey(n)

(* Day and month keys never go back as the clock advances.                 *)
LEMMA KeysAdvance ==
  ASSUME NEW n \in Nat
  PROVE  /\ DayKey(n) \in Nat /\ MonthKey(n) \in Nat
         /\ DayKey(n) <= DayKey(n + 1) /\ MonthKey(n) <= MonthKey(n + 1)
<1>1. ASSUME NEW d \in Nat \ {0} PROVE n \div d \in Nat /\ n \div d <= (n + 1) \div d
  OBVIOUS
<1> QED BY <1>1, LedgerAssumption DEF DayKey, MonthKey

(* Rolling and reaping in memory, before anything is put, keep the relation. *)
LEMMA FreshKept ==
  ASSUME NEW D \in LedgerType, NEW L \in LedgerType, NEW n \in Nat, Kept(D, L, n)
  PROVE  Kept(D, Roll(L, n), n) /\ Kept(D, Fresh(L, n), n)
<1> DEFINE R == Roll(L, n)
           F == Fresh(L, n)
<1>1. DayKey(n) \in Nat /\ MonthKey(n) \in Nat
  BY KeysAdvance
<1>2. /\ R.open = L.open /\ R.entry = L.entry
      /\ R.day = DayKey(n) /\ R.month = MonthKey(n)
      /\ R.dayUsed = IF L.day = DayKey(n) THEN L.dayUsed ELSE 0
      /\ R.monthUsed = IF L.month = MonthKey(n) THEN L.monthUsed ELSE 0
  BY DEF Roll, LedgerType
<1>3. Kept(D, R, n)
  <2> HIDE DEF R
  <2> QED BY <1>1, <1>2 DEF Kept, LedgerType
<1>4. R \in LedgerType
  BY RollKeeps
<1>5. /\ F.open \subseteq R.open /\ \A t \in F.open : F.entry[t] = R.entry[t]
      /\ F.day = R.day /\ F.dayUsed = R.dayUsed
      /\ F.month = R.month /\ F.monthUsed = R.monthUsed
  <2> HIDE DEF R
  <2>1. F = Reap(R, n)
    BY DEF Fresh, R
  <2> QED BY <1>4, <2>1 DEF Reap, LedgerType
<1>6. Kept(D, F, n)
  <2> HIDE DEF R, F
  <2> QED BY <1>3, <1>5 DEF Kept
<1> QED BY <1>3, <1>6

(* A handler that puts both keys leaves storage and memory the same.       *)
LEMMA PutKept ==
  ASSUME NEW D \in LedgerType, NEW L \in LedgerType, NEW n \in Nat,
         L.day <= DayKey(n), L.month <= MonthKey(n)
  PROVE  Kept(PutUsage(PutOpen(D, L), L), L, n)
BY DEF PutUsage, PutOpen, Kept, LedgerType

(* A handler that puts only the usage keeps the entries storage had.       *)
LEMMA PutUsageKept ==
  ASSUME NEW D \in LedgerType, NEW L \in LedgerType, NEW n \in Nat, Kept(D, L, n)
  PROVE  Kept(PutUsage(D, L), L, n)
BY DEF PutUsage, Kept, LedgerType

(* Every step, an eviction or a torn write included, keeps the relation.   *)
LEMMA KeptStep ==
  ASSUME TypeOK, Kept(disk, mem, now), [Next]_vars
  PROVE  Kept(disk, mem, now)'
<1> USE DEF TypeOK
<1>0. TypeOK'
  BY TypeStep
<1>a. /\ DayKey(now) \in Nat /\ MonthKey(now) \in Nat
      /\ disk.day \in Nat /\ mem.day \in Nat /\ disk.month \in Nat /\ mem.month \in Nat
  BY KeysAdvance DEF LedgerType
<1>b. disk.day <= DayKey(now) /\ disk.month <= MonthKey(now)
  BY <1>a DEF Kept
<1>1. ASSUME NEW t \in Tunnel, NEW r \in Regs, NEW cred \in Hashes \cup {LegacySecret},
             Authorize(t, r, cred)
      PROVE  Kept(disk, mem, now)'
  <2> DEFINE F == Fresh(mem, now)
             A == Admitted(F, t, r, now)
  <2>1. F \in LedgerType /\ A \in LedgerType
    BY FreshKeeps, AdmittedKeeps
  <2>2. Kept(disk, F, now)
    BY <2>1, FreshKept
  <2>3. Kept(PutReserved(PutOpen(disk, A), A), A, now)
    <3>1. A.day = F.day /\ A.dayUsed = F.dayUsed /\ A.month = F.month /\ A.monthUsed = F.monthUsed
      <4> HIDE DEF F
      <4> QED BY <2>1 DEF Admitted, LedgerType
    <3> HIDE DEF A, F
    <3> QED BY <2>1, <2>2, <3>1 DEF Kept, PutReserved, PutOpen, LedgerType
  <2> HIDE DEF A
  <2> QED BY <1>1, <2>2, <2>3 DEF Authorize, A
<1>2. ASSUME NEW t \in Tunnel, NEW r \in Regs, NEW w \in Wants, NEW c \in Consumptions,
             Lease(t, r, w, c)
      PROVE  Kept(disk, mem, now)'
  <2> DEFINE F == Fresh(mem, now)
             G == Leased(F, t, w, c, now)
  <2>1. F \in LedgerType /\ Kept(disk, F, now)
    BY FreshKeeps, FreshKept
  <2>2. CASE MayLease(F, t, r)
    <3>1. mem' = G /\ G \in LedgerType /\ disk' = PutUsage(PutOpen(disk, G), G) /\ now' = now
      BY <1>0, <1>2, <2>2 DEF Lease
    <3>2. G.day = F.day /\ G.month = F.month
      <4> HIDE DEF F
      <4> QED BY <2>1 DEF Leased, Commit, LedgerType
    <3>3. G.day <= DayKey(now) /\ G.month <= MonthKey(now)
      <4> HIDE DEF F, G
      <4> QED BY <2>1, <3>2 DEF Kept
    <3> HIDE DEF G
    <3> QED BY <3>1, <3>3, PutKept
  <2>3. CASE ~ MayLease(F, t, r)
    BY <1>2, <2>1, <2>3, PutUsageKept DEF Lease
  <2> QED BY <2>2, <2>3
<1>3. ASSUME NEW t \in Tunnel, NEW r \in Regs, NEW c \in Consumptions, Close(t, r, c)
      PROVE  Kept(disk, mem, now)'
  <2> DEFINE R == Roll(mem, now)
             G == Closed(R, t, c)
  <2>1. R \in LedgerType /\ Kept(disk, R, now)
    BY RollKeeps, FreshKept
  <2>2. CASE Owns(R, t, r)
    <3>1. mem' = G /\ G \in LedgerType /\ disk' = PutUsage(PutOpen(disk, G), G) /\ now' = now
      BY <1>0, <1>3, <2>2 DEF Close
    <3>2. G.day = R.day /\ G.month = R.month
      <4> HIDE DEF R
      <4> QED BY <2>1 DEF Closed, Commit, LedgerType
    <3>3. G.day <= DayKey(now) /\ G.month <= MonthKey(now)
      <4> HIDE DEF R, G
      <4> QED BY <2>1, <3>2 DEF Kept
    <3> HIDE DEF G
    <3> QED BY <3>1, <3>3, PutKept
  <2>3. CASE ~ Owns(R, t, r)
    BY <1>3, <2>1, <2>3, PutUsageKept DEF Close
  <2> QED BY <2>2, <2>3
<1>4. ASSUME NEW t \in Tunnel, NEW r \in Regs,
             \/ \E cred \in Hashes \cup {LegacySecret} : TornAuthorize(t, r, cred)
             \/ \E c \in Consumptions : \/ TornClose(t, r, c)
                                       \/ \E w \in Wants : TornLease(t, r, w, c)
      PROVE  Kept(disk, mem, now)'
  <2>1. PICK L : disk' = PutOpen(disk, L) /\ mem' = disk' /\ now' = now
    BY <1>4 DEF TornClose, TornLease, TornAuthorize
  <2>2. disk'.day = disk.day /\ disk'.month = disk.month
    BY <2>1 DEF PutOpen, LedgerType
  <2> QED BY <1>a, <1>b, <2>1, <2>2 DEF Kept
<1>5. CASE Tick
  <2>1. /\ DayKey(now + 1) \in Nat /\ MonthKey(now + 1) \in Nat
        /\ DayKey(now) <= DayKey(now + 1) /\ MonthKey(now) <= MonthKey(now + 1)
    <3>1. now + 1 \in Nat
      OBVIOUS
    <3> QED BY <3>1, KeysAdvance
  <2>2. now' = now + 1 /\ mem' = mem /\ disk' = disk
    BY <1>5 DEF Tick
  <2> QED BY <1>a, <2>1, <2>2 DEF Kept
<1>6. ASSUME NEW c \in Configs, NEW hs \in SUBSET Hashes, Configure(c, hs)
      PROVE  Kept(disk, mem, now)'
  BY <1>6 DEF Configure, Kept, LedgerType
<1>7. CASE Bootstrap
  BY <1>7 DEF Bootstrap, Kept, Booted, PutConfig, LedgerType
<1>8. ASSUME NEW t \in Tunnel, ReleaseId(t)
      PROVE  Kept(disk, mem, now)'
  BY <1>8 DEF ReleaseId, Kept, PutReserved, LedgerType
<1>9. CASE UsageView
  BY <1>9, FreshKept DEF UsageView
<1>10. CASE Evict
  <2>1. mem' = disk /\ disk' = disk /\ now' = now
    BY <1>10 DEF Evict
  <2> QED BY <1>a, <1>b, <2>1 DEF Kept
<1>11. CASE UNCHANGED <<now, mem, disk>>
  BY <1>11
<1> QED BY <1>1, <1>2, <1>3, <1>4, <1>5, <1>6, <1>7, <1>8, <1>9, <1>10, <1>11
        DEF Next, Calls, Vanish, vars

(* Storage is what memory is at first, in the windows of the clock.        *)
LEMMA InitKept ==
  ASSUME Init
  PROVE  Kept(disk, mem, now)
<1>1. TypeOK /\ disk = mem /\ now = Ttl + 1
  BY InitKeeps DEF Init
<1> DEFINE E == EmptyLedger(Ttl + 1)
<1>2. E.day = DayKey(Ttl + 1) /\ E.month = MonthKey(Ttl + 1)
  BY DEF EmptyLedger
<1>3. mem.day = E.day /\ mem.month = E.month
  <2> HIDE DEF E
  <2>1. CASE mem = E
    BY <2>1
  <2>2. ASSUME NEW t, NEW n, NEW c, mem = StoredLegacy(E, t, n, c)
        PROVE  mem.day = E.day /\ mem.month = E.month
    <3>1. E \in LedgerType
      BY LedgerAssumption, EmptyType DEF E
    <3> QED BY <2>2, <3>1 DEF StoredLegacy, LedgerType
  <2> QED BY <2>1, <2>2 DEF Init, E
<1>4. DayKey(now) \in Nat /\ MonthKey(now) \in Nat
  BY <1>1, KeysAdvance DEF TypeOK
<1>5. mem.day <= DayKey(now) /\ mem.month <= MonthKey(now) /\ mem.day <= mem.day /\ mem.month <= mem.month
  BY <1>1, <1>2, <1>3, <1>4
<1>6. Kept(mem, mem, now)
  BY <1>5 DEF Kept
<1> QED BY <1>1, <1>6

(* A lease that was answered and the usage of the current window survive an *)
(* eviction, and a crash between the puts of a handler.                    *)
THEOREM Durability == Spec => [](EntriesDurable /\ UsageDurable)
<1>1. Init => TypeOK /\ Kept(disk, mem, now)
  BY InitKeeps, InitKept
<1>2. TypeOK /\ Kept(disk, mem, now) /\ [Next]_vars => Kept(disk, mem, now)'
  BY KeptStep
<1>3. TypeOK /\ [Next]_vars => TypeOK'
  BY TypeStep
<1>4. Kept(disk, mem, now) => EntriesDurable /\ UsageDurable
  BY DEF Kept, EntriesDurable, UsageDurable
<1> QED BY <1>1, <1>2, <1>3, <1>4, PTL DEF Spec

--------------------------------------------------------------------------
(* A step that debits credits respects the limits in force.                *)

(* Equal counters are not a dearer debit.                                  *)
LEMMA SameDebit ==
  ASSUME NEW A \in LedgerType, NEW B \in LedgerType,
         A.monthUsed = B.monthUsed, A.leased = B.leased
  PROVE  NoDearer(A, B)
BY DEF NoDearer, LedgerType

(* Not raising the debit is transitive.                                    *)
LEMMA DebitChain ==
  ASSUME NEW A \in LedgerType, NEW B \in LedgerType, NEW C \in LedgerType,
         NoDearer(A, B), NoDearer(B, C)
  PROVE  NoDearer(A, C)
<1>1. /\ A.monthUsed \in Nat /\ A.leased \in Nat /\ B.monthUsed \in Nat /\ B.leased \in Nat
      /\ C.monthUsed \in Nat /\ C.leased \in Nat
  BY DEF LedgerType
<1> QED BY <1>1 DEF NoDearer

(* A step of a resident object raises the debit only within the limits in force. *)
LEMMA DebitStep ==
  ASSUME MayEvict = FALSE, MayTear = FALSE, TypeOK, Balanced, [Next]_vars
  PROVE  NoDearer(mem', mem) \/ InForce(mem')
<1> USE DEF TypeOK, Balanced, LeasedIsSum
<1>0. mem' \in LedgerType
  BY TypeStep
<1>1. ASSUME NEW t \in Tunnel, NEW r \in Regs, NEW cred \in Hashes \cup {LegacySecret},
             Authorize(t, r, cred)
      PROVE  NoDearer(mem', mem)
  <2> DEFINE F == Fresh(mem, now)
  <2>1. F \in LedgerType /\ NoDearer(F, mem)
    BY FreshKeeps
  <2>2. mem'.monthUsed = F.monthUsed /\ mem'.leased = F.leased
    <3>1. mem' = F \/ mem' = Admitted(F, t, r, now)
      BY <1>1 DEF Authorize
    <3> HIDE DEF F
    <3> QED BY <2>1, <3>1 DEF Admitted, LedgerType
  <2> HIDE DEF F
  <2> QED BY <2>1, <2>2 DEF NoDearer
<1>2. ASSUME NEW t \in Tunnel, NEW r \in Regs, NEW w \in Wants, NEW c \in Consumptions,
             Lease(t, r, w, c)
      PROVE  NoDearer(mem', mem) \/ InForce(mem')
  <2> DEFINE F == Fresh(mem, now)
             G == Leased(F, t, w, c, now)
  <2>1. F \in LedgerType /\ LeaseSum(F) /\ NoDearer(F, mem) /\ w \in Nat /\ c \in Nat
    BY FreshKeeps, AccountAssumption
  <2>2. F.config # NoAccount => G \in LedgerType /\ (NoDearer(G, F) \/ InForce(G))
    <3> HIDE DEF F
    <3> QED BY <2>1, LeasedKeeps
  <2> HIDE DEF G
  <2>3. mem' = F \/ (F.config # NoAccount /\ mem' = G)
    BY <1>2 DEF Lease, MayLease, G
  <2> HIDE DEF F
  <2> QED BY <2>1, <2>2, <2>3, DebitChain
<1>3. ASSUME NEW t \in Tunnel, NEW r \in Regs, NEW c \in Consumptions, Close(t, r, c)
      PROVE  NoDearer(mem', mem)
  <2> DEFINE R == Roll(mem, now)
             G == Closed(R, t, c)
  <2>1. R \in LedgerType /\ LeaseSum(R) /\ NoDearer(R, mem) /\ c \in Nat
    BY RollKeeps, AccountAssumption
  <2>2. G \in LedgerType /\ NoDearer(G, R)
    <3> HIDE DEF R
    <3> QED BY <2>1, ClosedKeeps
  <2>3. mem' = R \/ mem' = G
    BY <1>3 DEF Close
  <2> HIDE DEF R, G
  <2> QED BY <2>1, <2>2, <2>3, DebitChain
<1>4. ASSUME NEW c \in Configs, NEW hs \in SUBSET Hashes, Configure(c, hs)
      PROVE  NoDearer(mem', mem)
  BY <1>0, <1>4, SameDebit DEF Configure, LedgerType
<1>5. CASE Bootstrap
  BY <1>0, <1>5, SameDebit DEF Bootstrap, Booted, LedgerType
<1>6. ASSUME NEW t \in Tunnel, ReleaseId(t)
      PROVE  NoDearer(mem', mem)
  BY <1>0, <1>6, SameDebit DEF ReleaseId, LedgerType
<1>7. CASE UsageView
  BY <1>7, RollKeeps DEF UsageView
<1>8. CASE UNCHANGED mem
  BY <1>0, <1>8, SameDebit
<1>9. CASE \/ Evict
           \/ \E t \in Tunnel, r \in Regs, c \in Consumptions :
                 TornClose(t, r, c) \/ \E w \in Wants : TornLease(t, r, w, c)
           \/ \E t \in Tunnel, r \in Regs, cred \in Hashes \cup {LegacySecret} :
                 TornAuthorize(t, r, cred)
  BY <1>9 DEF Evict, TornClose, TornLease, TornAuthorize
<1> QED BY <1>1, <1>2, <1>3, <1>4, <1>5, <1>6, <1>7, <1>8, <1>9
        DEF Next, Calls, Tick, Vanish, vars

(* While the object is resident, no step debits an account past the limits in *)
(* force at that step, even when the registry lowered them below what is   *)
(* outstanding.                                                            *)
THEOREM GrantsWithinLimits ==
  ASSUME MayEvict = FALSE, MayTear = FALSE
  PROVE  Spec => NoOvergrant
<1>1. Init => TypeOK /\ Balanced
  BY InitKeeps DEF Balanced
<1>2. TypeOK /\ Balanced /\ [Next]_vars => TypeOK' /\ Balanced'
  BY BalanceStep, TypeStep
<1> DEFINE A == mem'.monthUsed + mem'.leased > mem.monthUsed + mem.leased
                  => /\ mem'.dayUsed + mem'.leased <= mem'.config.dayLimit
                     /\ mem'.monthUsed + mem'.leased <= mem'.config.monthLimit
<1>3. TypeOK /\ Balanced /\ [Next]_vars => [A]_vars
  <2> SUFFICES ASSUME TypeOK, Balanced, [Next]_vars PROVE A
    OBVIOUS
  <2>1. mem \in LedgerType /\ mem' \in LedgerType
    BY TypeStep DEF TypeOK
  <2>2. NoDearer(mem', mem) \/ InForce(mem')
    BY DebitStep
  <2> QED BY <2>1, <2>2 DEF NoDearer, InForce, LedgerType
<1>4. NoOvergrant <=> [][A]_vars
  BY DEF NoOvergrant
<1> HIDE DEF A
<1>5. Spec => [](TypeOK /\ Balanced)
  BY <1>1, <1>2, PTL DEF Spec
<1> QED BY <1>3, <1>4, <1>5, PTL DEF Spec

--------------------------------------------------------------------------
(* A resident object implements CreditAccount.                             *)

\* M has used c credits more than L, in windows that may just have begun.
Uses(L, M, c) ==
  /\ M.day >= L.day /\ M.month >= L.month
  /\ M.dayUsed = (IF M.day = L.day THEN L.dayUsed ELSE 0) + c
  /\ M.monthUsed = (IF M.month = L.month THEN L.monthUsed ELSE 0) + c

\* The leases of L, without those of `reaped`.
LeasesWithout(L, reaped) == [t \in Tunnel |-> IF t \in reaped THEN 0 ELSE Leases(L.entry)[t]]

(* The sum of the abstract account is that of the ledger.                  *)
LEMMA SumsAgree ==
  ASSUME NEW f, NEW n
  PROVE  Account!Total(f, n) = Total(f, n)
<1>1. Account!RunningTotal(f, n) = RunningTotal(f, n)
  BY Zenon DEF RunningTotal, Account!RunningTotal
<1> QED BY <1>1 DEF Total, Account!Total

(* rollPeriods uses nothing, and starts a count anew only in a new window. *)
LEMMA RollUses ==
  ASSUME NEW L \in LedgerType, NEW n \in Nat, L.day <= DayKey(n), L.month <= MonthKey(n)
  PROVE  /\ Uses(L, Roll(L, n), 0)
         /\ Roll(L, n).config = L.config /\ Roll(L, n).entry = L.entry
<1> DEFINE R == Roll(L, n)
<1>1. /\ R.day = DayKey(n) /\ R.month = MonthKey(n)
      /\ R.dayUsed = IF L.day = DayKey(n) THEN L.dayUsed ELSE 0
      /\ R.monthUsed = IF L.month = MonthKey(n) THEN L.monthUsed ELSE 0
      /\ R.config = L.config /\ R.entry = L.entry
  BY DEF Roll, LedgerType
<1>2. DayKey(n) \in Nat /\ MonthKey(n) \in Nat
  BY KeysAdvance
<1> HIDE DEF R
<1>3. Uses(L, R, 0)
  BY <1>1, <1>2 DEF Uses, LedgerType
<1> QED BY <1>1, <1>3 DEF R

(* reap returns the leases of the tunnels it forgets, and nothing else.    *)
LEMMA FreshUses ==
  ASSUME NEW L \in LedgerType, NEW n \in Nat, L.day <= DayKey(n), L.month <= MonthKey(n)
  PROVE  /\ Uses(L, Fresh(L, n), 0) /\ Fresh(L, n).config = L.config
         /\ \E reaped \in SUBSET Tunnel : /\ Leases(Fresh(L, n).entry) = LeasesWithout(L, reaped)
                                          /\ reaped \cap Fresh(L, n).open = {}
<1> DEFINE R == Roll(L, n)
           F == Reap(R, n)
           dead == Expired(R, n)
<1>1. R \in LedgerType /\ Uses(L, R, 0) /\ R.config = L.config /\ R.entry = L.entry
  BY RollKeeps, RollUses
<1> HIDE DEF R
<1>2. /\ F.open = R.open \ dead /\ F.config = R.config
      /\ F.entry = [t \in Tunnel |-> IF t \in dead THEN NoEntry ELSE R.entry[t]]
      /\ F.day = R.day /\ F.month = R.month /\ F.dayUsed = R.dayUsed /\ F.monthUsed = R.monthUsed
  BY <1>1 DEF Reap, LedgerType
<1>3. dead \in SUBSET Tunnel
  BY <1>1 DEF Expired, LedgerType
<1> HIDE DEF F, dead
<1>4. Uses(L, F, 0) /\ F.config = L.config
  BY <1>1, <1>2 DEF Uses
<1>5. Leases(F.entry) = LeasesWithout(L, dead)
  <2>1. \A t \in Tunnel : F.entry[t].lease = IF t \in dead THEN 0 ELSE L.entry[t].lease
    BY <1>1, <1>2 DEF NoEntry
  <2> QED BY <2>1 DEF Leases, LeasesWithout
<1>6. F = Fresh(L, n)
  BY DEF F, R, Fresh
<1>7. dead \cap F.open = {}
  BY <1>2
<1> QED BY <1>3, <1>4, <1>5, <1>6, <1>7

(* applyCommit uses at most the lease, and takes that much out of it.      *)
LEMMA CommitUses ==
  ASSUME NEW L \in LedgerType, NEW t \in Tunnel, NEW c \in Nat
  PROVE  LET M == Commit(L, t, c)
         IN  /\ M.day = L.day /\ M.month = L.month /\ M.config = L.config
             /\ \E p \in 0..L.entry[t].lease :
                   /\ M.dayUsed = L.dayUsed + p /\ M.monthUsed = L.monthUsed + p
                   /\ M.entry = [L.entry EXCEPT ![t].lease = L.entry[t].lease - p]
<1> DEFINE p == Smaller(c, L.entry[t].lease)
<1>1. L.entry[t].lease \in Nat
  BY DEF LedgerType, Entry
<1>2. p \in 0..L.entry[t].lease
  BY <1>1 DEF Smaller
<1> QED BY <1>2 DEF Commit, LedgerType

(* /lease uses at most the lease, and grants only within the limits.       *)
LEMMA LeasedUses ==
  ASSUME NEW L \in LedgerType, NEW t \in Tunnel, NEW w \in Nat, NEW c \in Nat, NEW n \in Nat,
         L.config # NoAccount
  PROVE  LET M == Leased(L, t, w, c, n)
         IN  /\ M.day = L.day /\ M.month = L.month /\ M.config = L.config
             /\ \E p \in 0..L.entry[t].lease, g \in 0..L.config.dayLimit :
                   /\ M.dayUsed = L.dayUsed + p /\ M.monthUsed = L.monthUsed + p
                   /\ Leases(M.entry) = [Leases(L.entry) EXCEPT ![t] = L.entry[t].lease - p + g]
                   /\ g > 0 => InForce(M)
<1> DEFINE paid == Commit(L, t, c)
           g == Grant(paid, w)
           M == Leased(L, t, w, c, n)
<1>1. paid \in LedgerType
  BY CommitKeeps
<1>2. /\ paid.day = L.day /\ paid.month = L.month /\ paid.config = L.config
      /\ \E p \in 0..L.entry[t].lease :
            /\ paid.dayUsed = L.dayUsed + p /\ paid.monthUsed = L.monthUsed + p
            /\ paid.entry = [L.entry EXCEPT ![t].lease = L.entry[t].lease - p]
  BY CommitUses
<1>3. M = [paid EXCEPT !.entry[t].lease = @ + g, !.entry[t].seen = n, !.leased = @ + g]
  BY DEF Leased
<1> HIDE DEF paid
<1>4. PICK p \in 0..L.entry[t].lease :
            /\ paid.dayUsed = L.dayUsed + p /\ paid.monthUsed = L.monthUsed + p
            /\ paid.entry = [L.entry EXCEPT ![t].lease = L.entry[t].lease - p]
  BY <1>2
<1>5. /\ g \in Nat
      /\ g > 0 => /\ paid.dayUsed + paid.leased + g <= paid.config.dayLimit
                  /\ paid.monthUsed + paid.leased + g <= paid.config.monthLimit
  BY <1>1, <1>2, GrantType
<1>6. L.config.dayLimit \in Nat
  BY LedgerAssumption DEF LedgerType, ConfigType
<1>7. L.entry \in [Tunnel -> Entry] /\ L.entry[t].lease \in Nat
  BY DEF LedgerType, Entry
<1>8. paid.dayUsed \in Nat /\ paid.monthUsed \in Nat /\ paid.leased \in Nat
  BY <1>1 DEF LedgerType
<1> HIDE DEF g, M
<1>9. g \in 0..L.config.dayLimit
  BY <1>2, <1>5, <1>6, <1>8
<1>10. /\ M.day = paid.day /\ M.month = paid.month /\ M.config = paid.config
       /\ M.dayUsed = paid.dayUsed /\ M.monthUsed = paid.monthUsed
       /\ M.leased = paid.leased + g
       /\ M.entry = [paid.entry EXCEPT ![t].lease = @ + g, ![t].seen = n]
  BY <1>1, <1>3 DEF LedgerType
<1>11. g > 0 => InForce(M)
  BY <1>2, <1>5, <1>8, <1>10 DEF InForce
<1>12. Leases(M.entry) = [Leases(L.entry) EXCEPT ![t] = L.entry[t].lease - p + g]
  <2>1. paid.entry[t].lease = L.entry[t].lease - p
        /\ \A s \in Tunnel : s # t => paid.entry[s] = L.entry[s]
    BY <1>4, <1>7 DEF Entry
  <2>2. M.entry[t].lease = paid.entry[t].lease + g
        /\ \A s \in Tunnel : s # t => M.entry[s] = paid.entry[s]
    <3> DEFINE f == paid.entry
               u == paid.entry[t].lease + g
    <3>1. f \in [Tunnel -> Entry]
      BY <1>1 DEF LedgerType
    <3>2. M.entry = [f EXCEPT ![t].lease = u, ![t].seen = n]
      BY <1>10
    <3> HIDE DEF f, u
    <3>3. M.entry[t].lease = u /\ \A s \in Tunnel : s # t => M.entry[s] = f[s]
      BY <3>1, <3>2 DEF Entry
    <3> QED BY <3>3 DEF f, u
  <2> DEFINE v == L.entry[t].lease - p + g
  <2>3. M.entry[t].lease = v
    BY <1>5, <1>7, <2>1, <2>2
  <2> HIDE DEF v
  <2> QED BY <2>1, <2>2, <2>3 DEF Leases
<1> QED BY <1>2, <1>4, <1>9, <1>10, <1>11, <1>12 DEF M

(* /close uses at most the lease, and returns the rest of it.              *)
LEMMA ClosedUses ==
  ASSUME NEW L \in LedgerType, NEW t \in Tunnel, NEW c \in Nat
  PROVE  LET M == Closed(L, t, c)
         IN  /\ M.day = L.day /\ M.month = L.month /\ M.config = L.config
             /\ \E p \in 0..L.entry[t].lease :
                   /\ M.dayUsed = L.dayUsed + p /\ M.monthUsed = L.monthUsed + p
                   /\ Leases(M.entry) = LeasesWithout(L, {t})
<1> DEFINE paid == Commit(L, t, c)
           M == Closed(L, t, c)
<1>1. paid \in LedgerType
  BY CommitKeeps
<1>2. /\ paid.day = L.day /\ paid.month = L.month /\ paid.config = L.config
      /\ \E p \in 0..L.entry[t].lease :
            /\ paid.dayUsed = L.dayUsed + p /\ paid.monthUsed = L.monthUsed + p
            /\ paid.entry = [L.entry EXCEPT ![t].lease = L.entry[t].lease - p]
  BY CommitUses
<1>3. M = [paid EXCEPT !.open = @ \ {t}, !.entry[t] = NoEntry,
                       !.leased = Less(@, paid.entry[t].lease)]
  BY DEF Closed
<1> HIDE DEF paid, M
<1>4. PICK p \in 0..L.entry[t].lease :
            /\ paid.dayUsed = L.dayUsed + p /\ paid.monthUsed = L.monthUsed + p
            /\ paid.entry = [L.entry EXCEPT ![t].lease = L.entry[t].lease - p]
  BY <1>2
<1>5. /\ M.day = paid.day /\ M.month = paid.month /\ M.config = paid.config
      /\ M.dayUsed = paid.dayUsed /\ M.monthUsed = paid.monthUsed
      /\ M.entry = [paid.entry EXCEPT ![t] = NoEntry]
  BY <1>1, <1>3 DEF LedgerType
<1>6. Leases(M.entry) = LeasesWithout(L, {t})
  <2>1. paid.entry \in [Tunnel -> Entry] /\ L.entry \in [Tunnel -> Entry]
    BY <1>1 DEF LedgerType
  <2>2. M.entry[t] = NoEntry /\ \A s \in Tunnel : s # t => M.entry[s] = L.entry[s]
    BY <1>4, <1>5, <2>1
  <2>3. NoEntry.lease = 0
    BY DEF NoEntry
  <2> QED BY <2>2, <2>3 DEF Leases, LeasesWithout
<1> QED BY <1>2, <1>4, <1>5, <1>6 DEF M

(* What is used after the windows were brought up to date is used in all.  *)
LEMMA UsesMore ==
  ASSUME NEW L \in LedgerType, NEW M \in LedgerType, NEW K, NEW p \in Nat, Uses(L, M, 0),
         K.day = M.day, K.month = M.month,
         K.dayUsed = M.dayUsed + p, K.monthUsed = M.monthUsed + p
  PROVE  Uses(L, K, p)
<1>1. /\ L.dayUsed \in Nat /\ L.monthUsed \in Nat /\ M.dayUsed \in Nat /\ M.monthUsed \in Nat
  BY DEF LedgerType
<1>2. /\ M.dayUsed = IF M.day = L.day THEN L.dayUsed ELSE 0
      /\ M.monthUsed = IF M.month = L.month THEN L.monthUsed ELSE 0
      /\ M.day >= L.day /\ M.month >= L.month
  BY <1>1 DEF Uses
<1> QED BY <1>2 DEF Uses

(* Each handler of a resident object is one step of the abstract account.  *)
(* /authorize only gives back what was reaped.                             *)
LEMMA AuthorizeImplements ==
  ASSUME TypeOK, Kept(disk, mem, now),
         NEW t \in Tunnel, NEW r \in Regs, NEW cred, Authorize(t, r, cred)
  PROVE  Account!Next
<1> DEFINE F == Fresh(mem, now)
<1>1. mem \in LedgerType /\ now \in Nat /\ F \in LedgerType
      /\ mem.day <= DayKey(now) /\ mem.month <= MonthKey(now)
  BY FreshKeeps DEF TypeOK, Kept
<1>2. /\ Uses(mem, F, 0) /\ F.config = mem.config
      /\ \E reaped \in SUBSET Tunnel : /\ Leases(F.entry) = LeasesWithout(mem, reaped)
                                       /\ reaped \cap F.open = {}
  BY <1>1, FreshUses
<1>3. mem' = F \/ mem' = Admitted(F, t, r, now)
  BY DEF Authorize
<1> HIDE DEF F
<1>4. /\ mem'.config = F.config /\ mem'.day = F.day /\ mem'.month = F.month
      /\ mem'.dayUsed = F.dayUsed /\ mem'.monthUsed = F.monthUsed
      /\ Leases(mem'.entry) = Leases(F.entry)
  <2>1. CASE mem' = F
    BY <2>1
  <2>2. CASE mem' = Admitted(F, t, r, now)
    <3>1. mem'.entry = [F.entry EXCEPT ![t] = [lease |-> F.entry[t].lease, regId |-> r, seen |-> now]]
      BY <1>1, <2>2 DEF Admitted, LedgerType
    <3>2. F.entry \in [Tunnel -> Entry]
      BY <1>1 DEF LedgerType
    <3>3. \A s \in Tunnel : mem'.entry[s].lease = F.entry[s].lease
      BY <3>1, <3>2
    <3> QED BY <1>1, <2>2, <3>3 DEF Admitted, LedgerType, Leases
  <2> QED BY <1>3, <2>1, <2>2
<1>5. mem'.day \in Nat /\ mem'.month \in Nat
  BY <1>1, <1>4 DEF LedgerType
<1>6. PICK reaped \in SUBSET Tunnel : Leases(F.entry) = LeasesWithout(mem, reaped)
  BY <1>2
<1>7. Account!Use(0)
  BY <1>2, <1>4, <1>5 DEF Uses, Account!Use
<1>8. Account!GiveBack(reaped)
  BY <1>2, <1>4, <1>6, <1>7 DEF Account!GiveBack, Account!Without, Account!Holder, LeasesWithout
<1> QED BY <1>8 DEF Account!Next, Account!Holder

(* /lease is a grant to its owner, and gives back what was reaped.         *)
LEMMA LeaseImplements ==
  ASSUME TypeOK, Kept(disk, mem, now), LeaseSum(mem),
         NEW t \in Tunnel, NEW r \in Regs, NEW w \in Nat, NEW k \in Nat, Lease(t, r, w, k)
  PROVE  Account!Next
<1> DEFINE F == Fresh(mem, now)
           M == Leased(F, t, w, k, now)
<1>1. mem \in LedgerType /\ now \in Nat /\ F \in LedgerType /\ LeaseSum(F)
      /\ mem.day <= DayKey(now) /\ mem.month <= MonthKey(now)
  BY FreshKeeps DEF TypeOK, Kept
<1>2. /\ Uses(mem, F, 0) /\ F.config = mem.config
      /\ \E reaped \in SUBSET Tunnel : /\ Leases(F.entry) = LeasesWithout(mem, reaped)
                                       /\ reaped \cap F.open = {}
  BY <1>1, FreshUses
<1>3. mem' = F \/ (F.config # NoAccount /\ t \in F.open /\ mem' = M)
  BY DEF Lease, MayLease, Owns
<1> HIDE DEF F
<1>4. PICK reaped \in SUBSET Tunnel : /\ Leases(F.entry) = LeasesWithout(mem, reaped)
                                      /\ reaped \cap F.open = {}
  BY <1>2
<1>5. CASE mem' = F
  <2>1. mem'.day \in Nat /\ mem'.month \in Nat
    BY <1>1, <1>5 DEF LedgerType
  <2>2. Account!Use(0)
    BY <1>2, <1>5, <2>1 DEF Uses, Account!Use
  <2>3. Account!GiveBack(reaped)
    BY <1>2, <1>4, <1>5, <2>2 DEF Account!GiveBack, Account!Without, Account!Holder, LeasesWithout
  <2> QED BY <2>3 DEF Account!Next, Account!Holder
<1>6. CASE F.config # NoAccount /\ t \in F.open /\ mem' = M
  <2>1. /\ M.day = F.day /\ M.month = F.month /\ M.config = F.config
        /\ \E p \in 0..F.entry[t].lease, g \in 0..F.config.dayLimit :
              /\ M.dayUsed = F.dayUsed + p /\ M.monthUsed = F.monthUsed + p
              /\ Leases(M.entry) = [Leases(F.entry) EXCEPT ![t] = F.entry[t].lease - p + g]
              /\ g > 0 => InForce(M)
    BY <1>1, <1>6, LeasedUses
  <2>2. M \in LedgerType /\ LeaseSum(M)
    BY <1>1, <1>6, LeasedKeeps
  <2> HIDE DEF M
  <2>3. PICK p \in 0..F.entry[t].lease, g \in 0..F.config.dayLimit :
              /\ M.dayUsed = F.dayUsed + p /\ M.monthUsed = F.monthUsed + p
              /\ Leases(M.entry) = [Leases(F.entry) EXCEPT ![t] = F.entry[t].lease - p + g]
              /\ g > 0 => InForce(M)
    BY <2>1
  <2>4. t \notin reaped
    BY <1>4, <1>6
  <2>5. F.entry[t].lease = Leases(mem.entry)[t]
    BY <1>4, <2>4 DEF Leases, LeasesWithout
  <2>6. p \in Nat /\ F.dayUsed \in Nat /\ F.monthUsed \in Nat
    <3>1. F.entry[t].lease \in Nat
      BY <1>1 DEF LedgerType, Entry
    <3> QED BY <1>1, <3>1 DEF LedgerType
  <2>7. mem'.day \in Nat /\ mem'.month \in Nat
    BY <1>6, <2>2 DEF LedgerType
  <2>8. Account!Use(p)
    <3>1. Uses(mem, mem', p)
      BY <1>1, <1>2, <1>6, <2>1, <2>3, <2>6, UsesMore
    <3> QED BY <2>7, <3>1 DEF Uses, Account!Use
  <2>9. Leases(mem'.entry) = [LeasesWithout(mem, reaped) EXCEPT ![t] = Leases(mem.entry)[t] - p + g]
    BY <1>4, <1>6, <2>3, <2>5
  <2>10. g > 0 => Account!Fits'
    <3> SUFFICES ASSUME g > 0
                 PROVE  /\ mem'.dayUsed + Account!Total(Leases(mem'.entry), NTunnels) <= mem'.config.dayLimit
                        /\ mem'.monthUsed + Account!Total(Leases(mem'.entry), NTunnels) <= mem'.config.monthLimit
      BY DEF Account!Fits
    <3>1. InForce(mem') /\ mem'.leased = Total(Leases(mem'.entry), NTunnels)
      BY <1>6, <2>2, <2>3 DEF LeaseSum
    <3> QED BY <3>1, SumsAgree DEF InForce
  <2>11. Account!Grant(t, reaped, p, g)
    <3>1. mem'.config = mem.config
      BY <1>2, <1>6, <2>1
    <3> QED BY <2>4, <2>8, <2>9, <2>10, <3>1
            DEF Account!Grant, Account!Without, Account!Holder, LeasesWithout
  <2> QED BY <1>2, <1>6, <2>3, <2>5, <2>11 DEF Account!Next, Account!Holder
<1> QED BY <1>3, <1>5, <1>6

(* /close is the last use of its owner.                                    *)
LEMMA CloseImplements ==
  ASSUME TypeOK, Kept(disk, mem, now),
         NEW t \in Tunnel, NEW r \in Regs, NEW k \in Nat, Close(t, r, k)
  PROVE  Account!Next
<1> DEFINE R == Roll(mem, now)
           M == Closed(R, t, k)
<1>1. mem \in LedgerType /\ now \in Nat /\ R \in LedgerType
      /\ mem.day <= DayKey(now) /\ mem.month <= MonthKey(now)
  BY RollKeeps DEF TypeOK, Kept
<1>2. Uses(mem, R, 0) /\ R.config = mem.config /\ R.entry = mem.entry
  BY <1>1, RollUses
<1>3. mem' = R \/ mem' = M
  BY DEF Close
<1> HIDE DEF R
<1>4. CASE mem' = R
  <2>1. mem'.day \in Nat /\ mem'.month \in Nat
    BY <1>1, <1>4 DEF LedgerType
  <2>2. Account!Use(0)
    BY <1>2, <1>4, <2>1 DEF Uses, Account!Use
  <2>3. Account!GiveBack({})
    BY <1>2, <1>4, <2>2 DEF Account!GiveBack, Account!Without, Account!Holder, Leases
  <2> QED BY <2>3 DEF Account!Next
<1>5. CASE mem' = M
  <2>1. /\ M.day = R.day /\ M.month = R.month /\ M.config = R.config
        /\ \E p \in 0..R.entry[t].lease :
              /\ M.dayUsed = R.dayUsed + p /\ M.monthUsed = R.monthUsed + p
              /\ Leases(M.entry) = LeasesWithout(R, {t})
    BY <1>1, ClosedUses
  <2> HIDE DEF M
  <2>2. PICK p \in 0..R.entry[t].lease :
              /\ M.dayUsed = R.dayUsed + p /\ M.monthUsed = R.monthUsed + p
              /\ Leases(M.entry) = LeasesWithout(R, {t})
    BY <2>1
  <2>3. R.entry[t].lease = Leases(mem.entry)[t] /\ LeasesWithout(R, {t}) = LeasesWithout(mem, {t})
    BY <1>2 DEF Leases, LeasesWithout
  <2>4. p \in Nat /\ R.dayUsed \in Nat /\ R.monthUsed \in Nat
    <3>1. R.entry[t].lease \in Nat
      BY <1>1 DEF LedgerType, Entry
    <3> QED BY <1>1, <3>1 DEF LedgerType
  <2>5. mem'.day \in Nat /\ mem'.month \in Nat
    BY <1>1, <1>5, <2>1 DEF LedgerType
  <2>6. Account!Use(p)
    <3>1. Uses(mem, mem', p)
      BY <1>1, <1>2, <1>5, <2>1, <2>2, <2>4, UsesMore
    <3> QED BY <2>5, <3>1 DEF Uses, Account!Use
  <2>7. Account!Leave(t, p)
    BY <1>2, <1>5, <2>1, <2>2, <2>3, <2>6 DEF Account!Leave, Account!Without, Account!Holder, LeasesWithout
  <2> QED BY <2>2, <2>3, <2>7 DEF Account!Next, Account!Holder
<1> QED BY <1>3, <1>4, <1>5

(* Every step of a resident object is a step of the abstract account, or   *)
(* leaves it as it is.                                                     *)
LEMMA StepImplements ==
  ASSUME MayEvict = FALSE, MayTear = FALSE, TypeOK, Kept(disk, mem, now), LeaseSum(mem), [Next]_vars
  PROVE  [Account!Next]_(Account!vars)
<1>1. ASSUME NEW t \in Tunnel, NEW r \in Regs, NEW cred \in Hashes \cup {LegacySecret},
             Authorize(t, r, cred)
      PROVE  Account!Next
  BY <1>1, AuthorizeImplements
<1>2. ASSUME NEW t \in Tunnel, NEW r \in Regs, NEW w \in Wants, NEW k \in Consumptions,
             Lease(t, r, w, k)
      PROVE  Account!Next
  <2>1. w \in Nat /\ k \in Nat
    BY AccountAssumption
  <2> QED BY <1>2, <2>1, LeaseImplements
<1>3. ASSUME NEW t \in Tunnel, NEW r \in Regs, NEW k \in Consumptions, Close(t, r, k)
      PROVE  Account!Next
  <2>1. k \in Nat
    BY AccountAssumption
  <2> QED BY <1>3, <2>1, CloseImplements
<1>4. ASSUME NEW c \in Configs, NEW hs \in SUBSET Hashes, Configure(c, hs)
      PROVE  Account!Next
  <2>1. /\ mem'.config = c /\ mem'.entry = mem.entry
        /\ mem'.day = mem.day /\ mem'.month = mem.month
        /\ mem'.dayUsed = mem.dayUsed /\ mem'.monthUsed = mem.monthUsed
    BY <1>4 DEF Configure, TypeOK, LedgerType
  <2> QED BY <2>1 DEF Account!Next, Account!Configure, Account!windows
<1>5. CASE Bootstrap
  <2>1. /\ mem'.config \in Configs /\ mem'.entry = mem.entry
        /\ mem'.day = mem.day /\ mem'.month = mem.month
        /\ mem'.dayUsed = mem.dayUsed /\ mem'.monthUsed = mem.monthUsed
    <3>1. mem.config = NoAccount /\ mem' = [mem EXCEPT !.config = BuiltIn]
      BY <1>5 DEF Bootstrap, Booted
    <3>2. BuiltIn # NoAccount
      BY <1>5, <3>1 DEF Bootstrap, Booted, TypeOK, LedgerType
    <3> QED BY <3>1, <3>2, LedgerAssumption DEF TypeOK, LedgerType
  <2> QED BY <2>1 DEF Account!Next, Account!Configure, Account!windows
<1>6. ASSUME NEW t \in Tunnel, ReleaseId(t)
      PROVE  UNCHANGED Account!vars
  BY <1>6 DEF ReleaseId, TypeOK, LedgerType, Account!vars, Account!windows
<1>7. CASE UsageView
  <2>1. /\ Uses(mem, mem', 0) /\ mem'.config = mem.config /\ mem'.entry = mem.entry
        /\ mem' \in LedgerType
    BY <1>7, RollUses, RollKeeps DEF UsageView, TypeOK, Kept
  <2>2. mem'.day \in Nat /\ mem'.month \in Nat
    BY <2>1 DEF LedgerType
  <2>3. Account!GiveBack({})
    BY <2>1, <2>2 DEF Uses, Account!Use, Account!GiveBack, Account!Without, Account!Holder, Leases
  <2> QED BY <2>3 DEF Account!Next
<1>8. CASE UNCHANGED mem
  BY <1>8 DEF Account!vars, Account!windows
<1>9. ~ Evict /\ \A t, r, c, d : ~ TornAuthorize(t, r, c) /\ ~ TornLease(t, r, c, d) /\ ~ TornClose(t, r, c)
  BY DEF Evict, TornClose, TornLease, TornAuthorize
<1> QED BY <1>1, <1>2, <1>3, <1>4, <1>5, <1>6, <1>7, <1>8, <1>9
        DEF Next, Calls, Tick, Vanish, vars

(* A ledger as it is first read, an entry of the old shape included, is a  *)
(* state the abstract account starts in.                                   *)
LEMMA InitImplements ==
  ASSUME Init
  PROVE  Account!Init
<1> DEFINE E == EmptyLedger(Ttl + 1)
<1>1. E \in LedgerType /\ mem \in LedgerType
  BY LedgerAssumption, EmptyType, InitKeeps DEF TypeOK
<1>2. E.dayUsed = 0 /\ E.monthUsed = 0 /\ E.config = NoAccount /\ E.leased = 0
      /\ Leases(E.entry) = [t \in Tunnel |-> 0]
  BY DEF EmptyLedger, NoEntry, Leases
<1>3. mem.day \in Nat /\ mem.month \in Nat
  BY <1>1 DEF LedgerType
<1> HIDE DEF E
<1>4. CASE mem = E
  BY <1>2, <1>3, <1>4 DEF Account!Init, Account!Holder
<1>5. ASSUME NEW t \in Tunnel, NEW n \in LegacyLeases, NEW c \in Configs,
             n <= c.dayLimit, n <= c.monthLimit, mem = StoredLegacy(E, t, n, c)
      PROVE  Account!Init
  <2> DEFINE h == [s \in Tunnel |-> IF s = t THEN n ELSE 0]
  <2>1. n \in Nat /\ c.dayLimit \in Nat
    BY AccountAssumption, LedgerAssumption DEF ConfigType
  <2>2. mem.config = c /\ mem.leased = n /\ mem.dayUsed = 0 /\ mem.monthUsed = 0
        /\ mem.entry = [E.entry EXCEPT ![t] = [lease |-> n, regId |-> Blank, seen |-> 0]]
    BY <1>1, <1>2, <1>5 DEF StoredLegacy, LedgerType
  <2>3. Leases(mem.entry) = h
    <3>1. \A s \in Tunnel : E.entry[s].lease = 0
      BY <1>2 DEF Leases
    <3> DEFINE e == [lease |-> n, regId |-> Blank, seen |-> 0]
    <3>2. E.entry \in [Tunnel -> Entry] /\ e.lease = n /\ mem.entry = [E.entry EXCEPT ![t] = e]
      BY <1>1, <2>2 DEF LedgerType
    <3> HIDE DEF e
    <3>3. \A s \in Tunnel : mem.entry[s].lease = IF s = t THEN n ELSE 0
      BY <3>1, <3>2
    <3> QED BY <3>3 DEF Leases
  <2>4. Account!Total(h, NTunnels) = n
    BY <2>1, SumsAgree, TotalPoint, LedgerAssumption, ZenonT(30)
  <2>5. n \in 0..c.dayLimit
    BY <1>5, <2>1
  <2> HIDE DEF h
  <2>6. Account!Fits
    BY <1>5, <2>1, <2>2, <2>3, <2>4 DEF Account!Fits
  <2>7. Leases(mem.entry) \in {[s \in Tunnel |-> IF s = t THEN m ELSE 0] : m \in 0..mem.config.dayLimit}
    BY <2>2, <2>3, <2>5 DEF h
  <2> QED BY <1>3, <2>2, <2>6, <2>7 DEF Account!Init, Account!Holder
<1> QED BY <1>4, <1>5 DEF Init, E

(* While it is resident, AccountLedger implements CreditAccount: its       *)
(* counters, the Math.max(0, ..) on them, its windows and its reaping      *)
(* amount to credits that are handed out within the limits, used by whoever *)
(* holds them, and otherwise given back.                                   *)
THEOREM ResidentImplements ==
  ASSUME MayEvict = FALSE, MayTear = FALSE
  PROVE  Spec => CreditsKept
<1>1. Init => TypeOK /\ Balanced /\ Kept(disk, mem, now)
  BY InitKeeps, InitKept DEF Balanced
<1>2. TypeOK /\ Balanced /\ Kept(disk, mem, now) /\ [Next]_vars
        => TypeOK' /\ Balanced' /\ Kept(disk, mem, now)'
  BY TypeStep, BalanceStep, KeptStep
<1>3. TypeOK /\ Balanced /\ Kept(disk, mem, now) /\ [Next]_vars => [Account!Next]_(Account!vars)
  BY StepImplements DEF Balanced, LeasedIsSum
<1>4. Init => Account!Init
  BY InitImplements
<1> QED BY <1>1, <1>2, <1>3, <1>4, PTL DEF Spec, CreditsKept, Account!Spec
==========================================================================

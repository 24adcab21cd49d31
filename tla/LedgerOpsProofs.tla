-------------------------- MODULE LedgerOpsProofs -------------------------
(* Facts about the sums of LeaseTotals, and what each handler of the       *)
(* account preserves of a ledger.  The recursion of a sum is unfolded      *)
(* once, in RunningTotalStep; IntervalInduction, an induction over a set   *)
(* instead of a formula, carries every proof along the running total.      *)
EXTENDS LedgerOps, TLAPS, FiniteSetTheorems, WellFoundedInduction

(* A set that has 0 and the successor of each of its members below n has   *)
(* every number up to n.                                                   *)
LEMMA IntervalInduction ==
  ASSUME NEW n \in Nat, NEW S, 0 \in S, \A i \in 0..n-1 : i \in S => i+1 \in S
  PROVE  0..n \subseteq S
<1> DEFINE T == (0..n) \ S
           F == {0..x : x \in T}
           R == StrictSubsetOrdering(0..n)
<1>1. SUFFICES ASSUME T # {} PROVE FALSE
  OBVIOUS
<1>2. IsWellFoundedOn(R, FiniteSubsetsOf(0..n))
  BY FS_StrictSubsetOrderingWellFounded
<1>3. F \subseteq FiniteSubsetsOf(0..n) /\ F # {}
  <2>1. \A x \in T : 0..x \in FiniteSubsetsOf(0..n)
    <3> SUFFICES ASSUME NEW x \in T PROVE 0..x \in FiniteSubsetsOf(0..n)
      OBVIOUS
    <3>1. IsFiniteSet(0..x)
      BY FS_Interval
    <3>2. 0..x \subseteq 0..n
      OBVIOUS
    <3> QED BY <3>1, <3>2 DEF FiniteSubsetsOf
  <2> QED BY <1>1, <2>1
<1>4. PICK X \in F : \A Y \in F : ~ (<<Y, X>> \in R)
  <2> HIDE DEF R, F
  <2> QED BY <1>2, <1>3, WFMin
<1>5. PICK x \in T : X = 0..x
  OBVIOUS
<1>6. x \in Nat /\ x # 0 /\ x - 1 \in 0..n-1
  OBVIOUS
<1>7. x - 1 \in T
  BY <1>6
<1>8. <<0..(x-1), X>> \in R
  <2>1. 0..(x-1) \subseteq 0..n /\ X \subseteq 0..n /\ 0..(x-1) \subseteq X
    BY <1>5, <1>6
  <2>2. x \in X /\ x \notin 0..(x-1)
    BY <1>5, <1>6
  <2> QED BY <2>1, <2>2 DEF StrictSubsetOrdering
<1> QED BY <1>4, <1>7, <1>8

IsRunningTotal(g, f, n) == g = [i \in 0..n |-> IF i = 0 THEN 0 ELSE g[i - 1] + f[i]]

(* There is a function that satisfies the recursion of RunningTotal.       *)
LEMMA RunningTotalExists ==
  ASSUME NEW n \in Nat, NEW f
  PROVE  \E g : IsRunningTotal(g, f, n)
<1> DEFINE S == {m \in 0..n : \E g : IsRunningTotal(g, f, m)}
<1>1. 0 \in S
  <2>1. IsRunningTotal([i \in 0..0 |-> 0], f, 0)
    BY DEF IsRunningTotal
  <2> QED BY <2>1
<1>2. ASSUME NEW m \in 0..n-1, m \in S PROVE m + 1 \in S
  <2>1. PICK g : IsRunningTotal(g, f, m)
    BY <1>2
  <2> DEFINE h == [i \in 0..m+1 |-> IF i = m + 1 THEN g[m] + f[m+1] ELSE g[i]]
  <2>2. \A i \in 0..m+1 : h[i] = IF i = 0 THEN 0 ELSE h[i - 1] + f[i]
    <3> SUFFICES ASSUME NEW i \in 0..m+1 PROVE h[i] = IF i = 0 THEN 0 ELSE h[i - 1] + f[i]
      OBVIOUS
    <3>1. CASE i = m + 1
      BY <3>1
    <3>2. CASE i # m + 1
      BY <3>2, <2>1 DEF IsRunningTotal
    <3> QED BY <3>1, <3>2
  <2>3. IsRunningTotal(h, f, m + 1)
    BY <2>2 DEF IsRunningTotal
  <2> QED BY <2>3
<1>3. 0..n \subseteq S
  <2> HIDE DEF S
  <2> QED BY <1>1, <1>2, IntervalInduction
<1> QED BY <1>3

(* RunningTotal is such a function.                                        *)
LEMMA RunningTotalStep ==
  ASSUME NEW n \in Nat, NEW f
  PROVE  RunningTotal(f, n) = [i \in 0..n |-> IF i = 0 THEN 0 ELSE RunningTotal(f, n)[i - 1] + f[i]]
<1> DEFINE g == CHOOSE g : IsRunningTotal(g, f, n)
<1>1. IsRunningTotal(g, f, n)
  BY RunningTotalExists
<1>2. g = RunningTotal(f, n)
  BY DEF RunningTotal, IsRunningTotal
<1> QED BY <1>1, <1>2 DEF IsRunningTotal

(* The running total starts at 0 and grows by one term at a time.          *)
LEMMA TotalAt ==
  ASSUME NEW n \in Nat, NEW f
  PROVE  /\ RunningTotal(f, n)[0] = 0
         /\ \A i \in 0..n-1 : RunningTotal(f, n)[i + 1] = RunningTotal(f, n)[i] + f[i + 1]
<1> DEFINE r == RunningTotal(f, n)
<1>1. r = [i \in 0..n |-> IF i = 0 THEN 0 ELSE r[i - 1] + f[i]]
  BY RunningTotalStep
<1> HIDE DEF r
<1>2. r[0] = 0
  BY <1>1
<1>3. ASSUME NEW i \in 0..n-1 PROVE r[i + 1] = r[i] + f[i + 1]
  <2>1. i + 1 \in 0..n /\ i + 1 # 0 /\ (i + 1) - 1 = i
    OBVIOUS
  <2> QED BY <1>1, <2>1
<1> QED BY <1>2, <1>3 DEF r

(* The running totals of natural numbers are natural numbers.              *)
LEMMA RunningTotalNat ==
  ASSUME NEW n \in Nat, NEW f \in [1..n -> Nat]
  PROVE  \A i \in 0..n : RunningTotal(f, n)[i] \in Nat
<1> DEFINE S == {i \in 0..n : RunningTotal(f, n)[i] \in Nat}
<1>1. 0 \in S
  BY TotalAt
<1>2. ASSUME NEW i \in 0..n-1, i \in S PROVE i + 1 \in S
  <2>1. i + 1 \in 1..n /\ i + 1 \in 0..n
    OBVIOUS
  <2>2. RunningTotal(f, n)[i + 1] = RunningTotal(f, n)[i] + f[i + 1]
    BY TotalAt
  <2>3. f[i + 1] \in Nat
    BY <2>1
  <2> QED BY <1>2, <2>1, <2>2, <2>3
<1>3. 0..n \subseteq S
  <2> HIDE DEF S
  <2> QED BY <1>1, <1>2, IntervalInduction
<1> QED BY <1>3

(* The sum of the leases is a natural number.                              *)
LEMMA TotalType ==
  ASSUME NEW n \in Nat, NEW f \in [1..n -> Nat]
  PROVE  Total(f, n) \in Nat
BY RunningTotalNat DEF Total

(* The sum of pointwise sums is the sum of the sums: what reap splits.     *)
LEMMA TotalSum ==
  ASSUME NEW n \in Nat, NEW f \in [1..n -> Nat], NEW g \in [1..n -> Nat], NEW h \in [1..n -> Nat],
         \A i \in 1..n : h[i] = f[i] + g[i]
  PROVE  Total(h, n) = Total(f, n) + Total(g, n)
<1> DEFINE S == {i \in 0..n : RunningTotal(h, n)[i] = RunningTotal(f, n)[i] + RunningTotal(g, n)[i]}
<1>1. 0 \in S
  BY TotalAt
<1>2. ASSUME NEW i \in 0..n-1, i \in S PROVE i + 1 \in S
  <2>1. i + 1 \in 1..n /\ (i + 1) - 1 = i /\ i + 1 \in 0..n
    OBVIOUS
  <2>2. /\ RunningTotal(h, n)[i + 1] = RunningTotal(h, n)[i] + h[i + 1]
        /\ RunningTotal(f, n)[i + 1] = RunningTotal(f, n)[i] + f[i + 1]
        /\ RunningTotal(g, n)[i + 1] = RunningTotal(g, n)[i] + g[i + 1]
    BY TotalAt
  <2>3. /\ RunningTotal(f, n)[i] \in Nat /\ RunningTotal(g, n)[i] \in Nat
        /\ f[i + 1] \in Nat /\ g[i + 1] \in Nat /\ h[i + 1] = f[i + 1] + g[i + 1]
    <3>1. \A j \in 0..n : RunningTotal(f, n)[j] \in Nat
      BY RunningTotalNat
    <3>2. \A j \in 0..n : RunningTotal(g, n)[j] \in Nat
      BY RunningTotalNat
    <3> QED BY <2>1, <3>1, <3>2
  <2> QED BY <1>2, <2>1, <2>2, <2>3, SMTT(30)
<1>3. 0..n \subseteq S
  <2> HIDE DEF S
  <2> QED BY <1>1, <1>2, IntervalInduction
<1> QED BY <1>3 DEF Total

(* A function that is zero but at t sums to its value at t.                *)
LEMMA TotalPoint ==
  ASSUME NEW n \in Nat, NEW t \in 1..n, NEW v \in Nat
  PROVE  Total([i \in 1..n |-> IF i = t THEN v ELSE 0], n) = v
<1> DEFINE f == [i \in 1..n |-> IF i = t THEN v ELSE 0]
           S == {i \in 0..n : RunningTotal(f, n)[i] = IF i < t THEN 0 ELSE v}
<1>1. 0 \in S
  BY TotalAt
<1>2. ASSUME NEW i \in 0..n-1, i \in S PROVE i + 1 \in S
  <2>1. i + 1 \in 1..n /\ (i + 1) - 1 = i /\ i + 1 \in 0..n
    OBVIOUS
  <2>2. RunningTotal(f, n)[i + 1] = RunningTotal(f, n)[i] + f[i + 1]
    BY TotalAt
  <2>3. f[i + 1] = IF i + 1 = t THEN v ELSE 0
    BY <2>1
  <2> HIDE DEF f
  <2> QED BY <1>2, <2>1, <2>2, <2>3
<1>3. 0..n \subseteq S
  <2> HIDE DEF S
  <2> QED BY <1>1, <1>2, IntervalInduction
<1> QED BY <1>3 DEF Total

(* Changing one lease changes the sum by the difference: what commit, grant *)
(* and close rely on.                                                      *)
LEMMA TotalUpdate ==
  ASSUME NEW n \in Nat, NEW f \in [1..n -> Nat], NEW t \in 1..n, NEW v \in Nat
  PROVE  Total([f EXCEPT ![t] = v], n) = Total(f, n) - f[t] + v
<1> DEFINE rest == [f EXCEPT ![t] = 0]
           only(w) == [i \in 1..n |-> IF i = t THEN w ELSE 0]
           upd == [f EXCEPT ![t] = v]
<1>0. /\ f[t] \in Nat /\ rest \in [1..n -> Nat] /\ upd \in [1..n -> Nat]
      /\ \A w \in Nat : only(w) \in [1..n -> Nat]
  OBVIOUS
<1>1. Total(f, n) = Total(rest, n) + Total(only(f[t]), n)
  <2>1. \A i \in 1..n : f[i] = rest[i] + only(f[t])[i]
    OBVIOUS
  <2>2. only(f[t]) \in [1..n -> Nat]
    BY <1>0
  <2> HIDE DEF rest, only
  <2> QED BY <1>0, <2>1, <2>2, TotalSum, ZenonT(30)
<1>2. Total(upd, n) = Total(rest, n) + Total(only(v), n)
  <2>1. \A i \in 1..n : upd[i] = rest[i] + only(v)[i]
    OBVIOUS
  <2>2. only(v) \in [1..n -> Nat]
    BY <1>0
  <2> HIDE DEF rest, only, upd
  <2> QED BY <1>0, <2>1, <2>2, TotalSum
<1>3. Total(only(f[t]), n) = f[t] /\ Total(only(v), n) = v
  BY TotalPoint
<1>4. Total(rest, n) \in Nat
  BY TotalType
<1> HIDE DEF rest, only
<1> QED BY <1>1, <1>2, <1>3, <1>4

(* No single lease is above the sum.                                       *)
LEMMA TotalAtLeast ==
  ASSUME NEW n \in Nat, NEW f \in [1..n -> Nat], NEW t \in 1..n
  PROVE  f[t] <= Total(f, n)
<1>1. Total([f EXCEPT ![t] = 0], n) = Total(f, n) - f[t] + 0
  BY TotalUpdate
<1>2. Total([f EXCEPT ![t] = 0], n) \in Nat /\ Total(f, n) \in Nat
  BY TotalType
<1> QED BY <1>1, <1>2

(* Without leases the sum is 0.                                            *)
LEMMA TotalZero ==
  ASSUME NEW n \in Nat
  PROVE  Total([i \in 1..n |-> 0], n) = 0
<1> DEFINE f == [i \in 1..n |-> 0]
<1>1. Total(f, n) = Total(f, n) + Total(f, n)
  BY TotalSum
<1>2. Total(f, n) \in Nat
  BY TotalType
<1> QED BY <1>1, <1>2

--------------------------------------------------------------------------
(* What a handler does to the debit, the credits used and leased: it does  *)
(* not raise it, or it leaves it within the limits in force.               *)
NoDearer(A, B) == A.monthUsed + A.leased <= B.monthUsed + B.leased

InForce(L) == /\ L.dayUsed + L.leased <= L.config.dayLimit
              /\ L.monthUsed + L.leased <= L.config.monthLimit

--------------------------------------------------------------------------
(* The leases of a ledger are natural numbers.                             *)
LEMMA LeasesType ==
  ASSUME NEW L \in LedgerType
  PROVE  Leases(L.entry) \in [1..NTunnels -> Nat]
BY DEF Leases, LedgerType, Entry, Tunnel

(* While `leased` is the sum, one lease is at most `leased`: Math.max(0, ..) *)
(* in applyCommit, reap and close never bites.                             *)
LEMMA LeaseBelowSum ==
  ASSUME NEW L \in LedgerType, LeaseSum(L), NEW t \in Tunnel
  PROVE  L.entry[t].lease <= L.leased
<1>1. Leases(L.entry)[t] <= Total(Leases(L.entry), NTunnels)
  BY LeasesType, TotalAtLeast, LedgerAssumption DEF Tunnel
<1> QED BY <1>1 DEF Leases, LeaseSum

(* rollPeriods keeps the sum and the limits, and never raises the debit.   *)
LEMMA RollKeeps ==
  ASSUME NEW L \in LedgerType, NEW n \in Nat
  PROVE  /\ Roll(L, n) \in LedgerType
         /\ LeaseSum(L) => LeaseSum(Roll(L, n))
         /\ DebitWithin(L) => DebitWithin(Roll(L, n))
         /\ NoDearer(Roll(L, n), L)
<1>1. DayKey(n) \in Nat /\ MonthKey(n) \in Nat
  BY LedgerAssumption DEF DayKey, MonthKey
<1>2. Roll(L, n) \in LedgerType
  BY <1>1 DEF Roll, LedgerType
<1>3. LeaseSum(L) => LeaseSum(Roll(L, n))
  BY DEF Roll, LedgerType, LeaseSum
<1>4. /\ Roll(L, n).leased = L.leased
      /\ Roll(L, n).dayUsed <= L.dayUsed /\ Roll(L, n).monthUsed <= L.monthUsed
  BY DEF Roll, LedgerType
<1>5. DebitWithin(L) => DebitWithin(Roll(L, n))
  BY <1>2, <1>4, LedgerAssumption DEF DebitWithin, LedgerType, ConfigType
<1>6. NoDearer(Roll(L, n), L)
  BY <1>2, <1>4 DEF NoDearer, LedgerType
<1> QED BY <1>2, <1>3, <1>5, <1>6

(* reap refunds exactly the leases it forgets.                             *)
LEMMA ReapKeeps ==
  ASSUME NEW L \in LedgerType, NEW n \in Nat
  PROVE  /\ Reap(L, n) \in LedgerType
         /\ LeaseSum(L) => LeaseSum(Reap(L, n))
         /\ DebitWithin(L) => DebitWithin(Reap(L, n))
         /\ NoDearer(Reap(L, n), L)
<1> DEFINE dead == Expired(L, n)
           lost == [t \in Tunnel |-> IF t \in dead THEN L.entry[t].lease ELSE 0]
           kept == [t \in Tunnel |-> IF t \in dead THEN NoEntry ELSE L.entry[t]]
<1>1. /\ lost \in [1..NTunnels -> Nat] /\ kept \in [Tunnel -> Entry]
      /\ Leases(kept) \in [1..NTunnels -> Nat]
  BY DEF LedgerType, Entry, NoEntry, Tunnel, Leases
<1>2. Total(lost, NTunnels) \in Nat
  BY <1>1, TotalType, LedgerAssumption
<1>3. /\ Reap(L, n).open = L.open \ dead
      /\ Reap(L, n).entry = kept
      /\ Reap(L, n).leased = Less(L.leased, Total(lost, NTunnels))
      /\ Reap(L, n).dayUsed = L.dayUsed /\ Reap(L, n).monthUsed = L.monthUsed
  BY DEF Reap, LedgerType
<1>4. Less(L.leased, Total(lost, NTunnels)) \in Nat
      /\ Less(L.leased, Total(lost, NTunnels)) <= L.leased
  BY <1>2 DEF Less, LedgerType
<1>5. Reap(L, n) \in LedgerType
  BY <1>1, <1>4 DEF Reap, LedgerType
<1>6. ASSUME LeaseSum(L) PROVE LeaseSum(Reap(L, n))
  <2>1. \A t \in 1..NTunnels : Leases(L.entry)[t] = Leases(kept)[t] + lost[t]
    <3> SUFFICES ASSUME NEW t \in Tunnel
                 PROVE  Leases(L.entry)[t] = Leases(kept)[t] + lost[t]
      BY DEF Tunnel
    <3>1. L.entry[t].lease \in Nat
      BY DEF LedgerType, Entry
    <3>2. kept[t].lease = IF t \in dead THEN 0 ELSE L.entry[t].lease
      BY DEF NoEntry
    <3>3. Leases(kept)[t] = kept[t].lease /\ Leases(L.entry)[t] = L.entry[t].lease
      BY DEF Leases
    <3> QED BY <3>1, <3>2, <3>3
  <2>2. Total(Leases(L.entry), NTunnels) = Total(Leases(kept), NTunnels) + Total(lost, NTunnels)
    <3> DEFINE f == Leases(L.entry)
               g == Leases(kept)
    <3>1. f \in [1..NTunnels -> Nat]
      BY LeasesType
    <3>2. g \in [1..NTunnels -> Nat] /\ lost \in [1..NTunnels -> Nat] /\ NTunnels \in Nat
      BY <1>1, LedgerAssumption
    <3> HIDE DEF f, g, lost
    <3> QED BY <2>1, <3>1, <3>2, TotalSum DEF f, g
  <2>3. Total(Leases(kept), NTunnels) \in Nat
    <3> HIDE DEF kept
    <3> QED BY <1>1, TotalType, LedgerAssumption
  <2> HIDE DEF kept, lost
  <2> QED BY <1>2, <1>3, <1>6, <2>2, <2>3 DEF LeaseSum, Less
<1>7. DebitWithin(L) => DebitWithin(Reap(L, n))
  <2> HIDE DEF kept, lost, dead
  <2> QED BY <1>3, <1>4, LedgerAssumption DEF DebitWithin, LedgerType, ConfigType
<1>8. NoDearer(Reap(L, n), L)
  <2> HIDE DEF kept, lost, dead
  <2> QED BY <1>3, <1>4 DEF NoDearer, LedgerType
<1> QED BY <1>5, <1>6, <1>7, <1>8

(* applyCommit moves credits from leased to used and leaves the debit of both *)
(* windows as it was.                                                      *)
LEMMA CommitKeeps ==
  ASSUME NEW L \in LedgerType, NEW t \in Tunnel, NEW c \in Nat
  PROVE  /\ Commit(L, t, c) \in LedgerType
         /\ Commit(L, t, c).open = L.open /\ Commit(L, t, c).config = L.config
         /\ LeaseSum(L) => /\ LeaseSum(Commit(L, t, c))
                           /\ Commit(L, t, c).dayUsed + Commit(L, t, c).leased = L.dayUsed + L.leased
                           /\ Commit(L, t, c).monthUsed + Commit(L, t, c).leased = L.monthUsed + L.leased
<1> DEFINE p == Smaller(c, L.entry[t].lease)
           rest == [L.entry EXCEPT ![t].lease = @ - p]
           after == Commit(L, t, c)
<1>0. L.entry[t] \in Entry
  BY DEF LedgerType
<1>1. p \in Nat /\ p <= L.entry[t].lease
  BY <1>0 DEF Smaller, Entry
<1>2. rest \in [Tunnel -> Entry]
  BY <1>0, <1>1 DEF LedgerType, Entry
<1>3. /\ after.entry = rest /\ after.leased = Less(L.leased, p)
      /\ after.dayUsed = L.dayUsed + p /\ after.monthUsed = L.monthUsed + p
      /\ after.open = L.open /\ after.config = L.config
  BY DEF Commit, LedgerType
<1>4. Less(L.leased, p) \in Nat
  BY <1>1 DEF Less, LedgerType
<1>5. after \in LedgerType
  <2>1. after = [L EXCEPT !.entry = rest, !.leased = Less(L.leased, p),
                          !.dayUsed = L.dayUsed + p, !.monthUsed = L.monthUsed + p]
    BY DEF Commit, LedgerType
  <2>2. L.dayUsed + p \in Nat /\ L.monthUsed + p \in Nat
    <3> HIDE DEF p
    <3> QED BY <1>1 DEF LedgerType
  <2> DEFINE q == Less(L.leased, p)
             d == L.dayUsed + p
             m == L.monthUsed + p
  <2>3. q \in Nat /\ d \in Nat /\ m \in Nat
    BY <1>4, <2>2
  <2>4. after = [L EXCEPT !.entry = rest, !.leased = q, !.dayUsed = d, !.monthUsed = m]
    BY <2>1
  <2> HIDE DEF p, rest, after, q, d, m
  <2> QED BY <1>2, <2>3, <2>4 DEF LedgerType
<1>6. ASSUME LeaseSum(L)
      PROVE  /\ LeaseSum(after)
             /\ after.dayUsed + after.leased = L.dayUsed + L.leased
             /\ after.monthUsed + after.leased = L.monthUsed + L.leased
  <2>1. p <= L.leased
    <3>1. L.entry[t].lease <= L.leased
      BY <1>6, LeaseBelowSum
    <3> QED BY <1>0, <1>1, <3>1 DEF LedgerType, Entry
  <2>2. Less(L.leased, p) = L.leased - p
    BY <1>1, <2>1 DEF Less, LedgerType
  <2>3. Leases(rest) = [Leases(L.entry) EXCEPT ![t] = L.entry[t].lease - p]
    BY DEF Leases, LedgerType, Entry
  <2>4. L.entry[t].lease - p \in Nat /\ Leases(L.entry)[t] = L.entry[t].lease
    BY <1>0, <1>1 DEF Leases, Entry
  <2>5. Total(Leases(rest), NTunnels)
          = Total(Leases(L.entry), NTunnels) - L.entry[t].lease + (L.entry[t].lease - p)
    BY <2>3, <2>4, LeasesType, TotalUpdate, LedgerAssumption DEF Tunnel
  <2>6. LeaseSum(after)
    <3> HIDE DEF p, rest, after
    <3> QED BY <1>0, <1>1, <1>3, <1>6, <2>2, <2>5 DEF LeaseSum, LedgerType, Entry
  <2> HIDE DEF p, after
  <2> QED BY <1>1, <1>3, <2>2, <2>6 DEF LedgerType
<1> QED BY <1>3, <1>5, <1>6

(* A positive grant fits in what both windows have left.                   *)
LEMMA GrantType ==
  ASSUME NEW L \in LedgerType, NEW w \in Nat, L.config # NoAccount
  PROVE  /\ Grant(L, w) \in Nat
         /\ Grant(L, w) > 0 => /\ L.dayUsed + L.leased + Grant(L, w) <= L.config.dayLimit
                               /\ L.monthUsed + L.leased + Grant(L, w) <= L.config.monthLimit
<1>1. L.config \in ConfigType
  BY LedgerAssumption DEF LedgerType
<1> QED BY <1>1 DEF Grant, Smaller, DayRemaining, MonthRemaining, ConfigType, LedgerType

(* /lease keeps the sum and the limits, whatever consumption is reported, and *)
(* raises the debit only within the limits in force.                       *)
LEMMA LeasedKeeps ==
  ASSUME NEW L \in LedgerType, NEW t \in Tunnel, NEW w \in Nat, NEW c \in Nat, NEW n \in Nat,
         L.config # NoAccount
  PROVE  /\ Leased(L, t, w, c, n) \in LedgerType
         /\ LeaseSum(L) => /\ LeaseSum(Leased(L, t, w, c, n))
                           /\ DebitWithin(L) => DebitWithin(Leased(L, t, w, c, n))
                           /\ \/ NoDearer(Leased(L, t, w, c, n), L)
                              \/ InForce(Leased(L, t, w, c, n))
<1> DEFINE paid == Commit(L, t, c)
           g == Grant(paid, w)
           after == Leased(L, t, w, c, n)
           held == [paid.entry EXCEPT ![t].lease = @ + g, ![t].seen = n]
<1>1. paid \in LedgerType /\ paid.config = L.config
  BY CommitKeeps
<1>2. /\ g \in Nat
      /\ g > 0 => /\ paid.dayUsed + paid.leased + g <= paid.config.dayLimit
                  /\ paid.monthUsed + paid.leased + g <= paid.config.monthLimit
  <2> HIDE DEF paid
  <2> QED BY <1>1, GrantType
<1>3. /\ after = [paid EXCEPT !.entry = held, !.leased = paid.leased + g]
      /\ paid.entry[t] \in Entry
  BY <1>1 DEF Leased, LedgerType
<1>4. held \in [Tunnel -> Entry]
  <2> HIDE DEF paid, g
  <2> QED BY <1>1, <1>2, <1>3 DEF LedgerType, Entry
<1>5. after \in LedgerType
  <2> DEFINE s == paid.leased + g
  <2>1. s \in Nat
    <3> HIDE DEF paid, g
    <3> QED BY <1>1, <1>2 DEF LedgerType
  <2>2. after = [paid EXCEPT !.entry = held, !.leased = s]
    BY <1>3
  <2> HIDE DEF paid, g, held, after, s
  <2> QED BY <1>1, <1>4, <2>1, <2>2 DEF LedgerType
<1>6. ASSUME LeaseSum(L) PROVE LeaseSum(after)
  <2>1. LeaseSum(paid)
    BY <1>6, CommitKeeps
  <2>2. Leases(held) = [Leases(paid.entry) EXCEPT ![t] = paid.entry[t].lease + g]
    <3> HIDE DEF paid, g
    <3> QED BY <1>1, <1>2, <1>3 DEF Leases, LedgerType, Entry
  <2>3. paid.entry[t].lease + g \in Nat /\ Leases(paid.entry)[t] = paid.entry[t].lease
    <3> HIDE DEF paid, g
    <3> QED BY <1>2, <1>3 DEF Leases, Entry
  <2>4. Leases(paid.entry) \in [1..NTunnels -> Nat] /\ t \in 1..NTunnels /\ NTunnels \in Nat
    <3> HIDE DEF paid
    <3> QED BY <1>1, LeasesType, LedgerAssumption DEF Tunnel
  <2>5. Total(Leases(held), NTunnels)
          = Total(Leases(paid.entry), NTunnels) - paid.entry[t].lease + (paid.entry[t].lease + g)
    <3> DEFINE f == Leases(paid.entry)
               v == paid.entry[t].lease + g
    <3>1. Total([f EXCEPT ![t] = v], NTunnels) = Total(f, NTunnels) - f[t] + v
      <4> HIDE DEF f, v
      <4> QED BY <2>3, <2>4, TotalUpdate DEF f, v
    <3> QED BY <2>2, <2>3, <3>1
  <2> HIDE DEF paid, g, held, after
  <2> QED BY <1>1, <1>2, <1>3, <2>1, <2>3, <2>5 DEF LeaseSum, LedgerType, Entry
<1>7. ASSUME LeaseSum(L)
      PROVE  /\ DebitWithin(L) => DebitWithin(after)
             /\ NoDearer(after, L) \/ InForce(after)
  <2>1. /\ paid.dayUsed + paid.leased = L.dayUsed + L.leased
        /\ paid.monthUsed + paid.leased = L.monthUsed + L.leased
    BY <1>7, CommitKeeps
  <2>2. /\ after.config = L.config
        /\ after.dayUsed + after.leased = L.dayUsed + L.leased + g
        /\ after.monthUsed + after.leased = L.monthUsed + L.leased + g
    <3> HIDE DEF paid, g, held, after
    <3> QED BY <1>1, <1>2, <1>3, <2>1 DEF LedgerType
  <2>3. CASE g = 0
    <3> HIDE DEF paid, g, held, after
    <3> QED BY <2>2, <2>3 DEF DebitWithin, NoDearer, LedgerType
  <2>4. CASE g > 0
    <3> HIDE DEF paid, g, held, after
    <3> QED BY <1>1, <1>2, <2>1, <2>2, <2>4, LedgerAssumption DEF DebitWithin, InForce, LedgerType
  <2> QED BY <1>2, <2>3, <2>4
<1> QED BY <1>5, <1>6, <1>7

(* /close refunds exactly the remainder of the lease it settles.           *)
LEMMA ClosedKeeps ==
  ASSUME NEW L \in LedgerType, NEW t \in Tunnel, NEW c \in Nat
  PROVE  /\ Closed(L, t, c) \in LedgerType
         /\ LeaseSum(L) => /\ LeaseSum(Closed(L, t, c))
                           /\ DebitWithin(L) => DebitWithin(Closed(L, t, c))
                           /\ NoDearer(Closed(L, t, c), L)
<1> DEFINE paid == Commit(L, t, c)
           left == paid.entry[t].lease
           rest == [paid.entry EXCEPT ![t] = NoEntry]
           after == Closed(L, t, c)
<1>1. paid \in LedgerType
  BY CommitKeeps
<1>2. /\ after = [paid EXCEPT !.open = @ \ {t}, !.entry = rest, !.leased = Less(paid.leased, left)]
      /\ left \in Nat
  BY <1>1 DEF Closed, LedgerType, Entry
<1>3. rest \in [Tunnel -> Entry]
  <2> HIDE DEF paid
  <2> QED BY <1>1 DEF LedgerType, Entry, NoEntry
<1>4. Less(paid.leased, left) \in Nat /\ Less(paid.leased, left) <= paid.leased
  <2> HIDE DEF paid, left
  <2> QED BY <1>1, <1>2 DEF Less, LedgerType
<1>5. after \in LedgerType
  <2> HIDE DEF paid, left, rest, after
  <2> QED BY <1>1, <1>2, <1>3, <1>4 DEF LedgerType
<1>6. ASSUME LeaseSum(L) PROVE LeaseSum(after)
  <2>1. LeaseSum(paid)
    BY <1>6, CommitKeeps
  <2>2. left <= paid.leased
    <3> HIDE DEF paid
    <3> QED BY <1>1, <2>1, LeaseBelowSum
  <2>3. Leases(rest) = [Leases(paid.entry) EXCEPT ![t] = 0]
    <3> HIDE DEF paid
    <3> QED BY <1>1 DEF Leases, LedgerType, Entry, NoEntry
  <2>4. /\ Leases(paid.entry) \in [1..NTunnels -> Nat] /\ t \in 1..NTunnels /\ NTunnels \in Nat
        /\ Leases(paid.entry)[t] = left
    <3> HIDE DEF paid
    <3> QED BY <1>1, LeasesType, LedgerAssumption DEF Tunnel, Leases
  <2>5. Total(Leases(rest), NTunnels) = Total(Leases(paid.entry), NTunnels) - left + 0
    <3> DEFINE f == Leases(paid.entry)
    <3>1. Total([f EXCEPT ![t] = 0], NTunnels) = Total(f, NTunnels) - f[t] + 0
      <4> HIDE DEF f
      <4> QED BY <2>4, TotalUpdate DEF f
    <3> QED BY <2>3, <2>4, <3>1
  <2> HIDE DEF paid, left, rest, after
  <2> QED BY <1>1, <1>2, <2>1, <2>2, <2>5 DEF LeaseSum, LedgerType, Less
<1>7. ASSUME LeaseSum(L)
      PROVE  (DebitWithin(L) => DebitWithin(after)) /\ NoDearer(after, L)
  <2>1. /\ paid.dayUsed + paid.leased = L.dayUsed + L.leased
        /\ paid.monthUsed + paid.leased = L.monthUsed + L.leased
    BY <1>7, CommitKeeps
  <2> HIDE DEF paid, left, rest, after
  <2>2. /\ after.dayUsed + after.leased <= L.dayUsed + L.leased
        /\ after.monthUsed + after.leased <= L.monthUsed + L.leased
    BY <1>1, <1>2, <1>4, <2>1 DEF LedgerType
  <2> QED BY <1>5, <1>7, <2>2, LedgerAssumption DEF DebitWithin, NoDearer, LedgerType, ConfigType
<1> QED BY <1>5, <1>6, <1>7

--------------------------------------------------------------------------
(* What rolling and reaping, the start of /authorize and /lease, preserve. *)
LEMMA FreshKeeps ==
  ASSUME NEW L \in LedgerType, NEW n \in Nat
  PROVE  /\ Fresh(L, n) \in LedgerType
         /\ LeaseSum(L) => LeaseSum(Fresh(L, n))
         /\ DebitWithin(L) => DebitWithin(Fresh(L, n))
         /\ NoDearer(Fresh(L, n), L)
<1> DEFINE R == Roll(L, n)
<1>1. R \in LedgerType /\ (LeaseSum(L) => LeaseSum(R)) /\ (DebitWithin(L) => DebitWithin(R))
      /\ NoDearer(R, L)
  BY RollKeeps
<1>2. Fresh(L, n) = Reap(R, n)
  BY DEF Fresh
<1> HIDE DEF R
<1>3. Reap(R, n) \in LedgerType /\ (LeaseSum(R) => LeaseSum(Reap(R, n)))
      /\ (DebitWithin(R) => DebitWithin(Reap(R, n))) /\ NoDearer(Reap(R, n), R)
  BY <1>1, ReapKeeps
<1>4. NoDearer(Reap(R, n), L)
  BY <1>1, <1>3 DEF NoDearer, LedgerType
<1> QED BY <1>1, <1>2, <1>3, <1>4

(* The ledger of a new account is well formed and balanced.                *)
LEMMA EmptyType ==
  ASSUME NEW n \in Nat
  PROVE  /\ EmptyLedger(n) \in LedgerType /\ LeaseSum(EmptyLedger(n))
         /\ DebitWithin(EmptyLedger(n))
<1>1. DayKey(n) \in Nat /\ MonthKey(n) \in Nat
  BY LedgerAssumption DEF DayKey, MonthKey
<1>2. EmptyLedger(n) \in LedgerType
  BY <1>1 DEF EmptyLedger, LedgerType, Entry, NoEntry
<1>3. Leases(EmptyLedger(n).entry) = [i \in 1..NTunnels |-> 0]
  BY DEF EmptyLedger, Leases, NoEntry, Tunnel
<1>4. LeaseSum(EmptyLedger(n))
  BY <1>3, TotalZero, LedgerAssumption DEF LeaseSum, EmptyLedger
<1>5. DebitWithin(EmptyLedger(n))
  BY LedgerAssumption DEF DebitWithin, EmptyLedger, ConfigType
<1> QED BY <1>2, <1>4, <1>5

(* ensureBootstrap only sets a configuration.                              *)
LEMMA BootedKeeps ==
  ASSUME NEW L \in LedgerType
  PROVE  /\ Booted(L) \in LedgerType
         /\ LeaseSum(L) => LeaseSum(Booted(L))
         /\ DebitWithin(L) => DebitWithin(Booted(L))
<1>1. Booted(L) \in LedgerType
  BY LedgerAssumption DEF Booted, LedgerType
<1>2. /\ Booted(L).leased = L.leased /\ Booted(L).entry = L.entry
      /\ Booted(L).dayUsed = L.dayUsed /\ Booted(L).monthUsed = L.monthUsed
  BY DEF Booted, LedgerType
<1> QED BY <1>1, <1>2 DEF LeaseSum, DebitWithin

(* /authorize keeps the outstanding lease of a tunnel that is replaced.    *)
LEMMA AdmittedKeeps ==
  ASSUME NEW L \in LedgerType, NEW t \in Tunnel, NEW r \in Regs, NEW n \in Nat
  PROVE  /\ Admitted(L, t, r, n) \in LedgerType
         /\ LeaseSum(L) => LeaseSum(Admitted(L, t, r, n))
         /\ DebitWithin(L) => DebitWithin(Admitted(L, t, r, n))
<1> DEFINE held == [L.entry EXCEPT ![t] = [lease |-> L.entry[t].lease, regId |-> r, seen |-> n]]
           after == Admitted(L, t, r, n)
<1>1. held \in [Tunnel -> Entry] /\ Leases(held) = Leases(L.entry)
  BY DEF LedgerType, Entry, Leases
<1>2. after = [L EXCEPT !.open = @ \cup {t}, !.entry = held, !.reserved = @ \cup {t}]
  BY DEF Admitted, LedgerType
<1>3. after \in LedgerType
  <2> HIDE DEF held, after
  <2> QED BY <1>1, <1>2 DEF LedgerType
<1>4. /\ after.leased = L.leased /\ after.entry = held
      /\ after.dayUsed = L.dayUsed /\ after.monthUsed = L.monthUsed
  <2> HIDE DEF held, after
  <2> QED BY <1>2 DEF LedgerType
<1> HIDE DEF held, after
<1> QED BY <1>1, <1>3, <1>4 DEF LeaseSum, DebitWithin, after
==========================================================================

SPECIFICATION Spec
CONSTANTS
  NTunnels = 2
  Regs = {r1, r2}
  Blank = Blank
  Hashes = {h1}
  LegacySecret = LegacySecret
  Configs <- TwoLimits
  NoAccount = NoAccount
  BuiltIn <- Built
  Ttl = 1
  DayLen = 1
  MonthLen = 2
  Wants = {1, 2}
  Consumptions = {0, 1}
  LegacyLeases = {1}
  MaxNow = 4
  MaxLease = 9
  MayEvict = FALSE
  MayTear = FALSE
SYMMETRY RegSymmetry
INVARIANTS
  TypeOK
  LeasedIsSum
  WithinLimits
PROPERTIES
  NoOvergrant
  CreditsKept

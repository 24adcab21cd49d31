SPECIFICATION Spec
CONSTANTS
  NTunnels = 2
  Regs = {r1}
  Blank = Blank
  Hashes = {}
  LegacySecret = LegacySecret
  Configs <- TightLimit
  NoAccount = NoAccount
  BuiltIn = NoAccount
  Ttl = 1
  DayLen = 2
  MonthLen = 4
  Wants = {1}
  Consumptions = {1}
  LegacyLeases = {}
  MaxNow = 4
  MaxLease = 2
  MayEvict = TRUE
  MayTear = FALSE
INVARIANTS
  LeasedIsSum

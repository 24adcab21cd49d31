SPECIFICATION FairSpec
CONSTANTS
  NTunnels = 2
  Regs = {r1}
  Blank = Blank
  Hashes = {}
  LegacySecret = LegacySecret
  Configs <- OneSlot
  NoAccount = NoAccount
  BuiltIn = NoAccount
  Ttl = 0
  DayLen = 1
  MonthLen = 2
  Wants = {1}
  Consumptions = {0, 1}
  LegacyLeases = {}
  MaxNow = 3
  MaxLease = 2
  MayEvict = TRUE
  MayTear = TRUE
INVARIANTS
  EntriesDurable
  UsageDurable
PROPERTY VanishedReclaimed

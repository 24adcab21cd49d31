SPECIFICATION FairSpec
CONSTANTS
  NTunnels = 1
  Regs = {s1, s2}
  Blank = Blank
  Hashes = {}
  LegacySecret = LegacySecret
  Configs <- Mixed
  NoAccount = NoAccount
  BuiltIn = NoAccount
  Ttl = 9
  DayLen = 100
  MonthLen = 100
  None = None
  NoCall = NoCall
  Unserved = Unserved
  FlushEvery = 2
  MaxTraffic = 4
  MaxQueue = 3
  MaxNow = 10
  MayTimeout = FALSE
  MayHibernate = FALSE
INVARIANTS
  TypeOK
  OwnerHoldsEntry
  ExactAtRest
  HardCap
PROPERTY Released
CHECK_DEADLOCK FALSE

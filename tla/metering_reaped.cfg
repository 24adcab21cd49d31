SPECIFICATION Spec
CONSTANTS
  NTunnels = 1
  Regs = {s1, s2}
  Blank = Blank
  Hashes = {}
  LegacySecret = LegacySecret
  Configs <- Tight
  NoAccount = NoAccount
  BuiltIn = NoAccount
  Ttl = 0
  DayLen = 100
  MonthLen = 100
  None = None
  NoCall = NoCall
  Unserved = Unserved
  FlushEvery = 2
  MaxTraffic = 3
  MaxQueue = 2
  MaxNow = 3
  MayTimeout = TRUE
  MayHibernate = TRUE
SYMMETRY SockSymmetry
INVARIANTS
  Backed
  NeverOverbilled
CHECK_DEADLOCK FALSE

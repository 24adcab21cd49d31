SPECIFICATION Spec
CONSTANTS
  NTunnels = 1
  Regs = {s1, s2, s3}
  Blank = Blank
  Hashes = {}
  LegacySecret = LegacySecret
  Configs <- Tight
  NoAccount = NoAccount
  BuiltIn = NoAccount
  Ttl = 9
  DayLen = 100
  MonthLen = 100
  None = None
  NoCall = NoCall
  Unserved = Unserved
  FlushEvery = 2
  MaxTraffic = 4
  MaxQueue = 3
  MaxNow = 10
  MayTimeout = FALSE
  MayHibernate = TRUE
SYMMETRY SockSymmetry
INVARIANT OvershootBound
CHECK_DEADLOCK FALSE

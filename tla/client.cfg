SPECIFICATION Spec
CONSTANTS
  Sock = {s1, s2, s3}
  NoSock = NoSock
  MaxDelay = 6
INVARIANTS
  TypeOK
  OneLoop
  NeverGivesUp
  TimersOwned
PROPERTY
  BackoffEarned
CHECK_DEADLOCK FALSE

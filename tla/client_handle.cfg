SPECIFICATION Spec
CONSTANTS
  Sock = {s1, s2, s3}
  NoSock = NoSock
  MaxDelay = 6
PROPERTY
  TornDown
CHECK_DEADLOCK FALSE

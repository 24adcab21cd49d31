SPECIFICATION Spec
CONSTANTS
  A = A
  B = B
  Slug = {A, B}
  Device = {1, 3}
  Account <- AccountOf
  Legacy = {}
  Sock = {s1, s2}
  Rev = {r1, r2}
  Root = Root
  NoRecord = NoRecord
  Ttl = 1
  MaxNow = 0
  MaxQueue = 2
  MaxTokens = 0
  Unreliable = {}
SYMMETRY Symmetry
PROPERTY ReleaseOwnOnly
CHECK_DEADLOCK FALSE

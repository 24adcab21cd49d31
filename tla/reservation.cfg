SPECIFICATION Spec
CONSTANTS
  A = A
  B = B
  Slug = {A, B}
  Device = {1, 2, 3, 4}
  Account <- AccountOf
  Legacy = {4}
  Sock = {s1, s2}
  Rev = {r1}
  Root = Root
  NoRecord = NoRecord
  Ttl = 0
  MaxNow = 1
  MaxQueue = 2
  MaxTokens = 2
  Unreliable = {"resolve", "fence", "authorize", "release"}
SYMMETRY Symmetry
INVARIANTS
  TypeOK
  ServedByOwner
  RecordHasSlot
PROPERTIES
  ClockMonotone
  FencedToNewest
CHECK_DEADLOCK FALSE

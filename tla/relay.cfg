SPECIFICATION FairSpec
CONSTANTS
  Visitor = {v1}
  Browser = {b1}
  Gens = 2
  MaxCallers = 1
  MaxChunks = 1
  Capture = TRUE
  Malformed = FALSE
INVARIANTS
  TypeOK
  Held
  SentOnServing
  NoReadLeftWaiting
  TakenOnce
  Abortable
  Reachable
  BoundToRegistration
PROPERTIES
  Exchanged
  EveryoneServed
  BothEndsClose
CHECK_DEADLOCK FALSE

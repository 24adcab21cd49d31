SPECIFICATION Spec
CONSTANTS
  A = A
  B = B
  C = C
  Slug = {A, B, C}
  Internal = C
  Token = {t1, t2}
  TokenSlug <- AllOfA
  Req = {q1, q2, q3}
  Absent = Absent
  Limits = {1, 2}
  SignupLimit = 1
  InternalLimit = 2
  Global = 3
  MayBoot = TRUE
  MayLose = TRUE
SYMMETRY Symmetry
INVARIANTS
  TypeOK
  Converged
  RevokedOut
  CeilingApart
CHECK_DEADLOCK FALSE

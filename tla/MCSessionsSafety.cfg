\* A desktop that behaves and a device whose tokens are presented again.
CONSTANTS
  d1 = d1
  d2 = d2
  None = None
  Device = {d1, d2}
  Token = {t1, t2, t3}
  Rotation = {r1, r2}
  Revocable = {d2}
  Copied = {d2}
  Leavers = {d2}
SPECIFICATION Spec
SYMMETRY Symmetry
CHECK_DEADLOCK FALSE
INVARIANTS
  TypeOK
  LateTokensAreDeadEnds
  HonestSessionsSurvive
PROPERTIES
  LineagesAreBatons

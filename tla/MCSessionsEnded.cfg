\* An exchange under way when its lineage is ended.
CONSTANTS
  d1 = d1
  d2 = d2
  None = None
  Device = {d1, d2}
  Token = {t1, t2, t3}
  Rotation = {r1, r2}
  Revocable = {}
  Copied = {d2}
  Leavers = {}
SPECIFICATION Spec
SYMMETRY Symmetry
CHECK_DEADLOCK FALSE
INVARIANTS
  EndedLineagesStayDead

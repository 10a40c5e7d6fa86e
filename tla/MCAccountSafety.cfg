\* Two devices and two codes, two requests at once.
CONSTANTS
  None = None
  Device = {d1, d2}
  Challenge = {c1, c2}
  Call = {k1, k2}
  MaxAttempts = 1
  MaxResends = 1
  Threshold = 2
SPECIFICATION Spec
SYMMETRY Symmetry
INVARIANTS
  TypeOK
  BudgetsHold
  RivalsOnly
  ProvedTwice
PROPERTIES
  CodesWorkOnce
  RevokedStaysOut

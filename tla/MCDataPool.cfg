\* One member, one Pass of one or two units of data, two requests at once.
CONSTANTS
  None = None
  Member = {m1}
  Pass = {p1}
  Socket = {x1}
  Call = {k1, k2}
  Event = {e1, e2}
  Plan = 2
SYMMETRY Symmetry
SPECIFICATION Spec
INVARIANTS
  TypeOK
  NeverOvercharged
PROPERTIES
  PassesWorkOnce
  OutHearsNothing
  LimitStops

\* Two requests for one machine, neither of which sees the other.
CONSTANTS
  a1 = a1
  a2 = a2
  None = None
  Agent = {a1}
  WakeHelpers = {}
  Command = {c1, c2}
  Caller = {k1, k2}
  Poll = {p1}
  Challenge = {x1}
  Ttl = 1
  Countdown = 0
  LastRequest = 0
  Revocable = {}
  Drift <- NoDrift
  Skew = 1
  Legacy = {}
  Steady = {}
SPECIFICATION Spec
SYMMETRY Symmetry
INVARIANTS
  OneOutstandingPerMachine

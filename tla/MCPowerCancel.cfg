\* A cancel that races the poll which collects the command.
CONSTANTS
  a1 = a1
  a2 = a2
  None = None
  Agent = {a1, a2}
  WakeHelpers = {a2}
  Command = {c1}
  Caller = {k1}
  Poll = {p1, p2}
  Challenge = {x1}
  Ttl = 2
  Countdown = 1
  LastRequest = 0
  Revocable = {}
  Drift <- MCDrift
  Skew = 0
  Legacy = {}
  Steady = {}
SPECIFICATION Spec
SYMMETRY Symmetry
INVARIANTS
  CancelledBeforeSent

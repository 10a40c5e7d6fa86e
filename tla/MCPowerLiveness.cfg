\* Liveness, with one agent that keeps running and one that may do anything.
CONSTANTS
  a1 = a1
  a2 = a2
  None = None
  Agent = {a1, a2}
  WakeHelpers = {a2}
  Command = {c1}
  Caller = {k1}
  Poll = {p1}
  Challenge = {x1}
  Ttl = 1
  Countdown = 1
  LastRequest = 0
  Revocable = {a1}
  Drift <- NoDrift
  Skew = 1
  Legacy = {a1}
  Steady = {a2}
SPECIFICATION FairSpec
PROPERTIES
  EveryCommandSettles

\* Can a session the control plane has ended be streamed for ever?
CONSTANTS
  None = None
  Agent = {a1}
  Session = {s1}
  Call = {k1, k2}
  Challenge = {x1}
  Steady = {a1}
  Reached = {s1}
SPECIFICATION FairSpec
PROPERTY
  EndedSessionStopsStream

\* One computer, one row, two requests at once.
CONSTANTS
  None = None
  Agent = {a1}
  Session = {s1}
  Call = {k1, k2}
  Challenge = {x1}
  Steady = {a1}
  Reached = {s1}
SPECIFICATION FairSpec
INVARIANTS
  TypeOK
  StartedOncePerLife
PROPERTIES
  NeverBackToConnecting
  QuietEndIsFinal
  StreamsOnce
  EverySessionEnds
  ClosedWindowStopsStream

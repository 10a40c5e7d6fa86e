\* Two sign-ins, an own Space and another's.
CONSTANTS
  l1 = l1
  l2 = l2
  home = home
  office = office
  None = None
  Spaces = {home, office}
  Owned = {home}
  Logins = {l1, l2}
  FirstOf <- MCFirstOf
  Most = 2
SPECIFICATION Spec
INVARIANTS
  EndedSessionStaysEnded
  NobodyWaitsInVain

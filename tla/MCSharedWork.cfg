\* Two key pairs, one token, one print job and one transfer, two requests at once.
CONSTANTS
  None = None
  Identity = {d1, d2}
  Token = {t1}
  Call = {k1, k2}
  Job = {j1}
  Transfer = {x1}
SPECIFICATION FairSpec
INVARIANTS
  TypeOK
  EnrolledAsItself
  DocumentHeldWhileQueued
PROPERTIES
  TokensWorkOnce
  ForgottenForCause
  RevokedCollectsNothing
  RevokedIsForgotten

SPECIFICATION FairSpec
CONSTANTS
  d1 = d1
  d2 = d2
  c1 = c1
  c2 = c2
  c3 = c3
  None = None
  Databases = {d1, d2}
  Callers = {c1, c2, c3}
  Reentrant = {c3}
  MaxCalls = 2
  MaxVersion = 1
  Home <- MCHome
INVARIANTS
  TypeOK
  MutualExclusion
  UnwrapSucceeds
  HandlesBounded
PROPERTIES
  NeverDisconnected
  SettledConnection
  SelfBlockedIsFinal
  ServiceSpec
  CallsReturn
CHECK_DEADLOCK FALSE

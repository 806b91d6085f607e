SPECIFICATION Spec
CONSTANTS
  d1 = d1
  d2 = d2
  c1 = c1
  c2 = c2
  c3 = c3
  None = None
  Databases = {d1, d2}
  Callers = {c1, c3}
  Reentrant = {}
  MaxCalls = 1
  MaxVersion = 0
  Home <- MCHome
PROPERTY KeepsOneConnection
CHECK_DEADLOCK FALSE

SPECIFICATION Spec
CONSTANTS
  c1 = c1
  c2 = c2
  pg = pg
  my = my
  Calls = {c1, c2}
  NoName = NoName
  Absent = Absent
  Sources <- MCSources
  Argument <- MCArgument
  Table <- MCTable
  Rules <- MCRules
  Name <- MCName
  MaxDrops = 1
INVARIANT
  EachSourceItsOwn
CHECK_DEADLOCK FALSE

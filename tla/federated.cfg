SPECIFICATION FairSpec
CONSTANTS
  c1 = c1
  c2 = c2
  pg = pg
  my = my
  Calls = {c1, c2}
  NoName = NoName
  Absent = Absent
  Sources <- MCSources
  Argument <- MCArgument
  Table <- MCTable
  Rules <- MCRules
  Name <- MCName
  MaxDrops = 1
INVARIANTS
  TypeOK
  ForeignReadsAreRaces
  RowsAccountForSources
PROPERTIES
  BindsReturn
CHECK_DEADLOCK FALSE

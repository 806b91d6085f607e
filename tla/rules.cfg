SPECIFICATION Spec
CONSTANTS
  Null = Null
  NoTable = NoTable
  NoBound = NoBound
  NoAnswer = NoAnswer
  Split <- MCSplit
  Trim <- MCTrim
  Unquote <- MCUnquote
  Empty <- MCEmpty
  Big = 1000
  Length <- MCLength
  Rows <- MCRows
  KeySets <- MCKeySets
  Cases <- MCCases
  MaxRows = 3
  MaxCommits = 2
  Everything = TRUE
  Only = "unique"
INVARIANTS
  TypeOK
  VerdictIsWitnessed
  UniqueExactWhenQuiet
  CountsAreWitnessed
  PassesAreAnswered
  BatchAgreesWithStandalone
CHECK_DEADLOCK FALSE

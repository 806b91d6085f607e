SPECIFICATION Spec
CONSTANTS
  Null = Null
  NoTable = NoTable
  NoBound = NoBound
  NoAnswer = NoAnswer
  Big = 1000
  Length <- MCLength
  Contents <- MCContents
  Missing = "missing"
  Width = 2
  Inexact = 2
  Lossy = FALSE
  MaxFed = 2
  MaxCommits = 1
CHECK_DEADLOCK FALSE
INVARIANT SuggestedChecksRun

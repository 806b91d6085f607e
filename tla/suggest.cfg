SPECIFICATION FairSpec
CONSTANTS
  Null = Null
  NoTable = NoTable
  NoBound = NoBound
  NoAnswer = NoAnswer
  Big = 1000
  Length <- MCLength
  Contents <- MCContents
  Missing = "missing"
  Width = 2
  Inexact = 2
  Lossy = TRUE
  MaxFed = 2
  MaxCommits = 1
INVARIANTS
  TypeOK
  SuggestedChecksFail
  MembersAnswered
PROPERTIES
  CallsEnd

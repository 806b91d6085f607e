SPECIFICATION Spec
CONSTANTS
  NoText = NoText
  Ids <- MCIds
  Words <- MCWords
  Texts <- MCTexts
  Bytes <- MCBytes
  Queries = {"query", "zh"}
  Terms = {"duckdb", "run", "runs"}
  Tokens <- MCTokens
  Snapshots <- MCSnapshots
  MaxDocs = 3
INVARIANTS
  TypeOK
  IncrementalIsRebuilt
  TotalsAreExact
  ScoresArePositive
  FoundAsIndexed
  PlainIdsHoldOnce
  BackendsAgree
  RestoredAsSaved
PROPERTIES
  HandrolledIsIndex
  TantivyIsIndex

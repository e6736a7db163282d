CONSTANTS
  Cores = {1, 2}
  Width = 10
  InsertStart = 0
  RecordCounts = {0, 1, 3}
  NewKeys = {0, 6}
  Mixes <- SomeMixes
  Digits <- OneDigit
  Paddings = {0}
  Scramble <- FnvTable
  MaxOps = 2
SPECIFICATION FairSpec
INVARIANTS TypeOK ReadsAreLoaded LoadedByFastest
PROPERTY DrawingEnds

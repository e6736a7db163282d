CONSTANTS
  Cores = {1, 2}
  Width = 10
  InsertStart = 0
  RecordCounts = {3}
  NewKeys = {0}
  Mixes <- SomeMixes
  Digits <- OneDigit
  Paddings = {0, 4}
  Scramble <- FnvTable
  MaxOps = 2
SPECIFICATION Spec
INVARIANT NamesAsConfigured

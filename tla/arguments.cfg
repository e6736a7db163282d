CONSTANTS
  CommandLines <- SomeCommandLines
  Files <- SomeFiles
  Numeral <- SomeNumerals
  Lcores = {0, 1}
  CountWidth = 65536
  MaxCpu = 64
  MaxClient = 64
  LongPadding = {}
  Endless <- EndlessTables
  Scale = 10
  IntMax = 30
SPECIFICATION FairSpec
INVARIANTS TypeOK LastAssignmentWins OnlyValidSends OffersTxRate
PROPERTY ValidRuns

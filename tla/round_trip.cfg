CONSTANTS
  Lcores = {0, 1}
  NbClient = 2
  Cpus = {0, 1, 2}
  Old = {0, 2}
  OldThp <- OldThpFiles
  OldKeeper <- OldSynthetic
  Duration <- SomeDurations
  CpuOf <- OwnCpu
  Modes <- SomeModes
  IdWidth = 2
  TimeWidth = 3
  MaxRecords = 1
  MaxRequests = 3
  Quota <- SomeQuota
  MaxClock = 1
  MaxFaults = 1
SPECIFICATION Spec
INVARIANTS TypeOK IdsIdentify TotalsBalance FilesAgree AnalysisOfThisRun LatencySane

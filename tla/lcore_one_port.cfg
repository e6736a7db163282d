CONSTANTS
  m1 = m1  m2 = m2  m3 = m3  m4 = m4  m5 = m5  m6 = m6  m7 = m7 m8 = m8
  NbPorts = 1
  NbClient = 2
  Burst = 2
  RxDesc = 2
  TxDesc = 2
  Mbufs <- SevenPool
  PoolOf <- SevenPoolOf
  Parked <- SeventhKept
  CacheSize = 1
  Intervals = {1}
  TicksPerSec = 1
  RunSeconds = 0
  Runtime = 1
  MaxTime = 2
  MaxArrivals = 2
SPECIFICATION Spec
SYMMETRY AnySix
INVARIANTS TypeOK WireFormat RequestsConserved ArpsAnswered RepliesCounted OneSlotPerClient NoAllocFailure
PROPERTY InFlightUnchanged

CONSTANTS
  m1 = m1  m2 = m2  m3 = m3  m4 = m4  m5 = m5  m6 = m6  m7 = m7 m8 = m8
  NbPorts = 2
  NbClient = 1
  Burst = 1
  RxDesc = 1
  TxDesc = 1
  Mbufs <- TwoPools
  PoolOf <- TwoPoolsOf
  Parked <- FifthKept
  CacheSize = 1
  Intervals = {1}
  TicksPerSec = 1
  RunSeconds = 1
  Runtime = 1
  MaxTime = 2
  MaxArrivals = 1
SPECIFICATION Spec
SYMMETRY AnyOfPool
INVARIANTS OneHolder NoLeak
PROPERTY ImplementsLifecycle ExitsOnlyUnderBackpressure

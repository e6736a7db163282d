CONSTANTS
  m1 = m1  m2 = m2  m3 = m3  m4 = m4  m5 = m5  m6 = m6  m7 = m7 m8 = m8
  NbPorts = 1
  NbClient = 2
  Burst = 1
  RxDesc = 1
  TxDesc = 1
  Mbufs <- ThreePool
  PoolOf <- ThreePoolOf
  Parked = {}
  CacheSize = 0
  Intervals = {1, 2}
  TicksPerSec = 2
  RunSeconds = 1
  Runtime = 1
  MaxTime = 6
  MaxArrivals = 0
SPECIFICATION FairSpec
INVARIANT RunsFullTime
PROPERTY NoCatchUp Terminates

CONSTANTS
  m1 = m1  m2 = m2  m3 = m3  m4 = m4  m5 = m5  m6 = m6  m7 = m7 m8 = m8
  NbPorts = 3
  NbClient = 1
  Burst = 1
  RxDesc = 1
  TxDesc = 1
  Mbufs <- ThreePools
  PoolOf <- ThreePoolsOf
  Parked = {}
  CacheSize = 0
  Intervals = {1}
  TicksPerSec = 1
  RunSeconds = 3
  Runtime = 1
  MaxTime = 4
  MaxArrivals = 0
SPECIFICATION Spec
SYMMETRY AnyOfThree
INVARIANT NoAllocFailure

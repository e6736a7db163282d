CONSTANTS
  NbPorts = 2
  NbCore = 3
  Lcores = {0, 1, 2}
  MainLcore = 0
  FlowCap = 2
  Faulty = {"mempool", "rx_queue", "dev_start", "flow_validate", "flow_create", "flow_flush"}
SPECIFICATION FairSpec
INVARIANTS TypeOK LcoreInitHolds PoolsPrivate RepliesSteered NewestFlowsKept
 

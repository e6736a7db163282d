CONSTANTS
  NbPorts = 1
  NbCore = 2
  Lcores = {0, 1}
  MainLcore = 0
  FlowCap = 1
  Faulty = {}
SPECIFICATION Spec
INVARIANT AnnouncedIsSteered

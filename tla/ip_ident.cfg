CONSTANTS
  Cores = {1, 2}
  Width = 16
  First = 4
  Step = 27
  MaxPackets = 4
SPECIFICATION Spec
INVARIANTS TypeOK UniqueUnlessShared IdsOnTrack

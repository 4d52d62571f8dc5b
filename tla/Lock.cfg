CONSTANTS
  Nobody = Nobody
  Instance = {i1, i2, i3}
  MaxLeases = 4
  MaxMeddling = 0
SPECIFICATION Spec
SYMMETRY Contenders
CHECK_DEADLOCK FALSE
INVARIANTS
  MutualExclusion
PROPERTIES
  LiveLeaseStays

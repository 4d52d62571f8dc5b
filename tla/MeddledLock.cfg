CONSTANTS
  Nobody = Nobody
  Instance = {i1, i2}
  MaxLeases = 3
  MaxMeddling = 1
SPECIFICATION FairSpec
CHECK_DEADLOCK FALSE
PROPERTIES
  LeaseReturns

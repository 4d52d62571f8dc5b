CONSTANTS
  Gen = {g1, g2, g3}
  UserFile = {u1, u2}
  Session = session
  Patch = patch
  Scratch = scratch
  None = None
  Commands = {"create", "switch", "apply", "restore", "start", "stop", "patch"}
  MaxCrashes = 2
  MaxIoErrors = 1
  MaxTruncations = 1
SPECIFICATION Spec
SYMMETRY Generations
CHECK_DEADLOCK FALSE
INVARIANTS
  NothingLost
  ProcessSeesAll
  ActiveProfilePublished
PROPERTIES
  ConflictIsReal

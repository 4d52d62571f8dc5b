CONSTANTS
  e1 = e1
  e2 = e2
  None = None
  Env = {e1, e2}
  Op = {o1, o2, o3}
  Plan = {p1}
  PlanFor <- Plans1
  Commands = {"create", "switch", "apply", "restore", "start", "stop", "cancel"}
  MaxCrashes = 1
  MaxWriteFaults = 1
SPECIFICATION Spec
SYMMETRY Requests4
CHECK_DEADLOCK FALSE
PROPERTIES
  RestartConverges

CONSTANTS
  e1 = e1
  e2 = e2
  None = None
  Env = {e1}
  Op = {o1, o2, o3}
  Plan = {p1}
  PlanFor <- Plans1
  Commands = {"create", "apply", "start", "stop", "cancel", "close"}
  MaxCrashes = 1
  MaxWriteFaults = 0
SPECIFICATION FairSpec
CHECK_DEADLOCK FALSE
PROPERTIES
  OperationsFinish
  BootCompletes
  CloseCompletes

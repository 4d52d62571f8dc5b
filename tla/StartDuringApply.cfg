CONSTANTS
  e1 = e1
  e2 = e2
  None = None
  Env = {e1}
  Op = {o1, o2, o3}
  Plan = {p1}
  PlanFor <- Plans1
  Commands = {"create", "apply", "start"}
  MaxCrashes = 0
  MaxWriteFaults = 0
SPECIFICATION Spec
CHECK_DEADLOCK FALSE
INVARIANTS
  RunsActiveGeneration

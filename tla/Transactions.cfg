CONSTANTS
  e1 = e1
  e2 = e2
  None = None
  Env = {e1}
  Op = {o1, o2, o3, o4}
  Plan = {p1}
  PlanFor <- Plans1
  Commands = {"create", "switch", "apply", "restore", "cancel"}
  MaxCrashes = 2
  MaxWriteFaults = 0
SPECIFICATION Spec
SYMMETRY Requests4
CHECK_DEADLOCK FALSE
INVARIANTS
  PointerIntact
  SingleTransaction
  NoResidue
  UnfinishedIsLive
  HonestOutcome
  PlanFollowsCommit
  LedgerSettled
  ReplayNamesOperation
PROPERTIES
  ImplementsHistory

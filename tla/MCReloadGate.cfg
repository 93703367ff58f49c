SPECIFICATION Spec
CONSTANTS
  pre = pre
  other = other
  over = over
  win = win
  tune = tune
  plan = plan
  lazy = lazy
  Nobody = Nobody
  Callers = {pre, over, win, tune, plan, lazy}
  Kind <- MCKind
  On <- MCOn
  Of <- MCOf
  Target <- MCTarget
  Removable = {"b"}
INVARIANTS
  OneReloadThroughGate
PROPERTIES
  WaitsEnd
CONSTRAINT ThreeCalls
CHECK_DEADLOCK FALSE

SPECIFICATION Spec
CONSTANTS
  pre = pre
  other = other
  over = over
  win = win
  tune = tune
  plan = plan
  lazy = lazy
  Nobody = Nobody
  Callers = {pre, other, over}
  Kind <- MCKind
  On <- MCOn
  Of <- MCOf
  Target <- MCTarget
  Removable = {"b"}
INVARIANT
  JoinerGetsResult
CHECK_DEADLOCK FALSE

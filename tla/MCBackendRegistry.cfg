SPECIFICATION LiveSpec
CONSTANTS
  Requests = {r}
  Operators = {op}
  Reaper = reaper
  Records = {1, 2}
  Parts <- Together
  Limit = 1
  Threshold = 2
  None = none
INVARIANTS NoPhantomLoad RunningIsCounted
PROPERTIES DrainedIsIdle DeadStaysOut LiveComesBack GhostIsReaped

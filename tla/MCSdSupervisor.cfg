SPECIFICATION LiveSpec
CONSTANTS
  user = user  loader = loader  operator = operator  other = other
  flux = flux  turbo = turbo
  Callers = {user, loader, operator, other}
  Role <- MCRole
  Models = {flux, turbo}
  NoModel = none
  MaxGen = 3
CHECK_DEADLOCK FALSE
INVARIANTS OneServer NoOrphan
PROPERTIES IntendedExitIsNoError CurrentDeathNoticed

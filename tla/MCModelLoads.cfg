SPECIFICATION LiveSpec
CONSTANTS
  a = a  b = b
  Models = {m}
  Callers = {a, b}
  Role <- AnyRole
  Insts = {1, 2, 3}
  None = none
INVARIANTS ClaimHasOwner NoCopyLost DecodesLive NoLockLeftBehind
PROPERTIES CallsEnd

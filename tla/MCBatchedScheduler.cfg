SPECIFICATION SchedulerLiveSpec
CONSTANTS
  reader = reader  hasty = hasty
  Clients = {reader, hasty}
  Hasty = {hasty}
  Slow = {hasty}
  NParallel = 2
  PromptLen = 2
  MaxTokens = 2
  Buf = 2
  MaxSeq = 3
  NoSeq = none
CHECK_DEADLOCK FALSE
INVARIANTS TokensInOrder CacheMatchesPosition
PROPERTIES OnlyHangUpPanics ModelOutlivesUse SessionFinishes StreamEnds

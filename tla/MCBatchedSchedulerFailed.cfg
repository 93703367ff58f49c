SPECIFICATION SchedulerLiveSpec
CONSTANTS
  reader = reader  hasty = hasty
  Clients = {reader}
  Hasty = {}
  Slow = {}
  NParallel = 2
  PromptLen = 2
  MaxTokens = 2
  Buf = 2
  MaxSeq = 2
  NoSeq = none
CHECK_DEADLOCK FALSE
PROPERTY FailedStreamEnds

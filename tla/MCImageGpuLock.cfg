SPECIFICATION LiveSpec
CONSTANTS
  one = one  job = job  batch = batch  b1 = b1  b2 = b2  b3 = b3
  Requests = {job, batch}
  Kind <- MCKind
  Hasty = {batch}
  Candidates <- MCCandidates
  Host <- OneHost
  Gpu <- MCGpu
  Images = 2
  Fuse = TRUE
  IdlePolls = 2
  GracePolls = 1
  MaxErrors = 1
  Nobody = nobody
INVARIANTS LocksExclude LockHasOwner
PROPERTIES LockOutlivesWork WaitEnds LockReturned

--------------------------- MODULE MCImageGpuLock ---------------------------
\* Small instances of ImageGpuLock for TLC.
EXTENDS ImageGpuLock

CONSTANTS one, job, batch, b1, b2, b3

MCKind == [r \in Requests |-> CASE r = one -> "sync" [] r = job -> "async" [] OTHER -> "batch"]

\* One host with two cards: b1 and b2 have one each, nobody knows which one
\* b3 uses.
MCCandidates == <<b1, b2, b3>>
OneHost == [b \in {b1, b2, b3} |-> "h"]
MCGpu == [b \in {b1, b2, b3} |-> CASE b = b1 -> 0 [] b = b2 -> 1 [] OTHER -> -1]

=============================================================================

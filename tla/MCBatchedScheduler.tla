------------------------- MODULE MCBatchedScheduler -------------------------
\* Small instances of BatchedScheduler for TLC.
EXTENDS BatchedScheduler

CONSTANTS reader, hasty

=============================================================================

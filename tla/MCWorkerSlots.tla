---------------------------- MODULE MCWorkerSlots ----------------------------
\* Small instances of WorkerSlots for TLC.
EXTENDS WorkerSlots

=============================================================================

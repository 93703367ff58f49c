---------------------------- MODULE MCModelLoads ----------------------------
\* Small instances of ModelLoads for TLC.
EXTENDS ModelLoads

CONSTANTS a, b

\* Every caller calls every operation.
AnyRole == [c \in Callers |-> Ops]

=============================================================================

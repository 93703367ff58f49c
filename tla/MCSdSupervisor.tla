---------------------------- MODULE MCSdSupervisor ----------------------------
\* Small instances of SdSupervisor for TLC.
EXTENDS SdSupervisor, TLC

CONSTANTS user, loader, operator, other, flux, turbo

\* A generation, an operator's load, an operator's unload, a reload.
MCRole == [c \in Callers |->
             CASE c = user -> "generate" [] c = loader -> "load"
               [] c = operator -> "unload" [] OTHER -> "reload"]

ModelSymmetry == Permutations(Models)

=============================================================================

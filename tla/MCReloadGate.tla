---------------------------- MODULE MCReloadGate ----------------------------
\* Small instances of ReloadGate for TLC.
EXTENDS ReloadGate

CONSTANTS pre, other, over, win, tune, plan, lazy

\* Everyone wants the same model, except one preflight that wants a second
\* model of the same backend.
MCKind ==
  [c \in Callers |->
     CASE c \in {pre, other} -> "preflight" [] c = over -> "overflow" [] c = win -> "window"
       [] c = tune -> "autotune" [] c = plan -> "apply" [] OTHER -> "lazy"]
MCOn == [c \in Callers |-> "b"]
MCOf == [c \in Callers |-> IF c = other THEN "m2" ELSE "m1"]
MCTarget == [c \in Callers |-> 1]

\* The bounds of the passing run: at most three of the callers come, at most two
\* entries have expired or loads run that nobody waits for, and the backend is
\* removed only under a plan of AutoTune.
ThreeCalls ==
  /\ Cardinality({c \in Callers : call[c] # "idle"}) <= 3
  /\ Cardinality(expired) + Cardinality(loads) <= 2 /\ Cardinality(loads) <= 1
  /\ removed # {} => run[tune] # "none"

=============================================================================

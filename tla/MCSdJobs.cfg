SPECIFICATION JobsLiveSpec
CONSTANTS
  Jobs = {j1, j2, j3}
  Syncs = {s1, s2}
  Capacity = 2
INVARIANTS SlotsAreHeld
PROPERTIES ImplementsBoard JobEnds

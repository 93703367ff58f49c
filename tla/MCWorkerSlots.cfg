SPECIFICATION FairSpec
CONSTANTS
  Callers = {c1, c2, c3, c4}
  NumSlots = 2
INVARIANTS SeqIdExclusive NoLostSlot
PROPERTIES ImplementsPool WaiterAnswered

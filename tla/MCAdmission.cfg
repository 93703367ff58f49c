SPECIFICATION LiveSpec
CONSTANTS
  alice = alice  bob = bob  b1 = b1  b2 = b2
  r1 = r1  r2 = r2  r3 = r3
  Requests = {r1, r2, r3}
  Sessions = {alice, bob}
  SessionOf <- MCSessionOf
  Backends = {b1}
  AnyBackend = any
  KeyOf <- OneKey
  Limit <- OneSlot
  Flaky = {}
  Streams = {}
  HighWatermark = 9
  NoBackend = none
INVARIANTS SameSessionFifo
PROPERTIES ImplementsLeases FreeSlotTaken

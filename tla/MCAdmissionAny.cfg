SPECIFICATION Spec
CONSTANTS
  alice = alice  bob = bob  b1 = b1  b2 = b2
  r1 = r1  r2 = r2  r3 = r3
  Requests = {r1, r2, r3}
  Sessions = {alice, bob}
  SessionOf <- MCSessionOf
  Backends = {b1, b2}
  AnyBackend = any
  KeyOf <- MixedKeys
  Limit <- OneSlot
  Flaky = {b2}
  Streams = {r2}
  HighWatermark = 2
  NoBackend = none
INVARIANTS NoMissedRelease NoPhantomLoad

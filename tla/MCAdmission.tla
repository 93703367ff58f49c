----------------------------- MODULE MCAdmission -----------------------------
\* Small instances of Admission for TLC.
EXTENDS Admission

CONSTANTS alice, bob, b1, b2, r1, r2, r3

\* Two requests of alice and one of bob.
MCSessionOf == [r \in Requests |-> IF r \in {r1, r2} THEN alice ELSE bob]
OneSlot == [b \in Backends |-> 1]

\* All requests queue for one backend.
OneKey == [r \in Requests |-> b1]

\* Two users of the unified queue, a third request tied to b1.
MixedKeys == [r \in Requests |-> IF r = r1 THEN b1 ELSE AnyBackend]

=============================================================================

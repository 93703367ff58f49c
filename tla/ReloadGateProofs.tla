-------------------------- MODULE ReloadGateProofs --------------------------
\* Proofs about ReloadGate for any callers, backends, models and windows.
EXTENDS ReloadGate, TLAPS

\* What the registry knows: an entry stands under the key of its reload until
\* the reload removes it, and a reload under way has its entry unless the entry
\* has expired.
EntryIsOwned ==
  \A k \in Keys : entries[k] # Nobody =>
    Key(entries[k]) = k /\ run[entries[k]] \notin {"none", "gone", "closed"}

RunningIsPending == \A c \in Callers : Running(c) /\ c \notin expired => entries[Key(c)] = c

EntryInv == TypeOK /\ EntryIsOwned /\ RunningIsPending

-----------------------------------------------------------------------------
LEMMA KeysOfCallers == \A c \in Callers : Key(c) \in Keys /\ On[c] \in Backends
  BY DEF Keys, Backends

LEMMA InitType == Init => TypeOK
  BY DEF Init, TypeOK

\* Each step of a call or of a reload changes its own part of the state.
LEMMA CallKeepsType ==
  ASSUME TypeOK, NEW c \in Callers, CheckPending(c) \/ BeginExternalReload(c) \/ CallStep(c)
  PROVE  TypeOK'
<1> USE KeysOfCallers
<1>1. CASE CheckPending(c)
  BY <1>1 DEF CheckPending, TypeOK, registry, flight, outside
<1>2. CASE BeginExternalReload(c)
  BY <1>2 DEF BeginExternalReload, Register, TypeOK, flight, outside
<1>3. CASE StartReloadIfNotPending(c)
  BY <1>3 DEF StartReloadIfNotPending, Register, TypeOK, flight, outside
<1>4. CASE FindEntry(c)
  BY <1>4 DEF FindEntry, EntriesFor, TypeOK, registry, flight, outside
<1>5. CASE EntryDone(c)
  BY <1>5 DEF EntryDone, TypeOK, registry, flight, outside
<1> QED
  BY <1>1, <1>2, <1>3, <1>4, <1>5 DEF CallStep

LEMMA RunKeepsType ==
  ASSUME TypeOK, NEW c \in Callers, RunStep(c) \/ Expire(c) \/ FinishLoad(c)
  PROVE  TypeOK'
<1> USE KeysOfCallers
<1>1. CASE Postpone(c) \/ LoseMarker(c) \/ BeginLoad(c)
  BY <1>1 DEF Postpone, LoseMarker, BeginLoad, Over, TypeOK, registry, flight, outside
<1>2. CASE PostReload(c)
  BY <1>2 DEF PostReload, TypeOK, registry, outside
<1>3. CASE JoinReload(c)
  BY <1>3 DEF JoinReload, TypeOK, registry, outside
<1>4. CASE ReloadDone(c)
  BY <1>4 DEF ReloadDone, Over, TypeOK, registry, outside
<1>5. CASE JoinerWakes(c)
  BY <1>5 DEF JoinerWakes, Over, TypeOK, registry
<1>6. CASE Deregister(c)
  BY <1>6 DEF Deregister, TypeOK, flight, outside
<1>7. CASE Close(c)
  BY <1>7 DEF Close, TypeOK, registry, flight, outside
<1>8. CASE Expire(c)
  BY <1>8 DEF Expire, TypeOK, flight, outside
<1>9. CASE EndLoad(c)
  BY <1>9 DEF EndLoad, Over, TypeOK, registry, flight
<1>10. CASE FinishLoad(c)
  BY <1>10 DEF FinishLoad, TypeOK, registry, flight
<1> QED
  BY <1>1, <1>2, <1>3, <1>4, <1>5, <1>6, <1>7, <1>8, <1>9, <1>10 DEF RunStep

LEMMA NextKeepsType == TypeOK /\ [Next]_vars => TypeOK'
<1> SUFFICES ASSUME TypeOK, [Next]_vars PROVE TypeOK'
  OBVIOUS
<1>1. CASE UNCHANGED vars
  BY <1>1 DEF TypeOK, vars
<1>2. ASSUME NEW b \in Backends, RemoveBackend(b) PROVE TypeOK'
  BY <1>2 DEF RemoveBackend, TypeOK, registry, flight
<1> QED
  BY <1>1, <1>2, CallKeepsType, RunKeepsType DEF Next

-----------------------------------------------------------------------------
\* A caller that registers finds its key free, or under an expired entry.
LEMMA RegisterKeepsEntries ==
  ASSUME EntryInv, TypeOK', NEW c \in Callers, Register(c), UNCHANGED expired,
         entries[Key(c)] \in expired \cup {Nobody}
  PROVE  (EntryIsOwned /\ RunningIsPending)'
<1> USE KeysOfCallers, ReloadAssumption
<1>1. EntryIsOwned'
  <2> SUFFICES ASSUME NEW k \in Keys, entries'[k] # Nobody
               PROVE  Key(entries'[k]) = k /\ run'[entries'[k]] \notin {"none", "gone", "closed"}
    BY DEF EntryIsOwned
  <2>1. CASE k = Key(c)
    BY <2>1 DEF Register, EntryInv, TypeOK
  <2>2. CASE k # Key(c)
    <3>1. entries'[k] = entries[k] /\ entries[k] \in Callers
      BY <2>2 DEF Register, EntryInv, TypeOK
    <3> QED
      BY <3>1, <2>2 DEF Register, EntryInv, EntryIsOwned, TypeOK
  <2> QED
    BY <2>1, <2>2
<1>2. RunningIsPending'
  <2> SUFFICES ASSUME NEW d \in Callers, Running(d)', d \notin expired
               PROVE  entries'[Key(d)] = d
    BY DEF RunningIsPending
  <2>1. CASE d = c
    BY <2>1 DEF Register, EntryInv, TypeOK
  <2>2. CASE d # c
    <3>1. entries[Key(d)] = d
      BY <2>2 DEF Register, Running, EntryInv, RunningIsPending, TypeOK
    <3> QED
      BY <3>1 DEF Register, EntryInv, TypeOK
  <2> QED
    BY <2>1, <2>2
<1> QED
  BY <1>1, <1>2

\* A step of a reload that does not touch the registry.
LEMMA RunKeepsEntries ==
  ASSUME EntryInv, NEW c \in Callers, NEW s \in {"loading", "joined", "posting", "over", "lost"},
         run[c] \in {"begun", "loading", "joined", "posting"}, run' = [run EXCEPT ![c] = s],
         UNCHANGED registry
  PROVE  (EntryIsOwned /\ RunningIsPending)'
<1>1. EntryIsOwned'
  BY DEF EntryInv, EntryIsOwned, TypeOK, registry, Key
<1>2. RunningIsPending'
  BY DEF EntryInv, RunningIsPending, Running, TypeOK, registry, Key
<1> QED
  BY <1>1, <1>2

LEMMA DeregisterKeepsEntries ==
  ASSUME EntryInv, NEW c \in Callers, Deregister(c)
  PROVE  (EntryIsOwned /\ RunningIsPending)'
<1> USE KeysOfCallers
<1>1. EntryIsOwned'
  <2> SUFFICES ASSUME NEW k \in Keys, entries'[k] # Nobody
               PROVE  Key(entries'[k]) = k /\ run'[entries'[k]] \notin {"none", "gone", "closed"}
    BY DEF EntryIsOwned
  <2>1. entries'[k] = entries[k] /\ entries[k] \in Callers /\ Key(entries[k]) = k
    BY DEF Deregister, EntryInv, EntryIsOwned, TypeOK
  <2>2. entries[k] # c
    BY <2>1 DEF Deregister
  <2> QED
    BY <2>1, <2>2 DEF Deregister, EntryInv, EntryIsOwned, TypeOK
<1>2. RunningIsPending'
  <2> SUFFICES ASSUME NEW d \in Callers, Running(d)', d \notin expired'
               PROVE  entries'[Key(d)] = d
    BY DEF RunningIsPending
  <2>1. d # c /\ Running(d) /\ d \notin expired
    BY DEF Deregister, Running, EntryInv, TypeOK
  <2>2. entries[Key(d)] = d
    BY <2>1 DEF EntryInv, RunningIsPending
  <2> QED
    BY <2>1, <2>2 DEF Deregister
<1> QED
  BY <1>1, <1>2

LEMMA InitEntryInv == Init => EntryInv
  BY InitType DEF Init, EntryInv, EntryIsOwned, RunningIsPending, Running

LEMMA NextKeepsEntryInv == EntryInv /\ [Next]_vars => EntryInv'
<1> SUFFICES ASSUME EntryInv, [Next]_vars PROVE (EntryIsOwned /\ RunningIsPending)'
  BY NextKeepsType DEF EntryInv
<1> DEFINE Kept == (EntryIsOwned /\ RunningIsPending)'
<1> USE KeysOfCallers
<1>0. TypeOK'
  BY NextKeepsType DEF EntryInv
<1>1. ASSUME UNCHANGED <<run, registry>> PROVE Kept
  BY <1>1 DEF EntryInv, EntryIsOwned, RunningIsPending, Running, registry, Key
<1>2. CASE UNCHANGED vars
  BY <1>1, <1>2 DEF vars, registry
<1>3. ASSUME NEW b \in Backends, RemoveBackend(b) PROVE Kept
  BY <1>1, <1>3 DEF RemoveBackend
<1>4. ASSUME NEW c \in Callers,
             CheckPending(c) \/ FindEntry(c) \/ EntryDone(c) \/ FinishLoad(c)
      PROVE  Kept
  BY <1>1, <1>4 DEF CheckPending, FindEntry, EntryDone, FinishLoad
<1>5. ASSUME NEW c \in Callers, StartReloadIfNotPending(c) PROVE Kept
  <2>1. CASE entries[Key(c)] = Nobody
    BY <1>0, <1>5, <2>1, RegisterKeepsEntries DEF StartReloadIfNotPending
  <2>2. CASE entries[Key(c)] # Nobody
    BY <1>1, <1>5, <2>2 DEF StartReloadIfNotPending, registry
  <2> QED
    BY <2>1, <2>2
<1>6. ASSUME NEW c \in Callers, BeginExternalReload(c) PROVE Kept
  <2>1. CASE IsReloadPending(c)
    BY <1>1, <1>6, <2>1 DEF BeginExternalReload, registry
  <2>2. CASE ~IsReloadPending(c)
    <3>1. entries[Key(c)] \in expired \cup {Nobody}
      BY <2>2 DEF IsReloadPending, EntriesFor, Key
    <3> QED
      BY <1>0, <1>6, <2>2, <3>1, RegisterKeepsEntries DEF BeginExternalReload
  <2> QED
    BY <2>1, <2>2
<1>7. ASSUME NEW c \in Callers, Expire(c) PROVE Kept
  BY <1>7 DEF Expire, EntryInv, EntryIsOwned, RunningIsPending, Running, Key
<1>8. ASSUME NEW c \in Callers, Postpone(c) \/ LoseMarker(c) \/ BeginLoad(c) \/ EndLoad(c) PROVE Kept
  BY <1>8, RunKeepsEntries DEF Postpone, LoseMarker, BeginLoad, EndLoad, Over
<1>9. ASSUME NEW c \in Callers, PostReload(c) \/ JoinReload(c) \/ ReloadDone(c) PROVE Kept
  BY <1>9, RunKeepsEntries DEF PostReload, JoinReload, ReloadDone, Over
<1>10. ASSUME NEW c \in Callers, JoinerWakes(c) PROVE Kept
  <2>1. CASE UNCHANGED run
    BY <1>1, <1>10, <2>1 DEF JoinerWakes
  <2>2. CASE Over(c)
    BY <1>10, <2>2, RunKeepsEntries DEF JoinerWakes, Over
  <2> QED
    BY <1>10, <2>1, <2>2 DEF JoinerWakes
<1>11. ASSUME NEW c \in Callers, Close(c) PROVE Kept
  BY <1>11 DEF Close, EntryInv, EntryIsOwned, RunningIsPending, Running, TypeOK, registry, Key
<1> QED
  BY <1>2, <1>3, <1>4, <1>5, <1>6, <1>7, <1>8, <1>9, <1>10, <1>11, DeregisterKeepsEntries
  DEF Next, CallStep, RunStep

-----------------------------------------------------------------------------
\* Type correctness of the registry, the callers and their reloads.
THEOREM TypeCorrect == Spec => []TypeOK
<1>1. EntryInv => TypeOK
  BY DEF EntryInv
<1> QED
  BY <1>1, InitEntryInv, NextKeepsEntryInv, PTL DEF Spec

\* StartModelReloadIfNotPending, BeginExternalReload: two reloads under one key
\* are never under way at once while neither entry has expired and neither load
\* was left to the worker (after a 202 to a request for another window, or when
\* the balancer gave up on it), for any number of callers, however their checks,
\* registrations and ends interleave.
THEOREM OneReloadEver == Spec => []OneReloadThroughGate
<1>1. EntryInv => OneReloadThroughGate
  BY DEF EntryInv, RunningIsPending, OneReloadThroughGate, UnderWay
<1> QED
  BY <1>1, InitEntryInv, NextKeepsEntryInv, PTL DEF Spec

\* nctx_reload_dedup.go:95-103 (R66d): whoever wakes from the channel of an
\* entry does not find that entry pending.
THEOREM DoneNeverRegistered == Spec => []DoneIsDeregistered
<1>1. EntryInv => DoneIsDeregistered
  BY DEF EntryInv, EntryIsOwned, DoneIsDeregistered
<1> QED
  BY <1>1, InitEntryInv, NextKeepsEntryInv, PTL DEF Spec

=============================================================================

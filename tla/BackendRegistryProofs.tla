----------------------- MODULE BackendRegistryProofs -----------------------
(***************************************************************************)
(* Proofs about BackendRegistry for any requests, operators, records and   *)
(* limit, and whatever takes part.                                         *)
(***************************************************************************)
EXTENDS BackendRegistry, FiniteSetTheorems, TLAPS

\* The inductive invariant.  A request that has a slot, or a record in hand, is
\* where the code holds one; when it releases a slot of the registered record
\* it has found this record.
RequestInv ==
  \A r \in Requests :
    /\ slot[r] # None <=> pc[r] \in {"running", "release", "decrement"}
    /\ found[r] # None <=> pc[r] \in {"found", "decrement"}
    /\ pc[r] = "decrement" /\ slot[r] = backends => found[r] = backends

\* The history is about the registered record only.
HistoryInv == undone \union shorted \union torn \subseteq {backends}

\* What UpdateBackend is about to write is what the record says, but for a count
\* that changed under its hands.
UpdateInv ==
  agent = "writing" =>
    Exists /\ copy.status = Here.status /\ (backends \notin torn => copy.active = Here.active)

\* A remover that waits, or has waited, for the registered record finds it
\* draining, and empty when it has seen it empty and the count is to be trusted.
DrainInv ==
  \A d \in Removers : rm[d] \in {"drain", "drained", "forced"} =>
    /\ target[d] # None
    /\ target[d] = backends /\ backends \notin undone =>
         /\ Here.status = "draining"
         /\ rm[d] = "drained" /\ backends \notin torn => Here.active = 0

RegistryInv ==
  /\ TypeOK /\ RequestInv /\ HistoryInv /\ UpdateInv /\ DrainInv
  /\ NoPhantomLoad /\ RunningIsCounted

-----------------------------------------------------------------------------
(* Slots and their holders.                                                *)

LEMMA HoldersFinite ==
  \A i : /\ IsFiniteSet(Holders(i)) /\ IsFiniteSet(Holders(i)')
         /\ Cardinality(Holders(i)) \in Nat /\ Cardinality(Holders(i)') \in Nat
<1> SUFFICES ASSUME NEW i
             PROVE  /\ IsFiniteSet(Holders(i)) /\ IsFiniteSet(Holders(i)')
                    /\ Cardinality(Holders(i)) \in Nat /\ Cardinality(Holders(i)') \in Nat
  OBVIOUS
<1>1. Holders(i) \subseteq Requests /\ Holders(i)' \subseteq Requests
  BY DEF Holders
<1>2. IsFiniteSet(Holders(i)) /\ IsFiniteSet(Holders(i)')
  BY <1>1, FS_Subset, BackendRegistryAssumption
<1> QED  BY <1>2, FS_CardinalityType

\* A slot more.
LEMMA SlotTaken ==
  ASSUME slot \in [Requests -> Records \union {None}], NEW r \in Requests, NEW i \in Records,
         slot[r] = None, slot' = [slot EXCEPT ![r] = i]
  PROVE  /\ Cardinality(Holders(i)') = Cardinality(Holders(i)) + 1
         /\ \A j \in Records : j # i => Holders(j)' = Holders(j)
<1>1. None \notin Records  BY BackendRegistryAssumption
<1>2. r \notin Holders(i) /\ Holders(i)' = Holders(i) \union {r}
  BY <1>1 DEF Holders
<1>3. Cardinality(Holders(i)') = Cardinality(Holders(i)) + 1
  BY <1>2, HoldersFinite, FS_AddElement
<1>4. \A j \in Records : j # i => Holders(j)' = Holders(j)
  BY <1>1 DEF Holders
<1> QED  BY <1>3, <1>4

\* A slot less.
LEMMA SlotReturned ==
  ASSUME slot \in [Requests -> Records \union {None}], NEW r \in Requests, NEW i \in Records,
         slot[r] = i, slot' = [slot EXCEPT ![r] = None]
  PROVE  /\ Cardinality(Holders(i)') = Cardinality(Holders(i)) - 1
         /\ Cardinality(Holders(i)) > 0
         /\ \A j \in Records : j # i => Holders(j)' = Holders(j)
<1>1. None \notin Records  BY BackendRegistryAssumption
<1>2. r \in Holders(i) /\ Holders(i)' = Holders(i) \ {r}
  BY <1>1 DEF Holders
<1>3. Cardinality(Holders(i)') = Cardinality(Holders(i)) - 1
  BY <1>2, HoldersFinite, FS_RemoveElement
<1>4. Cardinality(Holders(i)) > 0
  BY <1>2, <1>3, HoldersFinite
<1>5. \A j \in Records : j # i => Holders(j)' = Holders(j)
  BY <1>1 DEF Holders
<1> QED  BY <1>3, <1>4, <1>5

LEMMA InitRegistryInv == Init => RegistryInv
<1> SUFFICES ASSUME Init  PROVE RegistryInv
  OBVIOUS
<1>1. Limit \in Nat \ {0} /\ Threshold \in Nat \ {0} /\ None \notin Records
  BY BackendRegistryAssumption
<1>2. TypeOK
  BY <1>1 DEF Init, TypeOK, Rec, NewRec, Statuses
<1>3. RequestInv /\ HistoryInv /\ UpdateInv /\ DrainInv
  BY DEF Init, RequestInv, HistoryInv, UpdateInv, DrainInv
<1>4. NoPhantomLoad /\ RunningIsCounted
  BY DEF Init, NoPhantomLoad, RunningIsCounted, Exists
<1> QED  BY <1>2, <1>3, <1>4 DEF RegistryInv

-----------------------------------------------------------------------------
(* Steps that leave the slots alone, and the count of the registered record *)
(* if it is not wrong already.                                              *)

Quiet ==
  /\ backends' = backends /\ slot' = slot /\ found' = found /\ shorted' = shorted /\ torn' = torn
  /\ Exists /\ backends \notin torn => rec'[backends].active = Here.active

\* The place of a request changes among those that mean the same.
SamePlaces ==
  \A r \in Requests :
    /\ pc'[r] = "decrement" <=> pc[r] = "decrement"
    /\ pc'[r] = "found" <=> pc[r] = "found"
    /\ pc'[r] \in {"running", "release"} <=> pc[r] \in {"running", "release"}

\* The registered record leaves draining only into the history.
DrainingKept ==
  /\ undone \subseteq undone' /\ undone' \subseteq undone \union {backends}
  /\ Exists /\ Here.status = "draining" /\ backends \notin undone'
       => rec'[backends].status = "draining"

\* A remover that waits goes on waiting for its record, or has just marked the
\* registered one, or has seen it empty.
SameRemovers ==
  \A d \in Removers : rm'[d] \in {"drain", "drained", "forced"} =>
    \/ rm[d] \in {"drain", "drained", "forced"} /\ target'[d] = target[d]
         /\ (rm'[d] = "drained" => rm[d] = "drained" \/ rec[target[d]].active = 0)
    \/ rm'[d] = "drain" /\ Exists /\ target'[d] = backends /\ rec'[backends].status = "draining"

\* Nobody but BeginUpdate leaves p.mu with UpdateBackend, and while it is there
\* the record keeps its status.
LEMMA UpdateUntouched ==
  ASSUME RegistryInv,
         \/ agent' # "writing"
         \/ agent' = agent /\ copy' = copy /\ backends' = backends /\ rec' = rec /\ torn' = torn
  PROVE  UpdateInv'
BY DEF RegistryInv, UpdateInv, Exists, Here

LEMMA QuietStep ==
  ASSUME RegistryInv, TypeOK', UpdateInv', Quiet, SamePlaces, DrainingKept, SameRemovers
  PROVE  RegistryInv'
<1> USE DEF RegistryInv
<1>1. None \notin Records  BY BackendRegistryAssumption
<1>2. RequestInv'
  BY DEF RequestInv, Quiet, SamePlaces
<1>3. HistoryInv'
  BY DEF HistoryInv, Quiet, DrainingKept
<1>4. DrainInv'
  <2> SUFFICES ASSUME NEW d \in Removers, rm'[d] \in {"drain", "drained", "forced"}
               PROVE  /\ target'[d] # None
                      /\ target'[d] = backends /\ backends \notin undone' =>
                           /\ rec'[backends].status = "draining"
                           /\ rm'[d] = "drained" /\ backends \notin torn' => rec'[backends].active = 0
    BY DEF DrainInv, Quiet, Here
  <2>1. CASE rm[d] \in {"drain", "drained", "forced"} /\ target'[d] = target[d]
             /\ (rm'[d] = "drained" => rm[d] = "drained" \/ rec[target[d]].active = 0)
    <3>1. target[d] # None  BY <2>1 DEF DrainInv
    <3>2. ASSUME target[d] = backends, backends \notin undone'
          PROVE  /\ rec'[backends].status = "draining"
                 /\ rm'[d] = "drained" /\ backends \notin torn' => rec'[backends].active = 0
      BY <2>1, <3>1, <3>2 DEF DrainInv, Quiet, DrainingKept, Exists, Here
    <3> QED  BY <2>1, <3>1, <3>2
  <2>2. CASE rm'[d] = "drain" /\ Exists /\ target'[d] = backends
             /\ rec'[backends].status = "draining"
    BY <2>2 DEF Exists
  <2> QED  BY <2>1, <2>2 DEF SameRemovers
<1>5. \A i : Holders(i)' = Holders(i)
  BY DEF Holders, Quiet
<1>6. NoPhantomLoad' /\ RunningIsCounted'
  BY <1>5 DEF NoPhantomLoad, RunningIsCounted, Quiet, Exists, Here
<1> QED  BY <1>2, <1>3, <1>4, <1>6

\* SetStatus is such a step as far as it goes.
LEMMA SetStatusQuiet ==
  ASSUME TypeOK, NEW st \in Statuses, SetStatus(backends, st)
  PROVE  /\ backends' = backends /\ rec' \in [Records -> Rec] /\ undone' \subseteq Records
         /\ Exists => rec'[backends].active = Here.active /\ rec'[backends].status = st
         /\ DrainingKept
<1> USE DEF TypeOK
<1>1. None \notin Records  BY BackendRegistryAssumption
<1>2. CASE backends = None
  BY <1>1, <1>2 DEF SetStatus, DrainingKept, Exists, registry
<1>3. CASE backends # None
  <2>1. backends \in Records /\ rec[backends] \in Rec
    BY <1>3
  <2>2. rec' = [rec EXCEPT ![backends].status = st]
    BY <1>3 DEF SetStatus
  <2>3. [rec[backends] EXCEPT !.status = st] \in Rec
    BY <2>1 DEF Rec
  <2>4. rec' \in [Records -> Rec]
    BY <2>1, <2>2, <2>3
  <2>5. rec'[backends].active = Here.active /\ rec'[backends].status = st
    BY <2>1, <2>2 DEF Rec, Here
  <2>6. /\ backends' = backends
        /\ undone' = IF Here.status = "draining" /\ st # "draining"
                     THEN undone \union {backends} ELSE undone
    BY <1>3 DEF SetStatus
  <2> QED  BY <2>1, <2>4, <2>5, <2>6 DEF DrainingKept
<1> QED  BY <1>2, <1>3

\* A step that changes neither the registry nor the removers.
LEMMA RestQuiet ==
  ASSUME TypeOK, backends' = backends, rec' = rec, slot' = slot, found' = found,
         undone' = undone, shorted' = shorted, torn' = torn
  PROVE  Quiet /\ DrainingKept
BY DEF Quiet, DrainingKept, Here

LEMMA SameRm ==
  ASSUME rm' = rm, target' = target
  PROVE  SameRemovers
BY DEF SameRemovers

\* The actions that change parts of the model apart from the registry.
LEMMA OutsideStep ==
  ASSUME RegistryInv,
         \/ ChangeUp \/ Reregister \/ CopyRecord \/ BeginUpdate \/ PerformCheck
         \/ \E r \in Requests : Finish(r)
         \/ \E d \in Operators : BeginDelete(d) \/ BeginDetach(d)
         \/ \E d \in Removers : Drained(d) \/ DrainTimeout(d)
         \/ IsStillGhost
  PROVE  RegistryInv'
<1> USE DEF RegistryInv, registry, health, removal, requests, handler, history
<1>1. /\ backends' = backends /\ rec' = rec /\ slot' = slot /\ found' = found
      /\ undone' = undone /\ shorted' = shorted /\ torn' = torn /\ fails' = fails /\ probe' = probe
      /\ target' = target
  BY DEF ChangeUp, Reregister, CopyRecord, BeginUpdate, PerformCheck, Finish, BeginDelete, BeginDetach,
         Drained, DrainTimeout, IsStillGhost
<1>2. Quiet /\ DrainingKept
  BY <1>1, RestQuiet
<1>3. SamePlaces
  BY DEF TypeOK, SamePlaces, ChangeUp, Reregister, CopyRecord, BeginUpdate, PerformCheck, Finish, GoTo,
         BeginDelete, BeginDetach, Drained, DrainTimeout, IsStillGhost
<1>4. SameRemovers
  <2>1. CASE rm' = rm
    BY <1>1, <2>1, SameRm
  <2>2. ASSUME NEW d \in Operators, BeginDelete(d) \/ BeginDetach(d)  PROVE SameRemovers
    BY <2>2 DEF TypeOK, BeginDelete, BeginDetach, Move, SameRemovers, Removers
  <2>3. ASSUME NEW d \in Removers, Drained(d) \/ DrainTimeout(d)  PROVE SameRemovers
    BY <2>3 DEF TypeOK, Drained, DrainTimeout, Move, SameRemovers
  <2>4. CASE IsStillGhost
    BY <2>4 DEF TypeOK, IsStillGhost, Move, SameRemovers, Removers
  <2> QED
    BY <2>1, <2>2, <2>3, <2>4 DEF ChangeUp, Reregister, CopyRecord, BeginUpdate, PerformCheck, Finish
<1>5. TypeOK'
  <2>1. pc' \in [Requests -> {"idle", "found", "running", "release", "decrement"}]
    BY DEF TypeOK, ChangeUp, Reregister, CopyRecord, BeginUpdate, PerformCheck, Finish, GoTo,
           BeginDelete, BeginDetach, Drained, DrainTimeout, IsStillGhost
  <2>2. rm' \in [Removers -> {"idle", "scan", "ghost", "detach", "mark", "drain", "drained", "forced"}]
    BY DEF TypeOK, ChangeUp, Reregister, CopyRecord, BeginUpdate, PerformCheck, Finish, Move,
           BeginDelete, BeginDetach, Drained, DrainTimeout, IsStillGhost
  <2>3. Exists => Here \in Rec
    BY DEF TypeOK, Exists, Here
  <2>4. copy' \in Rec /\ agent' \in {"idle", "copy", "write", "writing"}
    <3>1. CASE Reregister
      <4>1. copy' = [NewRec EXCEPT !.role = Here.role, !.agent = TRUE] /\ Here \in Rec
        BY <2>3, <3>1 DEF Reregister
      <4>2. Here.role \in BOOLEAN
        BY <4>1 DEF Rec
      <4>3. copy' = [status |-> "starting", agent |-> TRUE, contacted |-> FALSE,
                     silent |-> "none", role |-> Here.role, active |-> 0]
        BY <4>1 DEF NewRec
      <4>4. copy' \in Rec
        BY <4>2, <4>3, BackendRegistryAssumption DEF Rec, Statuses
      <4> QED  BY <3>1, <4>4 DEF Reregister
    <3>2. CASE CopyRecord
      BY <2>3, <3>2 DEF TypeOK, CopyRecord
    <3>3. CASE BeginUpdate
      <4>1. NewRec \in Rec
        BY BackendRegistryAssumption DEF Rec, NewRec, Statuses
      <4>2. Exists => [copy EXCEPT !.status = Here.status, !.active = Here.active] \in Rec
        BY <2>3 DEF TypeOK, Rec
      <4> QED  BY <3>3, <4>1, <4>2 DEF BeginUpdate
    <3>4. CASE ~Reregister /\ ~CopyRecord /\ ~BeginUpdate
      BY <3>4 DEF TypeOK, ChangeUp, PerformCheck, Finish, BeginDelete, BeginDetach, Drained,
                  DrainTimeout, IsStillGhost
    <3> QED  BY <3>1, <3>2, <3>3, <3>4
  <2>5. check' \in {"idle", "ok", "bad"} /\ up' \in BOOLEAN
    BY DEF TypeOK, ChangeUp, Reregister, CopyRecord, BeginUpdate, PerformCheck, Finish,
           BeginDelete, BeginDetach, Drained, DrainTimeout, IsStillGhost
  <2> QED  BY <1>1, <2>1, <2>2, <2>4, <2>5 DEF TypeOK
<1>6. UpdateInv'
  <2>1. CASE BeginUpdate
    <3>1. Exists => copy' = [copy EXCEPT !.status = Here.status, !.active = Here.active]
      BY <2>1 DEF BeginUpdate
    <3>2. Exists => copy'.status = Here.status /\ copy'.active = Here.active
      BY <3>1 DEF TypeOK, Rec
    <3> QED  BY <1>1, <2>1, <3>2 DEF BeginUpdate, UpdateInv, Exists, Here
  <2>2. CASE ~BeginUpdate
    <3>1. agent' # "writing" \/ (agent' = agent /\ copy' = copy)
      BY <2>2 DEF ChangeUp, Reregister, CopyRecord, PerformCheck, Finish, BeginDelete, BeginDetach,
                  Drained, DrainTimeout, IsStillGhost
    <3> HIDE DEF RegistryInv
    <3> QED  BY <1>1, <3>1, UpdateUntouched
  <2> QED  BY <2>1, <2>2
<1> QED  BY <1>2, <1>3, <1>4, <1>5, <1>6, QuietStep

\* Health checks, failed requests and the mark of a removal.
LEMMA StatusStep ==
  ASSUME RegistryInv,
         \/ ProbeNode \/ CheckPassed \/ CheckFailed
         \/ \E r \in Requests : Fail(r)
         \/ \E d \in Removers : Mark(d)
  PROVE  RegistryInv'
<1> USE DEF RegistryInv, registry, health, removal, requests, handler, history
<1>1. {"healthy", "unhealthy", "draining"} \subseteq Statuses
  BY DEF Statuses
<1>2. UpdateInv'
  <2>1. agent' = agent /\ agent # "writing"
    BY DEF Unlocked, ProbeNode, CheckPassed, CheckFailed, Fail, Mark
  <2> QED  BY <2>1, UpdateUntouched
<1>3. CASE \E st \in Statuses : SetStatus(backends, st)
             /\ \A d \in Removers : rm'[d] # rm[d] \/ target'[d] # target[d] =>
                  rm'[d] = "idle" \/ (rm'[d] = "drain" /\ st = "draining" /\ Exists /\ target'[d] = backends)
  <2> PICK st \in Statuses : SetStatus(backends, st)
             /\ \A d \in Removers : rm'[d] # rm[d] \/ target'[d] # target[d] =>
                  rm'[d] = "idle" \/ (rm'[d] = "drain" /\ st = "draining" /\ Exists /\ target'[d] = backends)
    BY <1>3
  <2>1. /\ backends' = backends /\ rec' \in [Records -> Rec] /\ undone' \subseteq Records
        /\ Exists => rec'[backends].active = Here.active /\ rec'[backends].status = st
        /\ DrainingKept
    BY SetStatusQuiet
  <2>2. Quiet
    BY <2>1 DEF Quiet, ProbeNode, CheckPassed, CheckFailed, Fail, Mark
  <2>3. SamePlaces
    BY DEF TypeOK, SamePlaces, ProbeNode, CheckPassed, CheckFailed, Fail, Mark, GoTo
  <2>4. SameRemovers
    BY <2>1 DEF SameRemovers
  <2>5. fails' \in 0 .. Threshold
    BY BackendRegistryAssumption
    DEF TypeOK, ProbeNode, CheckPassed, CheckFailed, AddFailure, Fail, Mark
  <2>6. rm' \in [Removers -> {"idle", "scan", "ghost", "detach", "mark", "drain", "drained", "forced"}]
    BY DEF TypeOK, ProbeNode, CheckPassed, CheckFailed, Fail, Mark, Move
  <2>7. TypeOK'
    BY <2>1, <2>5, <2>6 DEF TypeOK, ProbeNode, CheckPassed, CheckFailed, Fail, Mark, GoTo
  <2> QED  BY <1>2, <2>2, <2>1, <2>3, <2>4, <2>7, QuietStep
<1>4. CASE backends' = backends /\ rec' = rec /\ undone' = undone /\ CheckFailed
  <2>1. Quiet /\ DrainingKept
    BY <1>4, RestQuiet DEF CheckFailed
  <2>2. SamePlaces /\ SameRemovers
    BY <1>4 DEF SamePlaces, SameRemovers, CheckFailed
  <2>3. fails' \in 0 .. Threshold
    BY <1>4, BackendRegistryAssumption DEF TypeOK, CheckFailed, AddFailure
  <2>4. TypeOK'
    BY <1>4, <2>3 DEF TypeOK, CheckFailed
  <2> QED  BY <1>2, <2>1, <2>2, <2>4, QuietStep
<1>5. ASSUME ProbeNode \/ CheckPassed \/ CheckFailed \/ \E r \in Requests : Fail(r)
      PROVE  RegistryInv'
  <2>1. rm' = rm /\ target' = target
    BY <1>5 DEF ProbeNode, CheckPassed, CheckFailed, Fail
  <2>2. \/ \E st \in Statuses : SetStatus(backends, st)
        \/ backends' = backends /\ rec' = rec /\ undone' = undone /\ CheckFailed
    BY <1>1, <1>5 DEF ProbeNode, CheckPassed, CheckFailed, Fail
  <2> QED  BY <1>3, <1>4, <2>1, <2>2
<1>6. ASSUME NEW d \in Removers, Mark(d)
      PROVE  RegistryInv'
  <2>1. SetStatus(backends, "draining")
    BY <1>6 DEF Mark
  <2>2. \A e \in Removers : rm'[e] # rm[e] \/ target'[e] # target[e] =>
          rm'[e] = "idle" \/ (rm'[e] = "drain" /\ Exists /\ target'[e] = backends)
    BY <1>6 DEF TypeOK, Mark, Move
  <2> QED  BY <1>1, <1>3, <2>1, <2>2
<1> QED  BY <1>5, <1>6

\* Steps that change one field or another of the registered record.
LEMMA RecordStep ==
  ASSUME RegistryInv,
         \/ Age \/ Contact \/ EndUpdate \/ SetRole \/ Evacuate
         \/ \E d \in Operators : Detach(d)
         \/ TimeOutAgent \/ ScanGhosts
  PROVE  RegistryInv'
<1> USE DEF RegistryInv, registry, health, removal, requests, handler, history
<1>1. Exists => backends \in Records /\ Here \in Rec /\ Here = rec[backends]
  BY DEF TypeOK, Exists, Here
<1>2. /\ backends' = backends /\ slot' = slot /\ found' = found /\ pc' = pc /\ shorted' = shorted
      /\ torn' = torn
      /\ target' = target /\ fails' = fails /\ check' = check /\ probe' = probe /\ up' = up
  BY DEF Age, Contact, EndUpdate, SetRole, Evacuate, Detach, TimeOutAgent, ScanGhosts
<1>3. /\ rec' \in [Records -> Rec]
      /\ Exists /\ backends \notin torn => rec'[backends].active = Here.active
      /\ DrainingKept /\ undone' \subseteq Records
  <2>1. CASE rec' = rec /\ undone' = undone
    BY <2>1, <1>1 DEF TypeOK, DrainingKept
  <2>2. ASSUME Exists, rec' = [rec EXCEPT ![backends] = rec'[backends]],
               rec'[backends] \in Rec, backends \notin torn => rec'[backends].active = Here.active,
               \/ undone' = undone
                  /\ (Here.status = "draining" => rec'[backends].status = "draining")
               \/ undone' = undone \union {backends}
        PROVE  /\ rec' \in [Records -> Rec]
               /\ Exists /\ backends \notin torn => rec'[backends].active = Here.active
               /\ DrainingKept /\ undone' \subseteq Records
    BY <2>2, <1>1 DEF TypeOK, DrainingKept
  <2> DEFINE gone == [Here EXCEPT !.silent = "gone"]
             fresh == [Here EXCEPT !.silent = "fresh"]
             role == [Here EXCEPT !.role = ~Here.role]
             drain == [Here EXCEPT !.status = "draining"]
             left == [Here EXCEPT !.agent = FALSE]
             off == [Here EXCEPT !.agent = FALSE, !.status = "offline",
                                 !.silent = IF Here.contacted THEN Here.silent ELSE "fresh"]
  <2>3. Exists => \A x \in {gone, fresh, role, left} :
          x \in Rec /\ x.active = Here.active /\ x.status = Here.status
    BY <1>1, ZenonT(30) DEF TypeOK, Rec
  <2>4. Exists => drain \in Rec /\ drain.active = Here.active /\ drain.status = "draining"
    BY <1>1 DEF Rec, Statuses
  <2>5. Exists => off \in Rec /\ off.active = Here.active
    BY <1>1 DEF Rec, Statuses
  <2>6. ASSUME Exists, NEW a \in {Here.agent, TRUE}
        PROVE  LET x == [Here EXCEPT !.agent = a, !.contacted = TRUE, !.silent = "fresh"]
               IN x \in Rec /\ x.active = Here.active /\ x.status = Here.status
    BY <1>1, <2>6 DEF Rec
  <2> HIDE DEF gone, fresh, role, drain, left, off
  <2>7. CASE Age
    <3>1. Exists /\ undone' = undone /\ rec' = [rec EXCEPT ![backends] = gone]
      BY <2>7, <1>1 DEF Age, TypeOK, gone
    <3>2. rec'[backends] = gone  BY <3>1, <1>1 DEF TypeOK
    <3> QED  BY <3>1, <3>2, <2>3, <2>2
  <2>8. CASE Contact
    <3>1. PICK a \in {Here.agent, TRUE} :
             rec' = [rec EXCEPT ![backends].agent = a, ![backends].contacted = TRUE,
                                ![backends].silent = "fresh"]
      BY <2>8 DEF Contact
    <3>2. Exists /\ undone' = undone
      BY <2>8 DEF Contact
    <3>3. rec' = [rec EXCEPT ![backends] =
                    [Here EXCEPT !.agent = a, !.contacted = TRUE, !.silent = "fresh"]]
      BY <3>1, <3>2, <1>1 DEF TypeOK, Rec
    <3>4. rec'[backends] = [Here EXCEPT !.agent = a, !.contacted = TRUE, !.silent = "fresh"]
      BY <3>3, <3>2, <1>1 DEF TypeOK
    <3> QED  BY <3>2, <3>3, <3>4, <2>6, <2>2
  <2>9. CASE EndUpdate
    <3>1. Exists /\ rec' = [rec EXCEPT ![backends] = copy] /\ undone' = undone
      BY <2>9 DEF EndUpdate, UpdateInv
    <3>2. rec'[backends] = copy  BY <3>1, <1>1 DEF TypeOK
    <3>3. /\ copy \in Rec /\ copy.status = Here.status
          /\ backends \notin torn => copy.active = Here.active
      BY <2>9 DEF EndUpdate, UpdateInv, TypeOK
    <3> QED  BY <3>1, <3>2, <3>3, <2>2
  <2>10. CASE SetRole
    <3>1. Exists /\ undone' = undone /\ rec' = [rec EXCEPT ![backends] = role]
      BY <2>10, <1>1 DEF SetRole, TypeOK, role
    <3>2. rec'[backends] = role  BY <3>1, <1>1 DEF TypeOK
    <3> QED  BY <3>1, <3>2, <2>3, <2>2
  <2>11. CASE Evacuate
    <3>1. Exists /\ undone' = undone /\ rec' = [rec EXCEPT ![backends] = drain]
      BY <2>11, <1>1 DEF Evacuate, TypeOK, drain
    <3>2. rec'[backends] = drain  BY <3>1, <1>1 DEF TypeOK
    <3> QED  BY <3>1, <3>2, <2>4, <2>2
  <2>12. ASSUME NEW d \in Operators, Detach(d)
         PROVE  /\ rec' \in [Records -> Rec]
                /\ Exists /\ backends \notin torn => rec'[backends].active = Here.active
                /\ DrainingKept /\ undone' \subseteq Records
    <3>1. CASE Exists
      <4>1. /\ rec' = [rec EXCEPT ![backends].agent = FALSE, ![backends].status = "offline",
                                  ![backends].silent = IF Here.contacted THEN @ ELSE "fresh"]
            /\ undone' = IF Here.status = "draining" THEN undone \union {backends} ELSE undone
        BY <2>12, <3>1 DEF Detach
      <4>2. rec' = [rec EXCEPT ![backends] = off]
        BY <4>1, <3>1, <1>1 DEF TypeOK, Rec, off
      <4>3. rec'[backends] = off  BY <3>1, <4>2, <1>1 DEF TypeOK
      <4> QED  BY <3>1, <4>1, <4>2, <4>3, <2>5, <2>2
    <3>2. CASE ~Exists
      BY <2>12, <3>2, <2>1 DEF Detach
    <3> QED  BY <3>1, <3>2
  <2>13. CASE TimeOutAgent
    <3> DEFINE late == Exists /\ (Here.silent = "gone" \/ ~Here.contacted)
    <3>1. /\ undone' = undone
          /\ rec' = IF late THEN [rec EXCEPT ![backends].agent = FALSE] ELSE rec
      BY <2>13 DEF TimeOutAgent
    <3> HIDE DEF late
    <3>2. CASE late
      <4> Exists  BY <3>2 DEF late
      <4>1. rec' = [rec EXCEPT ![backends] = left]
        BY <3>1, <3>2, <1>1 DEF TypeOK, left
      <4>2. rec'[backends] = left  BY <4>1, <1>1 DEF TypeOK
      <4> QED  BY <3>1, <4>1, <4>2, <2>3, <2>2
    <3>3. CASE ~late  BY <3>1, <3>3, <2>1
    <3> QED  BY <3>2, <3>3
  <2>14. CASE ScanGhosts
    <3> DEFINE timed == Ghost /\ ~Here.role /\ Here.silent = "none"
    <3>1. /\ undone' = undone
          /\ rec' = IF timed THEN [rec EXCEPT ![backends].silent = "fresh"] ELSE rec
      BY <2>14 DEF ScanGhosts
    <3> HIDE DEF timed
    <3>2. CASE timed
      <4> Exists  BY <3>2 DEF timed, Ghost
      <4>1. rec' = [rec EXCEPT ![backends] = fresh]
        BY <3>1, <3>2, <1>1 DEF TypeOK, fresh
      <4>2. rec'[backends] = fresh  BY <4>1, <1>1 DEF TypeOK
      <4> QED  BY <3>1, <4>1, <4>2, <2>3, <2>2
    <3>3. CASE ~timed  BY <3>1, <3>3, <2>1
    <3> QED  BY <3>2, <3>3
  <2> QED  BY <2>7, <2>8, <2>9, <2>10, <2>11, <2>12, <2>13, <2>14
<1>4. Quiet /\ SamePlaces
  BY <1>2, <1>3 DEF Quiet, SamePlaces
<1>5. SameRemovers /\ rm' \in [Removers ->
        {"idle", "scan", "ghost", "detach", "mark", "drain", "drained", "forced"}]
  <2>1. CASE rm' = rm
    BY <2>1, <1>2 DEF TypeOK, SameRemovers
  <2>2. ASSUME NEW d \in Removers, NEW p \in {"idle", "scan", "ghost"}, Move(d, p)
        PROVE  SameRemovers /\ rm' \in [Removers ->
                 {"idle", "scan", "ghost", "detach", "mark", "drain", "drained", "forced"}]
    BY <2>2, <1>2 DEF TypeOK, SameRemovers, Move
  <2>3. rm' = rm \/ \E d \in Removers, p \in {"idle", "scan", "ghost"} : Move(d, p)
    BY DEF Age, Contact, EndUpdate, SetRole, Evacuate, Detach, TimeOutAgent, ScanGhosts, Removers
  <2> QED  BY <2>1, <2>2, <2>3
<1>6. copy' \in Rec /\ agent' \in {"idle", "copy", "write", "writing"}
  <2>1. NewRec \in Rec
    BY BackendRegistryAssumption DEF Rec, NewRec, Statuses
  <2> QED
    BY <2>1 DEF TypeOK, Age, Contact, EndUpdate, SetRole, Evacuate, Detach, TimeOutAgent, ScanGhosts
<1>7. TypeOK'
  BY <1>2, <1>3, <1>5, <1>6 DEF TypeOK
<1>8. UpdateInv'
  <2>1. agent' # "writing"
    BY DEF Unlocked, Age, Contact, EndUpdate, SetRole, Evacuate, Detach, TimeOutAgent, ScanGhosts
  <2> QED  BY <2>1, UpdateUntouched
<1> QED  BY <1>3, <1>4, <1>5, <1>7, <1>8, QuietStep

-----------------------------------------------------------------------------
(* Requests.                                                               *)

LEMMA FindStep ==
  ASSUME RegistryInv, NEW r \in Requests, Find(r)
  PROVE  RegistryInv'
<1> USE DEF RegistryInv, registry, health, removal, requests, handler, history
<1>1. /\ backends' = backends /\ rec' = rec /\ slot' = slot /\ undone' = undone /\ shorted' = shorted
      /\ torn' = torn
      /\ rm' = rm /\ target' = target
      /\ backends \in Records /\ backends # None
      /\ found' = [found EXCEPT ![r] = backends] /\ pc' = [pc EXCEPT ![r] = "found"]
      /\ pc[r] = "idle"
  BY DEF Find, TypeOK, Exists, GoTo
<1>2. TypeOK'
  BY <1>1 DEF TypeOK, Find
<1>3. RequestInv'
  BY <1>1 DEF TypeOK, RequestInv
<1>4. HistoryInv' /\ DrainInv'
  BY <1>1 DEF HistoryInv, DrainInv, Here
<1>5. UpdateInv'
  BY <1>1, UpdateUntouched DEF Unlocked, Find
<1>6. NoPhantomLoad' /\ RunningIsCounted'
  BY <1>1 DEF NoPhantomLoad, RunningIsCounted, Holders, Here, Exists
<1> QED  BY <1>2, <1>3, <1>4, <1>5, <1>6

LEMMA RefuseStep ==
  ASSUME RegistryInv, NEW r \in Requests, Refuse(r)
  PROVE  RegistryInv'
<1> USE DEF RegistryInv, registry, health, removal, requests, handler, history
<1>1. /\ backends' = backends /\ rec' = rec /\ slot' = slot /\ undone' = undone /\ shorted' = shorted
      /\ torn' = torn
      /\ rm' = rm /\ target' = target
      /\ found' = [found EXCEPT ![r] = None] /\ pc' = [pc EXCEPT ![r] = "idle"]
      /\ pc[r] = "found"
  BY DEF Refuse, GoTo
<1>2. TypeOK'
  BY <1>1 DEF TypeOK, Refuse
<1>3. RequestInv'
  BY <1>1 DEF TypeOK, RequestInv
<1>4. HistoryInv' /\ DrainInv'
  BY <1>1 DEF HistoryInv, DrainInv, Here
<1>5. UpdateInv'
  BY <1>1, UpdateUntouched DEF Refuse
<1>6. NoPhantomLoad' /\ RunningIsCounted'
  BY <1>1 DEF NoPhantomLoad, RunningIsCounted, Holders, Here, Exists
<1> QED  BY <1>2, <1>3, <1>4, <1>5, <1>6

\* A slot is taken on a healthy record, so on none that is being drained.
LEMMA AcquireStep ==
  ASSUME RegistryInv, NEW r \in Requests, Acquire(r)
  PROVE  RegistryInv'
<1> USE DEF RegistryInv, registry, health, removal, requests, handler, history
<1>1. found[r] \in Records
  BY DEF Acquire, TypeOK, RequestInv
<1> PICK i \in Records : i = found[r]
  BY <1>1
<1>2. /\ backends' = backends /\ undone' = undone /\ shorted' = shorted
      /\ rm' = rm /\ target' = target /\ pc[r] = "found"
      /\ rec[i].status = "healthy" /\ rec[i].active < Limit
      /\ rec' = [rec EXCEPT ![i].active = @ + 1]
      /\ slot' = [slot EXCEPT ![r] = i] /\ found' = [found EXCEPT ![r] = None]
      /\ pc' = [pc EXCEPT ![r] = "running"]
      /\ torn' = IF agent = "writing" /\ i = backends THEN torn \union {i} ELSE torn
      /\ agent' = agent /\ copy' = copy
  BY DEF Acquire, GoTo, Tear
<1>3. i \in Records /\ i # None /\ slot[r] = None /\ rec[i] \in Rec /\ rec[i].active \in 0 .. Limit
  BY <1>2 DEF TypeOK, RequestInv, Rec
<1>4. [rec[i] EXCEPT !.active = rec[i].active + 1] \in Rec
  BY <1>2, <1>3, BackendRegistryAssumption DEF Rec
<1>5. /\ rec' \in [Records -> Rec]
      /\ rec'[i].active = rec[i].active + 1
      /\ \A j \in Records : j # i => rec'[j] = rec[j]
      /\ \A j \in Records : rec'[j].status = rec[j].status
  BY <1>2, <1>3, <1>4 DEF TypeOK, Rec
<1>6. TypeOK'
  BY <1>2, <1>3, <1>5 DEF TypeOK, Acquire
<1>7. RequestInv'
  BY <1>2, <1>3 DEF TypeOK, RequestInv
<1>8. HistoryInv'
  BY <1>2 DEF HistoryInv
<1>9. DrainInv'
  <2> SUFFICES ASSUME NEW d \in Removers, rm[d] \in {"drain", "drained", "forced"}
               PROVE  /\ target[d] # None
                      /\ target[d] = backends /\ backends \notin undone =>
                           /\ rec'[backends].status = "draining"
                           /\ rm[d] = "drained" /\ backends \notin torn => rec'[backends].active = 0
    BY <1>2 DEF DrainInv, Here
  <2>1. target[d] \in Records /\ target[d] # None
    BY DEF DrainInv, TypeOK
  <2>2. ASSUME target[d] = backends, backends \notin undone
        PROVE  backends \in Records /\ backends # i /\ rec[backends].status = "draining"
               /\ (rm[d] = "drained" /\ backends \notin torn => rec[backends].active = 0)
    BY <1>2, <2>1, <2>2 DEF DrainInv, Here
  <2> QED  BY <1>5, <2>1, <2>2
<1>10. UpdateInv'
  BY <1>2, <1>3, <1>5 DEF UpdateInv, TypeOK, Exists, Here
<1>11. Cardinality(Holders(i)') = Cardinality(Holders(i)) + 1
      /\ \A j \in Records : j # i => Holders(j)' = Holders(j)
  BY <1>2, <1>3, SlotTaken DEF TypeOK
<1>12. NoPhantomLoad' /\ RunningIsCounted'
  <2> SUFFICES ASSUME NEW b \in Records, b = backends
      PROVE /\ b \notin torn' => rec'[b].active \in 0 .. Cardinality(Holders(b)')
            /\ b \notin shorted \union torn' => rec'[b].active >= Cardinality(Holders(b)')
    BY <1>2 DEF TypeOK, NoPhantomLoad, RunningIsCounted, Exists, Here, Holders
  <2>1. rec[b].active \in Nat /\ torn \subseteq torn'
    BY <1>2, BackendRegistryAssumption DEF TypeOK, Rec
  <2>2. /\ b \notin torn => rec[b].active \in 0 .. Cardinality(Holders(b))
        /\ b \notin shorted \union torn => rec[b].active >= Cardinality(Holders(b))
    BY BackendRegistryAssumption DEF TypeOK, Exists, Here, NoPhantomLoad, RunningIsCounted
  <2>3. CASE b = i
    <3>1. /\ rec'[b].active = rec[b].active + 1
          /\ Cardinality(Holders(b)') = Cardinality(Holders(b)) + 1
      BY <1>5, <1>11, <2>3
    <3> QED  BY <2>1, <2>2, <3>1, HoldersFinite
  <2>4. CASE b # i
    BY <1>5, <1>11, <2>1, <2>2, <2>4
  <2> QED  BY <2>3, <2>4
<1> QED  BY <1>6, <1>7, <1>8, <1>9, <1>10, <1>12

\* A release looks the ID up again: it finds a record, or drops its slot of one
\* that is gone.
LEMMA FindAgainStep ==
  ASSUME RegistryInv, NEW r \in Requests, FindAgain(r)
  PROVE  RegistryInv'
<1> USE DEF RegistryInv, registry, health, removal, requests, handler, history
<1>1. /\ backends' = backends /\ rec' = rec /\ undone' = undone /\ shorted' = shorted
      /\ torn' = torn
      /\ rm' = rm /\ target' = target /\ pc[r] = "release"
      /\ found' = [found EXCEPT ![r] = backends]
      /\ slot' = [slot EXCEPT ![r] = IF Exists THEN slot[r] ELSE None]
      /\ pc' = [pc EXCEPT ![r] = IF Exists THEN "decrement" ELSE "idle"]
  BY DEF FindAgain, GoTo, TypeOK
<1>2. TypeOK'
  <2>1. slot' \in [Requests -> Records \union {None}]
    BY <1>1 DEF TypeOK
  <2>2. found' \in [Requests -> Records \union {None}]
    BY <1>1 DEF TypeOK
  <2>3. pc' \in [Requests -> {"idle", "found", "running", "release", "decrement"}]
    BY <1>1 DEF TypeOK
  <2> QED  BY <1>1, <2>1, <2>2, <2>3 DEF TypeOK, FindAgain
<1>3. RequestInv'
  BY <1>1 DEF TypeOK, RequestInv, Exists
<1>4. HistoryInv' /\ DrainInv'
  BY <1>1 DEF HistoryInv, DrainInv, Here
<1>5. UpdateInv'
  BY <1>1, UpdateUntouched DEF Unlocked, FindAgain
<1>6. ASSUME Exists
      PROVE  NoPhantomLoad' /\ RunningIsCounted'
  <2>1. slot' = slot
    BY <1>1, <1>6 DEF TypeOK
  <2> QED  BY <1>1, <2>1 DEF NoPhantomLoad, RunningIsCounted, Holders, Here, Exists
<1>7. ASSUME ~Exists
      PROVE  NoPhantomLoad' /\ RunningIsCounted'
  BY <1>1, <1>7 DEF NoPhantomLoad, RunningIsCounted, Exists
<1> QED  BY <1>2, <1>3, <1>4, <1>5, <1>6, <1>7

\* The count goes down on the record that was found, which is the one whose slot
\* is returned unless the history says so.
LEMMA DecrementStep ==
  ASSUME RegistryInv, NEW r \in Requests, Decrement(r)
  PROVE  RegistryInv'
<1> USE DEF RegistryInv, registry, health, removal, requests, handler, history
<1>1. found[r] \in Records /\ slot[r] \in Records
  BY DEF Decrement, TypeOK, RequestInv
<1> PICK i \in Records, k \in Records : i = found[r] /\ k = slot[r]
  BY <1>1
<1>2. /\ backends' = backends /\ undone' = undone
      /\ rm' = rm /\ target' = target /\ pc[r] = "decrement"
      /\ rec' = [rec EXCEPT ![i].active = IF @ > 0 THEN @ - 1 ELSE @]
      /\ shorted' = IF i = backends /\ k # backends THEN shorted \union {backends} ELSE shorted
      /\ slot' = [slot EXCEPT ![r] = None] /\ found' = [found EXCEPT ![r] = None]
      /\ pc' = [pc EXCEPT ![r] = "idle"]
      /\ k = backends => i = backends
      /\ torn' = IF agent = "writing" /\ i = backends THEN torn \union {i} ELSE torn
      /\ agent' = agent /\ copy' = copy
  BY DEF Decrement, GoTo, RequestInv, Tear
<1>3. rec[i] \in Rec /\ rec[i].active \in 0 .. Limit /\ None \notin Records /\ Limit \in Nat
  BY BackendRegistryAssumption DEF TypeOK, Rec
<1>4. [rec[i] EXCEPT !.active = IF rec[i].active > 0 THEN rec[i].active - 1 ELSE rec[i].active] \in Rec
  BY <1>3 DEF Rec
<1>5. /\ rec' \in [Records -> Rec]
      /\ rec'[i].active = IF rec[i].active > 0 THEN rec[i].active - 1 ELSE rec[i].active
      /\ \A j \in Records : j # i => rec'[j] = rec[j]
      /\ \A j \in Records : rec'[j].status = rec[j].status
  BY <1>2, <1>3, <1>4 DEF TypeOK, Rec
<1>6. TypeOK'
  <2>1. shorted' \subseteq Records
    BY <1>2 DEF TypeOK
  <2> QED  BY <1>2, <1>5, <2>1 DEF TypeOK, Decrement
<1>7. RequestInv'
  BY <1>2 DEF TypeOK, RequestInv
<1>8. HistoryInv'
  BY <1>2 DEF HistoryInv
<1>9. DrainInv'
  <2> SUFFICES ASSUME NEW d \in Removers, rm[d] \in {"drain", "drained", "forced"}
               PROVE  /\ target[d] # None
                      /\ target[d] = backends /\ backends \notin undone =>
                           /\ rec'[backends].status = "draining"
                           /\ rm[d] = "drained" /\ backends \notin torn => rec'[backends].active = 0
    BY <1>2 DEF DrainInv, Here
  <2>1. target[d] \in Records /\ target[d] # None
    BY DEF DrainInv, TypeOK
  <2>2. ASSUME target[d] = backends, backends \notin undone
        PROVE  backends \in Records /\ rec[backends].status = "draining"
               /\ (rm[d] = "drained" /\ backends \notin torn => rec[backends].active = 0)
    BY <2>1, <2>2 DEF DrainInv, Here
  <2> QED  BY <1>5, <2>1, <2>2
<1>10. UpdateInv'
  BY <1>2, <1>5 DEF UpdateInv, TypeOK, Exists, Here
<1>11. /\ Cardinality(Holders(k)') = Cardinality(Holders(k)) - 1
       /\ Cardinality(Holders(k)) > 0
       /\ \A j \in Records : j # k => Holders(j)' = Holders(j)
  BY <1>2, SlotReturned DEF TypeOK
<1>12. NoPhantomLoad' /\ RunningIsCounted'
  <2> SUFFICES ASSUME NEW b \in Records, b = backends
      PROVE /\ b \notin torn' => rec'[b].active \in 0 .. Cardinality(Holders(b)')
            /\ b \notin shorted' \union torn' => rec'[b].active >= Cardinality(Holders(b)')
    BY <1>2 DEF TypeOK, NoPhantomLoad, RunningIsCounted, Exists, Here, Holders
  <2>1. rec[b].active \in Nat /\ torn \subseteq torn'
    BY <1>2, BackendRegistryAssumption DEF TypeOK, Rec
  <2>2. /\ b \notin torn => rec[b].active \in 0 .. Cardinality(Holders(b))
        /\ b \notin shorted \union torn => rec[b].active >= Cardinality(Holders(b))
    BY BackendRegistryAssumption DEF TypeOK, Exists, Here, NoPhantomLoad, RunningIsCounted
  <2>3. shorted \subseteq shorted'
    BY <1>2
  <2>4. CASE b = i /\ b = k
    <3>1. Cardinality(Holders(b)') = Cardinality(Holders(b)) - 1 /\ Cardinality(Holders(b)) > 0
      BY <1>11, <2>4
    <3>2. rec'[b].active = IF rec[b].active > 0 THEN rec[b].active - 1 ELSE rec[b].active
      BY <1>5, <2>4
    <3> QED  BY <2>1, <2>2, <2>3, <3>1, <3>2, HoldersFinite
  <2>5. CASE b = i /\ b # k
    <3>1. Holders(b)' = Holders(b) /\ b \in shorted'
      BY <1>2, <1>11, <2>5
    <3>2. rec'[b].active = IF rec[b].active > 0 THEN rec[b].active - 1 ELSE rec[b].active
      BY <1>5, <2>5
    <3> QED  BY <2>1, <2>2, <3>1, <3>2, HoldersFinite
  <2>6. CASE b # i
    <3>1. b # k
      BY <1>2, <2>6
    <3> QED  BY <1>5, <1>11, <2>1, <2>2, <2>3, <2>6, <3>1
  <2> QED  BY <2>4, <2>5, <2>6
<1> QED  BY <1>6, <1>7, <1>8, <1>9, <1>10, <1>12

-----------------------------------------------------------------------------
(* Registration and removal.                                               *)

\* The record of a new registration is in nobody's hands.
LEMMA AddBackendStep ==
  ASSUME RegistryInv, AddBackend
  PROVE  RegistryInv'
<1> USE DEF RegistryInv, registry, health, removal, requests, handler, history
<1>1. PICK i \in Records : Unused(i) /\ backends' = i /\ rec' = [rec EXCEPT ![i] = NewRec]
  BY DEF AddBackend
<1>2. /\ backends = None /\ undone' = undone /\ shorted' = shorted /\ torn' = torn /\ slot' = slot
      /\ found' = found /\ pc' = pc /\ rm' = rm /\ target' = target
  BY DEF AddBackend, Exists
<1>3. None \notin Records /\ NewRec \in Rec /\ NewRec.active = 0
  BY BackendRegistryAssumption DEF NewRec, Rec, Statuses
<1>4. /\ \A r \in Requests : found[r] # i /\ slot[r] # i
      /\ \A d \in Removers : target[d] # i
  <2>1. \A d \in Removers : d # None
    BY BackendRegistryAssumption DEF Removers
  <2> QED  BY <1>1, <1>2, <1>3, <2>1 DEF Unused, Referred
<1>5. TypeOK'
  BY <1>1, <1>2, <1>3 DEF TypeOK, AddBackend
<1>6. RequestInv'
  BY <1>1, <1>2, <1>4 DEF RequestInv
<1>7. undone = {} /\ shorted = {} /\ torn = {}
  BY <1>2, <1>3 DEF HistoryInv, TypeOK
<1>8. HistoryInv' /\ DrainInv'
  BY <1>1, <1>2, <1>4, <1>7 DEF HistoryInv, DrainInv
<1>9. UpdateInv'
  BY UpdateUntouched DEF AddBackend, Unlocked
<1>10. Holders(i)' = {} /\ rec'[i].active = 0
  BY <1>1, <1>2, <1>3, <1>4 DEF Holders, TypeOK
<1>11. Cardinality(Holders(i)') = 0
  BY <1>10, FS_EmptySet
<1>12. NoPhantomLoad' /\ RunningIsCounted'
  BY <1>1, <1>10, <1>11 DEF NoPhantomLoad, RunningIsCounted, Here, Exists, Holders
<1> QED  BY <1>5, <1>6, <1>8, <1>9, <1>12

LEMMA DeleteStep ==
  ASSUME RegistryInv, NEW d \in Removers, Delete(d)
  PROVE  RegistryInv'
<1> USE DEF RegistryInv, registry, health, removal, requests, handler, history
<1>1. /\ backends' = None /\ slot' = slot /\ found' = found /\ pc' = pc
      /\ undone' = undone \ {backends} /\ shorted' = shorted \ {backends} /\ torn' = torn \ {backends}
      /\ rm' = [rm EXCEPT ![d] = "idle"] /\ target' = [target EXCEPT ![d] = None]
  BY DEF Delete, Move
<1>2. None \notin Records /\ NewRec \in Rec
  BY BackendRegistryAssumption DEF NewRec, Rec, Statuses
<1>3. rec' \in [Records -> Rec]
  <2>1. CASE ~Exists
    BY <2>1 DEF Delete, TypeOK
  <2>2. CASE Exists
    <3> DEFINE new == IF Referred(backends, d)
                      THEN [NewRec EXCEPT !.status = Here.status, !.active = Here.active]
                      ELSE NewRec
    <3>1. backends \in Records /\ Here \in Rec
      BY <2>2 DEF TypeOK, Exists, Here
    <3>2. [NewRec EXCEPT !.status = Here.status, !.active = Here.active] \in Rec
      BY <1>2, <3>1 DEF Rec
    <3>3. new \in Rec
      BY <1>2, <3>2
    <3>4. rec' = [rec EXCEPT ![backends] = new]
      BY <2>2 DEF Delete
    <3> HIDE DEF new
    <3> QED  BY <3>1, <3>3, <3>4 DEF TypeOK
  <2> QED  BY <2>1, <2>2
<1>4. TypeOK'
  BY <1>1, <1>3 DEF TypeOK, Delete
<1>5. RequestInv'
  BY <1>1, <1>2 DEF RequestInv, TypeOK
<1>6. HistoryInv'
  BY <1>1 DEF HistoryInv
<1>7. UpdateInv'
  BY UpdateUntouched DEF Delete, Unlocked
<1>8. DrainInv'
  BY <1>1, <1>2 DEF DrainInv, TypeOK
<1>9. NoPhantomLoad' /\ RunningIsCounted'
  BY <1>1 DEF NoPhantomLoad, RunningIsCounted, Exists
<1> QED  BY <1>4, <1>5, <1>6, <1>7, <1>8, <1>9

-----------------------------------------------------------------------------

LEMMA StepRegistryInv == RegistryInv /\ [Next]_vars => RegistryInv'
<1> SUFFICES ASSUME RegistryInv, [Next]_vars  PROVE RegistryInv'
  OBVIOUS
<1>1. ASSUME NEW r \in Requests, Proceed(r)  PROVE RegistryInv'
  BY <1>1, FindStep, AcquireStep, RefuseStep, StatusStep, OutsideStep, FindAgainStep, DecrementStep
  DEF Proceed
<1>2. ASSUME NEW d \in Removers, Remove(d)  PROVE RegistryInv'
  BY <1>2, StatusStep, OutsideStep, DeleteStep DEF Remove
<1>3. ASSUME NEW d \in Operators, BeginDelete(d) \/ BeginDetach(d) \/ Detach(d)  PROVE RegistryInv'
  BY <1>3, OutsideStep, RecordStep
<1>4. ASSUME ChangeUp \/ Checker \/ AddBackend \/ ProbeNode  PROVE RegistryInv'
  BY <1>4, OutsideStep, StatusStep, AddBackendStep DEF Checker
<1>5. ASSUME Evacuate \/ Contact \/ Reregister \/ CopyRecord \/ BeginUpdate \/ EndUpdate \/ Age \/ Reap \/ SetRole
      PROVE  RegistryInv'
  BY <1>5, OutsideStep, RecordStep DEF Reap
<1>6. ASSUME UNCHANGED vars  PROVE RegistryInv'
  <2>1. TypeOK' /\ RequestInv' /\ HistoryInv' /\ UpdateInv' /\ DrainInv'
    BY <1>6 DEF vars, registry, health, removal, requests, handler, history, RegistryInv, TypeOK,
                RequestInv, HistoryInv, UpdateInv, DrainInv, Exists, Here
  <2>2. backends' = backends /\ rec' = rec /\ slot' = slot /\ shorted' = shorted /\ torn' = torn
    BY <1>6 DEF vars, registry, requests, history
  <2>3. Holders(backends)' = Holders(backends)
    BY <2>2 DEF Holders
  <2>4. NoPhantomLoad' /\ RunningIsCounted'
    BY <2>2, <2>3 DEF RegistryInv, NoPhantomLoad, RunningIsCounted, Exists, Here
  <2> QED  BY <2>1, <2>4 DEF RegistryInv
<1>7. Reaper \in Removers /\ \A d \in Operators : d \in Removers
  BY DEF Removers
<1> QED  BY <1>1, <1>2, <1>3, <1>4, <1>5, <1>6, <1>7 DEF Next

THEOREM RegistryInvariant == Spec => []RegistryInv
<1>1. Init => RegistryInv  BY InitRegistryInv
<1>2. RegistryInv /\ [Next]_vars => RegistryInv'  BY StepRegistryInv
<1> QED  BY <1>1, <1>2, PTL DEF Spec

\* Spec => []TypeOK: the active requests of a record stay within its limit.
THEOREM TypeCorrect == Spec => []TypeOK
<1>1. RegistryInv => TypeOK  BY DEF RegistryInv
<1> QED  BY <1>1, RegistryInvariant, PTL

\* NoPhantomLoad for any number of requests, removals and registrations: what
\* is counted on the registered record has a request that will release it,
\* unless a count changed between UpdateBackend's read and write of it.
THEOREM NoPhantomLoadEver == Spec => []NoPhantomLoad
<1>1. RegistryInv => NoPhantomLoad  BY DEF RegistryInv
<1> QED  BY <1>1, RegistryInvariant, PTL

\* RunningIsCounted: a request that has a slot is counted, unless UpdateBackend
\* overwrote a count that changed under its hands, or a lease of a removed
\* record was released on this one.
THEOREM RunningAlwaysCounted == Spec => []RunningIsCounted
<1>1. RegistryInv => RunningIsCounted  BY DEF RegistryInv
<1> QED  BY <1>1, RegistryInvariant, PTL

\* DrainedIsIdle: a removal that saw its record empty takes it away empty, unless
\* a status update put it back into service or its count is one of those.
THEOREM DrainedAlwaysIdle == Spec => DrainedIsIdle
<1>1. RegistryInv =>
        \A d \in Removers :
          rm[d] = "drained" /\ rm'[d] = "idle" /\ target[d] = backends
             /\ backends \notin undone \union shorted \union torn
          => Holders(backends) = {}
  <2> SUFFICES ASSUME RegistryInv, NEW d \in Removers, rm[d] = "drained", target[d] = backends,
                      backends \notin undone \union shorted \union torn
               PROVE  Holders(backends) = {}
    OBVIOUS
  <2>1. Exists /\ Here.active = 0
    BY DEF RegistryInv, DrainInv, Exists
  <2>2. 0 >= Cardinality(Holders(backends))
    BY <2>1 DEF RegistryInv, RunningIsCounted
  <2>3. Cardinality(Holders(backends)) = 0
    BY <2>2, HoldersFinite
  <2> QED  BY <2>3, HoldersFinite, FS_EmptySet
<1> QED  BY <1>1, RegistryInvariant, PTL DEF DrainedIsIdle

=============================================================================

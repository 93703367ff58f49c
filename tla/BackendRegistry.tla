-------------------------- MODULE BackendRegistry --------------------------
(***************************************************************************)
(* One backend ID of the balancer from its registration to its removal:    *)
(* Proxy.backends (internal/balancer/backend_registry.go), the slots of    *)
(* its record (slot_manager.go), the health checker (health.go), the agent *)
(* time-out and the ghost reaper (agent_manager.go,                        *)
(* ghost_backend_reaper.go), and the handlers that register, delete and    *)
(* evacuate it (api/handlers_agents.go, api/handlers_backends.go).         *)
(*                                                                         *)
(* Records of different IDs never meet, so one ID is enough.  It may be    *)
(* registered again, and then everybody who works by ID meets a record he  *)
(* does not know.  A step is one critical section or one call of the node; *)
(* UpdateBackend, whose section another one can interleave, is two.        *)
(***************************************************************************)
EXTENDS Naturals, FiniteSets

CONSTANTS Requests, Operators,
          Reaper,      \* the goroutine of the agent time-out checker
          Records,     \* bound on the records of the ID that are referred to
          Parts,       \* what is looked at together: sets of the names in Next
          Limit,       \* EffectiveMaxConcurrentRequests
          Threshold,   \* HealthChecker.threshold
          None

ASSUME BackendRegistryAssumption ==
  /\ IsFiniteSet(Requests)
  /\ Limit \in Nat \ {0} /\ Threshold \in Nat \ {0}
  /\ Reaper \notin Operators
  /\ None \notin Records \union Operators \union {Reaper}

VARIABLES backends,          \* the record of p.backends[id]
          rec,               \* rec[i]: what the record says
          fails,             \* ConsecutiveFails of hc.results[id]
          check, probe,      \* the check loop, and the check a registration starts
          rm, target,        \* where a remover is, and the record it has in hand
          pc, found, slot,   \* where a request is, the record it has looked up, and
                             \* the record whose slot it took (it knows only the ID)
          agent, copy,       \* where the agent's handler is ("writing": it has p.mu),
                             \* and its copy of a record
          up,                \* the node answers
          parts,             \* the parts that take part
          undone, shorted,   \* history: records taken out of draining by a status
                             \* update, records that lost a slot to a stranger's release,
          torn               \* records with a slot taken or given back while
                             \* UpdateBackend had their count in hand

registry == <<backends, rec>>
health == <<fails, check, probe>>
removal == <<rm, target>>
requests == <<pc, found, slot>>
handler == <<agent, copy>>
history == <<undone, shorted, torn>>
vars == <<registry, health, removal, requests, handler, up, history, parts>>

Removers == Operators \union {Reaper}

\* status: unhealthy is also ollama_unavailable, which is treated alike.
\* silent: the age of ghostSilentSince, none when there is neither a contact nor
\* an anchor, gone when it is past the agent time-out and the TTL of a ghost.
NewRec == [status |-> "starting", agent |-> FALSE, contacted |-> FALSE,
           silent |-> "none", role |-> FALSE, active |-> 0]

Init ==
  /\ backends = None
  /\ rec = [i \in Records |-> NewRec]
  /\ fails = 0
  /\ check = "idle" /\ probe = "none"
  /\ rm = [d \in Removers |-> "idle"] /\ target = [d \in Removers |-> None]
  /\ pc = [r \in Requests |-> "idle"]
  /\ found = [r \in Requests |-> None] /\ slot = [r \in Requests |-> None]
  /\ agent = "idle" /\ copy = NewRec
  /\ up = TRUE
  /\ undone = {} /\ shorted = {} /\ torn = {}
  /\ parts \in Parts

Exists == backends # None
Here == rec[backends]

\* Somebody other than d has record i in hand.
Referred(i, d) ==
  \/ \E r \in Requests : i \in {found[r], slot[r]}
  \/ \E e \in Removers \ {d} : i = target[e]

Unused(i) == i # backends /\ ~Referred(i, None)

\* p.mu can be taken: nobody else keeps it over two steps.
Unlocked == agent # "writing"

\* A change of i's count under state.mu meets an UpdateBackend that has read it.
Tear(i) ==
  torn' = IF agent = "writing" /\ i = backends THEN torn \union {i} ELSE torn

\* UpdateBackendStatus, and its like: whatever the status was.
SetStatus(i, st) ==
  IF i = None THEN UNCHANGED <<registry, undone>>
  ELSE /\ rec' = [rec EXCEPT ![i].status = st]
       /\ undone' = IF Here.status = "draining" /\ st # "draining"
                    THEN undone \union {i} ELSE undone
       /\ UNCHANGED backends

-----------------------------------------------------------------------------
(* The node and time.                                                      *)

ChangeUp == up' = ~up /\ UNCHANGED <<registry, health, removal, requests, handler, history>>

\* Minutes pass, which a handler between two of its steps does not take.
Age ==
  /\ Exists /\ Here.silent = "fresh" /\ agent = "idle"
  /\ rec' = [rec EXCEPT ![backends].silent = "gone"]
  /\ UNCHANGED <<backends, health, removal, requests, handler, up, history>>

-----------------------------------------------------------------------------
(* Registration and the agent.                                             *)

\* AddBackend, and the goroutine that checks the new backend a second later.
\* The model registers an ID again when the check of the last time is over.
\* (A role from backend-roles.json is a SetRole that follows at once.)
AddBackend ==
  /\ Unlocked /\ ~Exists /\ probe = "none"
  /\ \E i \in Records :
       /\ Unused(i) /\ \A j \in Records : Unused(j) => i <= j
       /\ backends' = i
       /\ rec' = [rec EXCEPT ![i] = NewRec]
  /\ probe' = "due"
  /\ UNCHANGED <<fails, check, removal, requests, handler, up, history>>

\* The check of a registration: it looks the ID up again and sets the status.
ProbeNode ==
  /\ Unlocked /\ probe = "due"
  /\ SetStatus(backends, IF up THEN "healthy" ELSE "unhealthy")
  /\ probe' = "none"
  /\ UNCHANGED <<fails, check, removal, requests, handler, up, shorted, torn>>

\* agentRegisterHandler for an ID that exists: the record is built anew from
\* a few fields of the old one; the contact and the anchor are not among them.
Reregister ==
  /\ agent = "idle" /\ Exists
  /\ copy' = [NewRec EXCEPT !.role = Here.role, !.agent = TRUE]
  /\ agent' = "write"
  /\ UNCHANGED <<registry, health, removal, requests, up, history>>

\* A heartbeat: UpdateBackendAgentStatus or AttachAgentToBackend, or
\* MarkAgentContact, which leaves HasAgent alone ...
Contact ==
  /\ agent = "idle" /\ Exists
  /\ \E a \in {Here.agent, TRUE} :
       rec' = [rec EXCEPT ![backends].agent = a, ![backends].contacted = TRUE,
                          ![backends].silent = "fresh"]
  /\ agent' \in {"idle", IF "agent" \in parts THEN "copy" ELSE "idle"}
  /\ UNCHANGED <<backends, health, removal, requests, copy, up, history>>

\* ... then a copy of the record, to be written back with new limits.
CopyRecord ==
  /\ agent = "copy"
  /\ IF Exists THEN copy' = Here /\ agent' = "write" ELSE agent' = "idle" /\ UNCHANGED copy
  /\ UNCHANGED <<registry, health, removal, requests, up, history>>

\* Mutant: the active requests come from the copy.
BeginUpdateWhole ==
  /\ agent = "write"
  /\ agent' = IF Exists THEN "writing" ELSE "idle"
  /\ copy' = IF Exists THEN [copy EXCEPT !.status = Here.status] ELSE NewRec
  /\ UNCHANGED <<registry, health, removal, requests, up, history>>

\* UpdateBackend takes p.mu and reads the status and the active requests of
\* the record, which it will keep ...
BeginUpdate ==
  /\ agent = "write"
  /\ agent' = IF Exists THEN "writing" ELSE "idle"
  /\ copy' = IF Exists THEN [copy EXCEPT !.status = Here.status, !.active = Here.active]
                       ELSE NewRec
  /\ UNCHANGED <<registry, health, removal, requests, up, history>>

\* ... and writes the record.  It does not take state.mu, so the requests that
\* have looked the record up change the count in between.
EndUpdate ==
  /\ agent = "writing"
  /\ rec' = [rec EXCEPT ![backends] = copy]
  /\ agent' = "idle" /\ copy' = NewRec
  /\ UNCHANGED <<backends, health, removal, requests, up, history>>

-----------------------------------------------------------------------------
(* The health checker.                                                     *)

\* performCheck.
PerformCheck ==
  /\ Unlocked /\ check = "idle" /\ Exists
  /\ check' = IF up THEN "ok" ELSE "bad"
  /\ UNCHANGED <<registry, fails, probe, removal, requests, handler, up, history>>

\* Mutant: the status is only touched when the checks had failed before.
CheckPassedAgain ==
  /\ Unlocked /\ check = "ok"
  /\ fails' = 0
  /\ IF fails > 0 THEN SetStatus(backends, "healthy") ELSE UNCHANGED <<registry, undone>>
  /\ check' = "idle"
  /\ UNCHANGED <<probe, removal, requests, handler, up, shorted, torn>>

CheckPassed ==
  /\ Unlocked /\ check = "ok"
  /\ fails' = 0
  /\ SetStatus(backends, "healthy")
  /\ check' = "idle"
  /\ UNCHANGED <<probe, removal, requests, handler, up, shorted, torn>>

\* ConsecutiveFails counts on beyond the threshold; the model stops there.
AddFailure == IF fails < Threshold THEN fails + 1 ELSE Threshold

\* Mutant: the failure is recorded in hc.results only, as by MarkUnhealthy.
CheckFailedInResults ==
  /\ Unlocked /\ check = "bad"
  /\ fails' = AddFailure
  /\ check' = "idle"
  /\ UNCHANGED <<registry, probe, removal, requests, handler, up, history>>

CheckFailed ==
  /\ Unlocked /\ check = "bad"
  /\ fails' = AddFailure
  /\ IF AddFailure >= Threshold THEN SetStatus(backends, "unhealthy")
     ELSE UNCHANGED <<registry, undone>>
  /\ check' = "idle"
  /\ UNCHANGED <<probe, removal, requests, handler, up, shorted, torn>>

-----------------------------------------------------------------------------
(* Requests.                                                               *)

GoTo(r, p) == pc' = [pc EXCEPT ![r] = p]

\* tryAcquireSlot looks the backend up under p.mu ...
Find(r) ==
  /\ Unlocked /\ pc[r] = "idle" /\ Exists
  /\ found' = [found EXCEPT ![r] = backends]
  /\ GoTo(r, "found")
  /\ UNCHANGED <<registry, health, removal, slot, handler, up, history>>

\* Mutant: a draining backend is still healthy enough.
AcquireDraining(r) ==
  /\ pc[r] = "found"
  /\ rec[found[r]].status \in {"healthy", "draining"} /\ rec[found[r]].active < Limit
  /\ rec' = [rec EXCEPT ![found[r]].active = @ + 1]
  /\ slot' = [slot EXCEPT ![r] = found[r]]
  /\ found' = [found EXCEPT ![r] = None]
  /\ GoTo(r, "running")
  /\ Tear(found[r])
  /\ UNCHANGED <<backends, health, removal, handler, up, undone, shorted>>

\* ... and takes the slot under the lock of the record.  (RemoveBackend writes
\* the status under p.mu alone; a read that races with it sees the old or the
\* new status, which is an Acquire before or after the mark.)
Acquire(r) ==
  /\ pc[r] = "found"
  /\ rec[found[r]].status = "healthy" /\ rec[found[r]].active < Limit
  /\ rec' = [rec EXCEPT ![found[r]].active = @ + 1]
  /\ slot' = [slot EXCEPT ![r] = found[r]]
  /\ found' = [found EXCEPT ![r] = None]
  /\ GoTo(r, "running")
  /\ Tear(found[r])
  /\ UNCHANGED <<backends, health, removal, handler, up, undone, shorted>>

Refuse(r) ==
  /\ pc[r] = "found"
  /\ rec[found[r]].status # "healthy" \/ rec[found[r]].active >= Limit
  /\ found' = [found EXCEPT ![r] = None]
  /\ GoTo(r, "idle")
  /\ UNCHANGED <<registry, health, removal, slot, handler, up, history>>

\* The request fails; all that counts is the ID.
Fail(r) ==
  /\ Unlocked /\ pc[r] = "running"
  /\ SetStatus(backends, "unhealthy")
  /\ GoTo(r, "release")
  /\ UNCHANGED <<health, removal, found, slot, handler, up, shorted, torn>>

Finish(r) ==
  /\ pc[r] = "running"
  /\ GoTo(r, "release")
  /\ UNCHANGED <<registry, health, removal, found, slot, handler, up, history>>

\* Mutant: nothing is released on a backend that is not healthy.
FindHealthyAgain(r) ==
  /\ Unlocked /\ pc[r] = "release"
  /\ LET there == Exists /\ Here.status = "healthy"
     IN /\ found' = IF there THEN [found EXCEPT ![r] = backends] ELSE found
        /\ slot' = IF there THEN slot ELSE [slot EXCEPT ![r] = None]
        /\ GoTo(r, IF there THEN "decrement" ELSE "idle")
  /\ UNCHANGED <<registry, health, removal, handler, up, history>>

\* releaseSlot looks the ID up again: it may find nothing, or another record.
FindAgain(r) ==
  /\ Unlocked /\ pc[r] = "release"
  /\ found' = [found EXCEPT ![r] = backends]
  /\ slot' = IF Exists THEN slot ELSE [slot EXCEPT ![r] = None]
  /\ GoTo(r, IF Exists THEN "decrement" ELSE "idle")
  /\ UNCHANGED <<registry, health, removal, handler, up, history>>

Decrement(r) ==
  /\ pc[r] = "decrement"
  /\ rec' = [rec EXCEPT ![found[r]].active = IF @ > 0 THEN @ - 1 ELSE @]
  /\ shorted' = IF found[r] = backends /\ slot[r] # backends
                THEN shorted \union {backends} ELSE shorted
  /\ found' = [found EXCEPT ![r] = None] /\ slot' = [slot EXCEPT ![r] = None]
  /\ GoTo(r, "idle")
  /\ Tear(found[r])
  /\ UNCHANGED <<backends, health, removal, handler, up, undone>>

-----------------------------------------------------------------------------
(* Removal.                                                                *)

Move(d, p) == rm' = [rm EXCEPT ![d] = p]

\* SetBackendRole.
SetRole ==
  /\ Unlocked /\ Exists
  /\ rec' = [rec EXCEPT ![backends].role = ~@]
  /\ UNCHANGED <<backends, health, removal, requests, handler, up, history>>

\* deleteBackend keeps a record with a role and only detaches it; the
\* registration of an agent removes a stale record of its ID without a look.
BeginDelete(d) ==
  /\ Unlocked /\ rm[d] = "idle" /\ d \in Operators /\ Exists
  /\ Move(d, "mark")
  /\ UNCHANGED <<registry, health, target, requests, handler, up, history>>

BeginDetach(d) ==
  /\ Unlocked /\ rm[d] = "idle" /\ d \in Operators /\ Exists /\ Here.role
  /\ Move(d, "detach")
  /\ UNCHANGED <<registry, health, target, requests, handler, up, history>>

\* DetachAgentFromBackend.
Detach(d) ==
  /\ Unlocked /\ rm[d] = "detach"
  /\ IF Exists
     THEN /\ rec' = [rec EXCEPT ![backends].agent = FALSE, ![backends].status = "offline",
                                ![backends].silent = IF Here.contacted THEN @ ELSE "fresh"]
          /\ undone' = IF Here.status = "draining" THEN undone \union {backends} ELSE undone
     ELSE UNCHANGED <<rec, undone>>
  /\ Move(d, "idle")
  /\ UNCHANGED <<backends, health, target, requests, handler, up, shorted, torn>>

\* EvacuateBackend marks the record, and moves its sessions elsewhere.
Evacuate ==
  /\ Unlocked /\ Exists
  /\ rec' = [rec EXCEPT ![backends].status = "draining"]
  /\ UNCHANGED <<backends, health, removal, requests, handler, up, history>>

\* RemoveBackend: the mark ...
Mark(d) ==
  /\ Unlocked /\ rm[d] = "mark"
  /\ SetStatus(backends, "draining")
  /\ target' = [target EXCEPT ![d] = backends]
  /\ Move(d, IF Exists THEN "drain" ELSE "idle")
  /\ UNCHANGED <<health, requests, handler, up, shorted, torn>>

\* ... the wait for the requests of the record, with a time-out (the first tick
\* comes long before it, so a record that is idle is seen to be) ...
Drained(d) ==
  /\ rm[d] = "drain" /\ rec[target[d]].active = 0
  /\ Move(d, "drained")
  /\ UNCHANGED <<registry, health, target, requests, handler, up, history>>

DrainTimeout(d) ==
  /\ rm[d] = "drain" /\ rec[target[d]].active > 0
  /\ Move(d, "forced")
  /\ UNCHANGED <<registry, health, target, requests, handler, up, history>>

\* ... and the removal of whatever has the ID now.  Of a record that is gone
\* only its status and its count are ever read.
Delete(d) ==
  /\ Unlocked /\ rm[d] \in {"drained", "forced"}
  /\ backends' = None
  /\ rec' = IF Exists THEN [rec EXCEPT ![backends] =
                 IF Referred(backends, d)
                 THEN [NewRec EXCEPT !.status = Here.status, !.active = Here.active]
                 ELSE NewRec]
            ELSE rec
  /\ undone' = undone \ {backends} /\ shorted' = shorted \ {backends} /\ torn' = torn \ {backends}
  /\ target' = [target EXCEPT ![d] = None]
  /\ Move(d, "idle")
  /\ UNCHANGED <<health, requests, handler, up>>

\* The tick of the agent checker; a contact that is missing is very old.
TimeOutAgent ==
  /\ Unlocked /\ rm[Reaper] = "idle"
  /\ rec' = IF Exists /\ (Here.silent = "gone" \/ ~Here.contacted)
            THEN [rec EXCEPT ![backends].agent = FALSE] ELSE rec
  /\ Move(Reaper, "scan")
  /\ UNCHANGED <<backends, health, target, requests, handler, up, history>>

\* A record nobody answers for (they are all auto-registered).
Ghost ==
  /\ Exists /\ ~Here.agent /\ Here.status \notin {"healthy", "draining"}
  /\ Here.active = 0

\* Mutant: the clock of a record without one is never started.
ScanTimedGhosts ==
  /\ Unlocked /\ rm[Reaper] = "scan"
  /\ Move(Reaper, IF Ghost /\ ~Here.role /\ Here.silent = "gone" THEN "ghost" ELSE "idle")
  /\ UNCHANGED <<registry, health, target, requests, handler, up, history>>

\* reapGhostBackends starts the clock of a ghost without one, and picks one
\* that has been silent for too long.
ScanGhosts ==
  /\ Unlocked /\ rm[Reaper] = "scan"
  /\ rec' = IF Ghost /\ ~Here.role /\ Here.silent = "none"
            THEN [rec EXCEPT ![backends].silent = "fresh"] ELSE rec
  /\ Move(Reaper, IF Ghost /\ ~Here.role /\ Here.silent = "gone" THEN "ghost" ELSE "idle")
  /\ UNCHANGED <<backends, health, target, requests, handler, up, history>>

\* isStillGhost asks again, but not for the role.
IsStillGhost ==
  /\ Unlocked /\ rm[Reaper] = "ghost"
  /\ Move(Reaper, IF Ghost THEN "mark" ELSE "idle")
  /\ UNCHANGED <<registry, health, target, requests, handler, up, history>>

-----------------------------------------------------------------------------

Remove(d) == Mark(d) \/ Drained(d) \/ DrainTimeout(d) \/ Delete(d)
Reap == TimeOutAgent \/ ScanGhosts \/ IsStillGhost
Checker == PerformCheck \/ CheckPassed \/ CheckFailed
Proceed(r) ==
  \/ Find(r) \/ Acquire(r) \/ Refuse(r) \/ Fail(r) \/ Finish(r)
  \/ FindAgain(r) \/ Decrement(r)

Next ==
  /\ \/ ChangeUp \/ Checker \/ AddBackend \/ ProbeNode
     \/ "requests" \in parts /\ \E r \in Requests : Proceed(r)
     \/ "evacuate" \in parts /\ Evacuate
     \/ "delete" \in parts /\ \E d \in Operators : BeginDelete(d) \/ Remove(d)
     \/ "agent" \in parts /\ (Contact \/ Reregister \/ CopyRecord \/ BeginUpdate \/ EndUpdate)
     \/ "silence" \in parts /\ (Contact \/ Age \/ Reap \/ Remove(Reaper))
     \/ "role" \in parts /\ (SetRole \/ \E d \in Operators : BeginDetach(d) \/ Detach(d))
  /\ UNCHANGED parts

Spec == Init /\ [][Next]_vars

\* The tickers tick, what a remover or a probe has begun goes on and silence
\* grows.  No request needs to end and no agent to report.  Who waits for p.mu
\* gets it however often the agent takes it (a Go mutex is handed over).
Same == UNCHANGED parts

LiveSpec ==
  /\ Spec
  /\ SF_vars(Checker /\ Same) /\ SF_vars(ProbeNode /\ Same)
  /\ WF_vars((CopyRecord \/ BeginUpdate \/ EndUpdate) /\ Same)
  /\ SF_vars("silence" \in parts /\ Reap /\ Same) /\ WF_vars("silence" \in parts /\ Age /\ Same)
  /\ \A d \in Removers : WF_vars(Remove(d) /\ Same)
  /\ \A d \in Operators : WF_vars(Detach(d) /\ Same)

-----------------------------------------------------------------------------
(* Properties.                                                             *)

Statuses == {"starting", "healthy", "unhealthy", "draining", "offline"}
Rec == [status : Statuses, agent : BOOLEAN, contacted : BOOLEAN,
        silent : {"none", "fresh", "gone"}, role : BOOLEAN, active : 0 .. Limit]

\* Types, and an active count (ActiveReqs) that never exceeds the limit of the
\* record or goes below zero.
TypeOK ==
  /\ backends \in Records \union {None}
  /\ rec \in [Records -> Rec] /\ copy \in Rec /\ agent \in {"idle", "copy", "write", "writing"}
  /\ fails \in 0 .. Threshold
  /\ check \in {"idle", "ok", "bad"} /\ probe \in {"none", "due"}
  /\ rm \in [Removers -> {"idle", "scan", "ghost", "detach", "mark", "drain", "drained", "forced"}]
  /\ target \in [Removers -> Records \union {None}]
  /\ pc \in [Requests -> {"idle", "found", "running", "release", "decrement"}]
  /\ found \in [Requests -> Records \union {None}] /\ slot \in [Requests -> Records \union {None}]
  /\ up \in BOOLEAN /\ undone \union shorted \union torn \subseteq Records

Holders(i) == {r \in Requests : slot[r] = i}

\* A slot of the registered record that is counted belongs to a request that
\* will release it, whatever was removed and registered meanwhile
\* (tryAcquireSlot, releaseSlot): phantom load would block the node for ever.
\* The exception is the race of UpdateBackend: a release between its read of
\* ActiveReqs (backend_registry.go:426) and its write (464) is overwritten.
NoPhantomLoad ==
  Exists /\ backends \notin torn => Here.active \in 0 .. Cardinality(Holders(backends))

\* A request with a slot of the registered record is counted, so the limit of
\* the node holds: heartbeats write back copies of the record without losing a
\* request.  Two things can: the race of UpdateBackend with an acquire, and the
\* release of a lease of a removed record of the same ID.
RunningIsCounted ==
  Exists /\ backends \notin shorted \union torn => Here.active >= Cardinality(Holders(backends))

\* RemoveBackend: a removal that did not time out removes its record when no
\* request has a slot of it, unless a status update put it back into service
\* or its count is one of the two wrong ones above.
DrainedIsIdle ==
  [][\A d \in Removers :
       rm[d] = "drained" /\ rm'[d] = "idle" /\ target[d] = backends
          /\ backends \notin undone \union shorted \union torn
       => Holders(backends) = {}]_vars

\* A node that stays dead is out of service in the end and for good, whatever
\* a late answer of an earlier check says (checkBackend).
DeadStaysOut == <>[]~up => <>[](Exists => Here.status # "healthy")

\* A node that stays up is served again and again, whatever request failures,
\* detaching or an evacuation did to its status (checkBackend).
LiveComesBack == <>[]up => []<>(Exists => Here.status = "healthy")

\* A record without an agent, a role, health and requests does not stay for
\* ever without being timed or with its time run out, as long as nobody
\* evacuates it again and again (reapGhostBackends).
GhostIsReaped ==
  []<>(Exists /\ "silence" \in parts
       => "evacuate" \in parts \/ Here.agent \/ Here.role \/ Here.status = "healthy" \/ Here.active > 0
          \/ Here.silent = "fresh")

=============================================================================

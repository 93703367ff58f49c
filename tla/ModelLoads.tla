----------------------------- MODULE ModelLoads -----------------------------
(***************************************************************************)
(* The models of one cppworker: Backend.models, the load claims            *)
(* (Backend.loading), the single load flight, the mutex of an instance     *)
(* (internal/cppbackend/backend.go, load_claims_r303.go, inflight.go) and  *)
(* the handlers that share them (cmd/cppworker: handleLoadModel,           *)
(* handleReloadModel, handleUnloadModel, a chat request with its lazy      *)
(* load, the idle unload).                                                 *)
(*                                                                         *)
(* A step is one critical section or one call of the C bridge.  A caller   *)
(* is a handler or its background goroutine; it calls again and again.     *)
(***************************************************************************)
EXTENDS Naturals, FiniteSets

CONSTANTS Models,   \* names of models, each of a file of its own
          Callers,
          Role,     \* Role[c]: the operations c calls
          Insts,    \* bound on the instances that exist at a time
          None

ReloadOps == {"reload", "syncReload"}  \* in the background, or with ?wait=true
UnloadOps == {"unload", "forceUnload"}
Ops    == ReloadOps \union UnloadOps \union {"load", "chat", "idle"}

ASSUME ModelLoadsAssumption ==
  /\ Models # {} /\ Role \in [Callers -> SUBSET Ops]
  /\ None \notin Callers \union Insts

VARIABLES models,  \* models[m]: the registered instance of m
          inst,    \* inst[i]: state and memory of an instance
          claim,   \* claim[m]: the entry of m in loading and loadClaims
          flight,  \* the holder of loadSingleFlight
          mu,      \* mu[i]: the holder of the mutex of i
          op, on,  \* the operation and the model of a caller; a reload whose load
                   \* failed is a rollback
          pc,      \* where the caller is
          me       \* the instance the caller has in hand

registry == <<models, inst>>
locks == <<claim, flight, mu>>
vars == <<registry, locks, op, on, pc, me>>

\* handle.ptr of an instance is nil ("none"), a model ("live") or a model
\* freed while the C call that fills it is running ("torn").
\* early: the instance was unloaded before the C call had set handle.ptr.
NewInst == [st |-> "loading", mem |-> "none", early |-> FALSE]

GoneInst == [NewInst EXCEPT !.st = "unloaded"]

\* by: who took the claim, None when he returned without UnlockLoad;
\* stale: it is older than loadStaleAfterR303.
NoClaim == [by |-> None, stale |-> FALSE, held |-> FALSE]
NewClaim(c) == [by |-> c, stale |-> FALSE, held |-> TRUE]

Init ==
  /\ models = [m \in Models |-> None]
  /\ inst = [i \in Insts |-> GoneInst]
  /\ claim = [m \in Models |-> NoClaim]
  /\ flight = None
  /\ mu = [i \in Insts |-> None]
  /\ op = [c \in Callers |-> "none"] /\ on \in [Callers -> Models]
  /\ pc = [c \in Callers |-> "done"]
  /\ me = [c \in Callers |-> None]

-----------------------------------------------------------------------------

Registered(m) == models[m] # None
StateIs(m, st) == Registered(m) /\ inst[models[m]].st = st

\* InFlightCounter: Inc when the request comes in, Dec when it is answered.
InFlight(m) == Cardinality({c \in Callers : op[c] = "chat" /\ on[c] = m /\ pc[c] # "done"})

\* ActiveQueries of an instance.
Active(i) == \E c \in Callers : me[c] = i /\ pc[c] = "generate"

\* The load that will end on i.
Loaders(i) == {c \in Callers : me[c] = i /\ pc[c] \in {"enter", "cload"}}

GoTo(c, p) ==
  /\ pc' = [pc EXCEPT ![c] = p]
  /\ op' = IF p = "done" THEN [op EXCEPT ![c] = "none"] ELSE op

\* A handler is called.
Start(c) ==
  /\ pc[c] = "done"
  /\ \E o \in Role[c], m \in Models :
       /\ op' = [op EXCEPT ![c] = o] /\ on' = [on EXCEPT ![c] = m]
       /\ pc' = [pc EXCEPT ![c] = CASE o = "chat" -> "look" [] o = "load" -> "reclaim"
                                    [] OTHER -> "gate"]
  /\ UNCHANGED <<registry, locks, me>>

-----------------------------------------------------------------------------
(* Claims.                                                                 *)

\* A claim grows old.
Age(m) ==
  /\ claim[m].held /\ ~claim[m].stale
  /\ claim' = [claim EXCEPT ![m].stale = TRUE]
  /\ UNCHANGED <<registry, flight, mu, op, on, pc, me>>

\* ReclaimStaleLoadClaimR303 looks at the claim and at the instance ...
Reclaim(c) ==
  /\ pc[c] = "reclaim"
  /\ claim[on[c]].stale /\ ~StateIs(on[c], "loading")
  /\ GoTo(c, "removeStale")
  /\ UNCHANGED <<registry, locks, on, me>>

\* ... and removes the claim if it is still there and still old.
RemoveStale(c) ==
  /\ pc[c] = "removeStale"
  /\ claim' = IF claim[on[c]].stale THEN [claim EXCEPT ![on[c]] = NoClaim] ELSE claim
  /\ GoTo(c, IF op[c] \in UnloadOps THEN "ifLoading" ELSE "claim")
  /\ UNCHANGED <<registry, flight, mu, on, me>>

TakeClaim(c) == claim' = [claim EXCEPT ![on[c]] = NewClaim(c)]

\* tryLockLoad.
TryLockLoad(c) ==
  LET m == on[c]
  IN /\ pc[c] \in {"reclaim", "claim", "claimAgain"} /\ op[c] \notin UnloadOps
     /\ \/ /\ claim[m].held
           /\ GoTo(c, IF op[c] = "chat" THEN "wait" ELSE "done")
           /\ UNCHANGED claim
        \/ /\ ~claim[m].held /\ Registered(m)
           /\ GoTo(c, CASE op[c] = "chat" -> "wait"
                        [] pc[c] = "claimAgain" -> "done" [] OTHER -> "exists")
           /\ UNCHANGED claim
        \/ /\ ~claim[m].held /\ ~Registered(m)
           /\ TakeClaim(c)
           /\ GoTo(c, IF op[c] = "chat" THEN "flight" ELSE "dedup")
     /\ UNCHANGED <<registry, flight, mu, on, me>>

\* handleLoadModel, ?wait=false: the file is loaded already, and the handler
\* returns with its claim.
DedupByPath(c) ==
  LET m == on[c]
  IN /\ pc[c] = "dedup"
     /\ \/ /\ Registered(m)
           /\ claim' = IF claim[m].by = c THEN [claim EXCEPT ![m].by = None] ELSE claim
           /\ GoTo(c, "done")
        \/ GoTo(c, "flight") /\ UNCHANGED claim
     /\ UNCHANGED <<registry, flight, mu, on, me>>

\* handleLoadModel when the model exists: the same parameters, others, or the
\* model has gone and is loaded without a claim.
Exists(c) ==
  /\ pc[c] = "exists"
  /\ \/ Registered(on[c]) /\ GoTo(c, "done")
     \/ Registered(on[c]) /\ GoTo(c, "unload")
     \/ ~Registered(on[c]) /\ GoTo(c, "flight")
  /\ UNCHANGED <<registry, locks, on, me>>

\* A mutant for a chat that does not defer UnlockLoad when its load failed.
UnlockLoaded(c) ==
  /\ pc[c] \in {"unlock", "failed"}
  /\ claim' = IF pc[c] = "unlock" THEN [claim EXCEPT ![on[c]] = NoClaim] ELSE claim
  /\ GoTo(c, IF op[c] = "chat" /\ pc[c] = "unlock" THEN "lookup" ELSE "done")
  /\ UNCHANGED <<registry, flight, mu, on, me>>

\* UnlockLoad removes the claim of the model, whoever took it; a chat goes on.
UnlockLoad(c) ==
  /\ pc[c] \in {"unlock", "failed"}
  /\ claim' = [claim EXCEPT ![on[c]] = NoClaim]
  /\ GoTo(c, IF op[c] = "chat" /\ pc[c] = "unlock" THEN "lookup" ELSE "done")
  /\ UNCHANGED <<registry, flight, mu, on, me>>

-----------------------------------------------------------------------------
(* LoadModelWithOpts.                                                      *)

\* The load has failed; a reload tries the old parameters once.
Failed(c) ==
  IF op[c] \in ReloadOps
  THEN /\ pc' = [pc EXCEPT ![c] = "flight"]
       /\ op' = [op EXCEPT ![c] = "rollback"]
  ELSE GoTo(c, "failed")

AcquireFlight(c) ==
  /\ pc[c] = "flight" /\ flight = None
  /\ flight' = c
  /\ GoTo(c, "register")
  /\ UNCHANGED <<registry, claim, mu, on, me>>

\* acquireLoadFlight gives up after loadFlightWait.
FlightTimeout(c) ==
  /\ pc[c] = "flight" /\ flight # None
  /\ Failed(c)
  /\ UNCHANGED <<registry, locks, on, me>>

\* An instance of which nothing is left, or which is lost for good.
Spare == {i \in Insts : /\ \A m \in Models : models[m] # i
                        /\ \A c \in Callers : me[c] # i
                        /\ inst[i].mem # "live" \/ inst[i].early}

\* A mutant that gives the flight back only at the end of a C call.
RefuseWithFlight(c) ==
  /\ pc[c] = "register"
  /\ Failed(c)
  /\ UNCHANGED <<registry, locks, on, me>>

\* checkVRAMForModel and the checks under the lock may refuse; the flight is
\* given back on the way out.
Refuse(c) ==
  /\ pc[c] = "register"
  /\ flight' = None
  /\ Failed(c)
  /\ UNCHANGED <<registry, claim, mu, on, me>>

\* The instance is registered before its memory exists.
Register(c) ==
  /\ pc[c] = "register"
  /\ ~Registered(on[c])
  /\ Spare # {}
  /\ LET i == CHOOSE j \in Spare : TRUE
     IN /\ models' = [models EXCEPT ![on[c]] = i]
        /\ inst' = [inst EXCEPT ![i] = NewInst]
        /\ me' = [me EXCEPT ![c] = i]
  /\ GoTo(c, "enter")
  /\ UNCHANGED <<locks, on>>

\* bridge_load_model exposes its handle first thing.
EnterC(c) ==
  /\ pc[c] = "enter"
  /\ inst' = [inst EXCEPT ![me[c]].mem = "live"]
  /\ GoTo(c, "cload")
  /\ UNCHANGED <<models, locks, on, me>>

\* The weights are read; the instance is made loaded, and its pointer is set
\* again (LoadModelWithEarlyHandle), whatever became of it.
Loaded(c) ==
  LET i == me[c]
  IN /\ pc[c] = "cload"
     /\ inst' = [inst EXCEPT ![i].st = "loaded"]
     /\ me' = [me EXCEPT ![c] = None]
     /\ flight' = None
     /\ GoTo(c, "unlock")
     /\ UNCHANGED <<models, claim, mu, on>>

\* The load fails or is aborted: the bridge frees what it has read, and
\* removeOwnInstance takes the entry away.  (Nobody reads its state again.)
LoadFails(c) ==
  LET i == me[c]
  IN /\ pc[c] = "cload"
     /\ models' = IF models[on[c]] = i THEN [models EXCEPT ![on[c]] = None] ELSE models
     /\ inst' = [inst EXCEPT ![i] = GoneInst]
     /\ me' = [me EXCEPT ![c] = None]
     /\ flight' = None
     /\ Failed(c)
     /\ UNCHANGED <<claim, mu, on>>

-----------------------------------------------------------------------------
(* unloadModel.                                                            *)

\* The entry goes first.  Without one the call fails, and a reload releases a
\* claim.
RemoveEntry(c) ==
  LET m == on[c]
  IN /\ pc[c] = "unload"
     /\ \/ /\ ~Registered(m)
           /\ GoTo(c, IF op[c] \in ReloadOps THEN "failed" ELSE "done")
           /\ UNCHANGED <<models, me>>
        \/ /\ Registered(m)
           /\ models' = [models EXCEPT ![m] = None]
           /\ me' = [me EXCEPT ![c] = models[m]]
           /\ GoTo(c, "free")
     /\ UNCHANGED <<inst, locks, on>>

AfterUnload(c) ==
  CASE op[c] = "load" -> "claimAgain"
    [] op[c] \in ReloadOps -> "flight"
    [] OTHER -> "done"

\* What FreeModel leaves: nothing, but for a C call that goes on filling the
\* instance.
Unloaded(i) ==
  [st |-> "unloaded",
   mem |-> IF inst[i].mem = "live" /\ Loaders(i) # {} THEN "torn" ELSE "none",
   early |-> inst[i].mem = "none" /\ Loaders(i) # {}]

\* A mutant that does not wait for the mutex of the instance.
FreeAtOnce(c) ==
  /\ pc[c] = "free"
  /\ inst' = [inst EXCEPT ![me[c]] = Unloaded(me[c])]
  /\ me' = [me EXCEPT ![c] = None]
  /\ GoTo(c, AfterUnload(c))
  /\ UNCHANGED <<models, locks, on>>

\* A mutant that gives up when the instance is busy.
FreeIfIdle(c) ==
  /\ pc[c] = "free"
  /\ inst' = IF mu[me[c]] = None THEN [inst EXCEPT ![me[c]] = Unloaded(me[c])] ELSE inst
  /\ me' = [me EXCEPT ![c] = None]
  /\ GoTo(c, AfterUnload(c))
  /\ UNCHANGED <<models, locks, on>>

\* Then, when no generation has the mutex of the instance, its memory.
FreeModel(c) ==
  /\ pc[c] = "free" /\ mu[me[c]] = None
  /\ inst' = [inst EXCEPT ![me[c]] = Unloaded(me[c])]
  /\ me' = [me EXCEPT ![c] = None]
  /\ GoTo(c, AfterUnload(c))
  /\ UNCHANGED <<models, locks, on>>

-----------------------------------------------------------------------------
(* The handlers.                                                           *)

\* handleReloadModel: the model must be there and not busy, unless forced; in
\* the background there is no claim.
ReloadGate(c) ==
  /\ pc[c] = "gate" /\ op[c] \in ReloadOps
  /\ \/ /\ ~Registered(on[c]) \/ InFlight(on[c]) > 0
        /\ GoTo(c, "done")
     \/ /\ Registered(on[c])
        /\ GoTo(c, IF op[c] = "syncReload" THEN "lockReload" ELSE "unload")
  /\ UNCHANGED <<registry, locks, on, me>>

\* tryLockReload.
TryLockReload(c) ==
  /\ pc[c] = "lockReload"
  /\ \/ claim[on[c]].held /\ GoTo(c, "done") /\ UNCHANGED claim
     \/ ~claim[on[c]].held /\ TakeClaim(c) /\ GoTo(c, "unload")
  /\ UNCHANGED <<registry, flight, mu, on, me>>

\* handleUnloadModel: refused while requests run, unless forced.
UnloadGate(c) ==
  /\ pc[c] = "gate" /\ op[c] \in UnloadOps
  /\ GoTo(c, IF op[c] = "unload" /\ InFlight(on[c]) > 0 THEN "done"
             ELSE IF claim[on[c]].held THEN "reclaim" ELSE "unload")
  /\ UNCHANGED <<registry, locks, on, me>>

\* Refused while the model loads; when forced, aborted and waited for.
UnloadIfLoading(c) ==
  /\ pc[c] \in {"reclaim", "ifLoading"} /\ op[c] \in UnloadOps
  /\ \/ claim[on[c]].held /\ GoTo(c, "done")
     \/ ~claim[on[c]].held /\ GoTo(c, "unload")
     \/ claim[on[c]].held /\ op[c] = "forceUnload" /\ GoTo(c, "waitAborted")
  /\ UNCHANGED <<registry, locks, on, me>>

WaitAborted(c) ==
  /\ pc[c] = "waitAborted"
  /\ GoTo(c, IF claim[on[c]].held \/ ~Registered(on[c]) THEN "done" ELSE "unload")
  /\ UNCHANGED <<registry, locks, on, me>>

\* The idle unload: ready and without active queries.
IdleGate(c) ==
  /\ pc[c] = "gate" /\ op[c] = "idle"
  /\ GoTo(c, IF StateIs(on[c], "loaded") /\ ~Active(models[on[c]]) THEN "unload" ELSE "done")
  /\ UNCHANGED <<registry, locks, on, me>>

\* ensureModelLoadedWithNCtx: what is there?
Look(c) ==
  /\ pc[c] = "look"
  /\ GoTo(c, CASE StateIs(on[c], "loaded") -> "lookup"
               [] StateIs(on[c], "loading") -> "wait" [] OTHER -> "reclaim")
  /\ UNCHANGED <<registry, locks, on, me>>

\* A mutant that waits without a limit.
WaitReadyForever(c) ==
  /\ pc[c] = "wait" /\ StateIs(on[c], "loaded")
  /\ GoTo(c, "lookup")
  /\ UNCHANGED <<registry, locks, on, me>>

\* waitForModelReady: ready, or the limit is over.
WaitReady(c) ==
  /\ pc[c] = "wait"
  /\ GoTo(c, IF StateIs(on[c], "loaded") THEN "lookup" ELSE "done")
  /\ UNCHANGED <<registry, locks, on, me>>

\* An answer or an error has been sent; keep_alive = 0 unloads the model.
Answered(c) == GoTo(c, "done") \/ GoTo(c, "unload")

\* getModelInstance.
Lookup(c) ==
  /\ pc[c] = "lookup"
  /\ IF Registered(on[c])
     THEN GoTo(c, "lockInst") /\ me' = [me EXCEPT ![c] = models[on[c]]]
     ELSE Answered(c) /\ UNCHANGED me
  /\ UNCHANGED <<registry, locks, on>>

\* The mutex of the instance is held for the whole generation.  (The state
\* getModelInstance checks under the same mutex is looked at here: what is not
\* loaded, or has no pointer, ends in an error either way.)
LockInst(c) ==
  LET i == me[c]
  IN /\ pc[c] = "lockInst" /\ mu[i] = None
     /\ IF inst[i].st = "loaded" /\ inst[i].mem # "none"
        THEN mu' = [mu EXCEPT ![i] = c] /\ GoTo(c, "generate") /\ UNCHANGED me
        ELSE me' = [me EXCEPT ![c] = None] /\ Answered(c) /\ UNCHANGED mu
     /\ UNCHANGED <<registry, claim, flight, on>>

\* The generation is over.
Generated(c) ==
  /\ pc[c] = "generate"
  /\ mu' = [mu EXCEPT ![me[c]] = None]
  /\ me' = [me EXCEPT ![c] = None]
  /\ Answered(c)
  /\ UNCHANGED <<registry, claim, flight, on>>

-----------------------------------------------------------------------------

Step(c) ==
  \/ Reclaim(c) \/ RemoveStale(c) \/ TryLockLoad(c) \/ DedupByPath(c)
  \/ Exists(c) \/ UnlockLoad(c)
  \/ AcquireFlight(c) \/ FlightTimeout(c) \/ Refuse(c) \/ Register(c) \/ EnterC(c)
  \/ Loaded(c) \/ LoadFails(c)
  \/ RemoveEntry(c) \/ FreeModel(c)
  \/ ReloadGate(c) \/ TryLockReload(c) \/ UnloadGate(c)
  \/ UnloadIfLoading(c) \/ WaitAborted(c) \/ IdleGate(c)
  \/ Look(c) \/ WaitReady(c) \/ Lookup(c) \/ LockInst(c)
  \/ Generated(c)

Next ==
  \/ \E c \in Callers : Start(c) \/ Step(c)
  \/ \E m \in Models : Age(m)

Spec == Init /\ [][Next]_vars

\* Every goroutine runs, C calls and generations end, waits are bounded.  A
\* step once possible stays so until it is taken, but for the mutex of an
\* instance: hence SF, as a sync.Mutex is not kept from a waiter for ever.
Fairness == \A c \in Callers : SF_vars(Step(c))

LiveSpec == Spec /\ Fairness

-----------------------------------------------------------------------------
(* Properties.                                                             *)

LoadPcs ==
  {"done", "look", "reclaim", "gate", "removeStale", "ifLoading", "claim", "claimAgain", "wait",
   "exists", "dedup", "flight", "unload", "unlock", "failed", "lookup", "register", "enter", "cload",
   "free", "lockReload", "waitAborted", "lockInst", "generate"}

InstStates ==
  [st : {"loading", "loaded", "unloaded"}, mem : {"none", "live", "torn"}, early : BOOLEAN]

TypeOK ==
  /\ models \in [Models -> Insts \union {None}]
  /\ inst \in [Insts -> InstStates]
  /\ claim \in [Models -> [by : Callers \union {None}, stale : BOOLEAN, held : BOOLEAN]]
  /\ flight \in Callers \union {None}
  /\ mu \in [Insts -> Callers \union {None}]
  /\ op \in [Callers -> Ops \union {"none", "rollback"}]
  /\ on \in [Callers -> Models]
  /\ pc \in [Callers -> LoadPcs]
  /\ me \in [Callers -> Insts \union {None}]

\* A claim is taken by a caller that is still going to release it: no way out
\* of a load or of a reload, whether it fails, finds the model gone or gives up
\* the flight, leaves the claim behind.  (The one way that does, DedupByPath,
\* gives the claim nobody as its owner.)
ClaimHasOwner ==
  \A m \in Models : LET c == claim[m].by IN c # None =>
    /\ claim[m].held /\ on[c] = m
    /\ pc[c] \in {"dedup", "flight", "register", "enter", "cload",
                  "unload", "free", "unlock", "failed"}

\* The memory of a copy is always in somebody's hands: the registry's or those
\* of the unload that will free it, also while a load still fills it.  Only a
\* copy unloaded before its C call had begun is lost.
NoCopyLost ==
  \A i \in Insts : inst[i].mem = "live" =>
    \/ \E m \in Models : models[m] = i
    \/ \E c \in Callers : me[c] = i /\ pc[c] = "free"
    \/ inst[i].early

\* A generation has the copy for itself, and it stays there to the end, in spite
\* of reloads, unloads and failing loads of the same model.  Only memory that
\* was freed under a load ("torn") is not there: an unload may tear a model that
\* is loading, and a chat that had the instance before may still decode on it.
DecodesLive ==
  \A c \in Callers : pc[c] = "generate" =>
    inst[me[c]].mem # "none" /\ mu[me[c]] = c

\* The load flight is in the hands of a caller that loads, the mutex of an
\* instance in those of one that generates on it: no way out of either leaves
\* the lock behind, after which loads would only time out (backend.go:996-1004)
\* and unloads of the model hang.
NoLockLeftBehind ==
  /\ flight # None => pc[flight] \in {"register", "enter", "cload"}
  /\ \A i \in Insts : mu[i] # None => pc[mu[i]] = "generate" /\ me[mu[i]] = i

\* Every call ends: nobody waits for a claim, the flight or a mutex for ever.
CallsEnd == \A c \in Callers : pc[c] # "done" ~> pc[c] = "done"

=============================================================================

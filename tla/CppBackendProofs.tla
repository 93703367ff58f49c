-------------------------- MODULE CppBackendProofs --------------------------
(***************************************************************************)
(* What holds of the cppworker's backend for any number of callers,        *)
(* models, sessions and tokens: ModelLoads and BatchedScheduler.           *)
(*                                                                         *)
(* Each part has an inductive invariant of named conjuncts (LoadsInv,      *)
(* SchedulerInv), a lemma per action that shows it kept, and the theorems  *)
(* that follow from it.                                                    *)
(***************************************************************************)
EXTENDS ModelLoads, BatchedScheduler, TLAPS

-----------------------------------------------------------------------------
(* ModelLoads.                                                             *)

\* Where a caller is that will release its claim; that loads a model, with the
\* flight in its hands; and that has an instance in its hands.
Owning == {"dedup", "flight", "register", "enter", "cload", "unload", "free", "unlock", "failed"}
Filling == {"enter", "cload"}
Flying == Filling \union {"register"}
Holding == Filling \union {"free", "lockInst", "generate"}

\* The unload of a reload is the only one that begins under a claim.
ClaimInv ==
  /\ \A m \in Models : claim[m].by # None =>
       /\ claim[m].held /\ on[claim[m].by] = m /\ pc[claim[m].by] \in Owning
       /\ pc[claim[m].by] \in {"unload", "free"} => op[claim[m].by] \in ReloadOps
  /\ \A c \in Callers : pc[c] = "lockReload" => op[c] \in ReloadOps

FlightInv == \A c \in Callers : pc[c] \in Flying => flight = c

HandInv == \A c \in Callers : me[c] # None <=> pc[c] \in Holding

\* What is being loaded is not made loaded by anybody else, so nobody decodes
\* on it and its failure takes no memory from a generation.
FillInv ==
  \A c \in Callers : pc[c] \in Filling =>
    inst[me[c]].st # "loaded" /\ \A d \in Callers : pc[d] = "generate" => me[d] # me[c]

Kept(i) ==
  \/ \E m \in Models : models[m] = i
  \/ \E c \in Callers : me[c] = i /\ pc[c] = "free"
  \/ inst[i].early

CopyInv ==
  /\ \A i \in Insts : inst[i].mem = "live" => Kept(i)
  /\ \A c \in Callers : pc[c] = "enter" => inst[me[c]].mem = "none" /\ Kept(me[c])

LoadsInv ==
  /\ TypeOK /\ FlightInv /\ HandInv
  /\ ClaimInv /\ DecodesLive /\ FillInv /\ CopyInv

\* How c moves on: its operation changes only at the end or for a rollback.
Moves(c, p) ==
  /\ pc' = [pc EXCEPT ![c] = p]
  /\ op' \in [Callers -> Ops \union {"none", "rollback"}]
  /\ \A d \in Callers : d # c => op'[d] = op[d]
  /\ p \notin {"done", "flight"} => op' = op

LEMMA GoToMoves ==
  ASSUME TypeOK, NEW c \in Callers, NEW p, GoTo(c, p)
  PROVE  Moves(c, p)
<1>1. op \in [Callers -> Ops \union {"none", "rollback"}]
  BY DEF TypeOK
<1>2. CASE p = "done"
  <2>1. pc' = [pc EXCEPT ![c] = p] /\ op' = [op EXCEPT ![c] = "none"]
    BY <1>2 DEF GoTo
  <2> QED
    BY <1>1, <1>2, <2>1 DEF Moves
<1>3. CASE p # "done"
  <2>1. pc' = [pc EXCEPT ![c] = p] /\ op' = op
    BY <1>3 DEF GoTo
  <2> QED
    BY <1>1, <2>1 DEF Moves
<1> QED
  BY <1>2, <1>3

LEMMA FailedMoves ==
  ASSUME TypeOK, NEW c \in Callers, Failed(c)
  PROVE  Moves(c, "flight") \/ Moves(c, "failed")
<1>1. CASE op[c] \in ReloadOps
  <2>1. op \in [Callers -> Ops \union {"none", "rollback"}]
    BY DEF TypeOK
  <2>2. pc' = [pc EXCEPT ![c] = "flight"] /\ op' = [op EXCEPT ![c] = "rollback"]
    BY <1>1 DEF Failed
  <2> QED
    BY <2>1, <2>2 DEF Moves
<1>2. CASE op[c] \notin ReloadOps
  BY <1>2, GoToMoves DEF Failed
<1> QED
  BY <1>1, <1>2

LEMMA MovesType ==
  ASSUME TypeOK, NEW c \in Callers, NEW p \in LoadPcs, Moves(c, p)
  PROVE  /\ pc' \in [Callers -> LoadPcs] /\ op' \in [Callers -> Ops \union {"none", "rollback"}]
         /\ pc'[c] = p /\ \A d \in Callers : d # c => pc'[d] = pc[d] /\ op'[d] = op[d]
         /\ p \notin {"done", "flight"} => op' = op
<1>1. pc \in [Callers -> LoadPcs]
  BY DEF TypeOK
<1> QED
  BY <1>1 DEF Moves

\* Steps of a caller that has no instance in its hands, and takes none.
LEMMA OutsideKeeps ==
  ASSUME LoadsInv, NEW c \in Callers, NEW p \in LoadPcs \ Holding, Moves(c, p),
         pc[c] \notin Holding, UNCHANGED <<registry, mu, me>>
  PROVE  HandInv' /\ DecodesLive' /\ FillInv' /\ CopyInv'
<1>1. /\ pc'[c] = p /\ \A d \in Callers : d # c => pc'[d] = pc[d]
  BY MovesType DEF LoadsInv
<1>2. UNCHANGED <<models, inst, mu, me>>
  BY DEF registry
<1>3. \A d \in Callers : (pc'[d] \in Holding \/ pc[d] \in Holding) => pc'[d] = pc[d]
  BY <1>1
<1>4. HandInv'
  BY <1>2, <1>3 DEF LoadsInv, HandInv
<1>5. DecodesLive' /\ FillInv'
  <2>1. DecodesLive'
    BY <1>2, <1>3 DEF LoadsInv, DecodesLive, Holding
  <2>2. FillInv'
    BY <1>2, <1>3 DEF LoadsInv, FillInv, Holding, Filling
  <2> QED
    BY <2>1, <2>2
<1>6. \A i : Kept(i)' <=> Kept(i)
  BY <1>2, <1>3 DEF Kept, Holding
<1>7. CopyInv'
  BY <1>2, <1>3, <1>6 DEF LoadsInv, CopyInv, Holding, Filling
<1> QED
  BY <1>4, <1>5, <1>7

\* The claims of others stand; the caller's own if it goes on as an owner.
LEMMA MoveKeepsClaims ==
  ASSUME LoadsInv, NEW c \in Callers, NEW p \in LoadPcs, Moves(c, p), UNCHANGED <<claim, on>>,
         \/ pc[c] \notin Owning
         \/ p \in Owning /\ (p \in {"unload", "free"} => pc[c] = "unload" /\ p = "free"),
         p = "lockReload" => op[c] \in ReloadOps
  PROVE  ClaimInv'
<1>1. /\ pc'[c] = p /\ \A d \in Callers : d # c => pc'[d] = pc[d] /\ op'[d] = op[d]
      /\ p \notin {"done", "flight"} => op' = op
  BY MovesType DEF LoadsInv
<1>2. \A m \in Models : claim[m].by # None => claim[m].by \in Callers
  BY DEF LoadsInv, TypeOK
<1>3. ASSUME NEW m \in Models, claim[m].by # None
      PROVE  /\ claim[m].held /\ on[claim[m].by] = m /\ pc'[claim[m].by] \in Owning
             /\ pc'[claim[m].by] \in {"unload", "free"} => op'[claim[m].by] \in ReloadOps
  <2>1. CASE claim[m].by = c
    BY <1>1, <1>3, <2>1 DEF LoadsInv, ClaimInv
  <2>2. CASE claim[m].by # c
    BY <1>1, <1>2, <1>3, <2>2 DEF LoadsInv, ClaimInv
  <2> QED
    BY <2>1, <2>2
<1>4. \A d \in Callers : pc'[d] = "lockReload" => op'[d] \in ReloadOps
  BY <1>1 DEF LoadsInv, ClaimInv
<1> QED
  BY <1>3, <1>4 DEF ClaimInv

\* The caller leaves with its claim removed.
LEMMA DropKeepsClaims ==
  ASSUME LoadsInv, NEW c \in Callers, NEW p \in LoadPcs \ {"lockReload"}, Moves(c, p), UNCHANGED on,
         NEW m \in Models, m = on[c],
         claim' = [claim EXCEPT ![m] = NoClaim]
  PROVE  ClaimInv'
<1>1. /\ pc'[c] = p /\ \A d \in Callers : d # c => pc'[d] = pc[d] /\ op'[d] = op[d]
  BY MovesType DEF LoadsInv
<1>2. \A l \in Models : claim'[l] = IF l = m THEN NoClaim ELSE claim[l]
  BY DEF LoadsInv, TypeOK
<1>3. ASSUME NEW l \in Models, claim'[l].by # None
      PROVE  /\ claim'[l].held /\ on'[claim'[l].by] = l /\ pc'[claim'[l].by] \in Owning
             /\ pc'[claim'[l].by] \in {"unload", "free"} => op'[claim'[l].by] \in ReloadOps
  <2>1. l # m /\ claim'[l] = claim[l] /\ claim[l].by \in Callers
    BY <1>2, <1>3 DEF NoClaim, LoadsInv, TypeOK
  <2>2. claim[l].by # c
    BY <1>3, <2>1 DEF LoadsInv, ClaimInv
  <2> QED
    BY <1>1, <1>3, <2>1, <2>2 DEF LoadsInv, ClaimInv
<1>4. \A d \in Callers : pc'[d] = "lockReload" => op'[d] \in ReloadOps
  BY <1>1 DEF LoadsInv, ClaimInv
<1> QED
  BY <1>3, <1>4 DEF ClaimInv

\* tryLockLoad and tryLockReload take a claim that nobody has.
LEMMA TakeKeepsClaims ==
  ASSUME LoadsInv, NEW c \in Callers, NEW p \in LoadPcs, Moves(c, p), UNCHANGED on,
         TakeClaim(c), ~claim[on[c]].held, pc[c] \notin Owning,
         p \in {"flight", "dedup"} \/ (p = "unload" /\ op[c] \in ReloadOps)
  PROVE  ClaimInv'
<1>1. /\ pc'[c] = p /\ \A d \in Callers : d # c => pc'[d] = pc[d] /\ op'[d] = op[d]
      /\ p \notin {"done", "flight"} => op' = op
  BY MovesType DEF LoadsInv
<1>2. on[c] \in Models /\ \A l \in Models : claim'[l] = IF l = on[c] THEN NewClaim(c) ELSE claim[l]
  BY DEF LoadsInv, TypeOK, TakeClaim
<1>3. ASSUME NEW l \in Models, claim'[l].by # None
      PROVE  /\ claim'[l].held /\ on'[claim'[l].by] = l /\ pc'[claim'[l].by] \in Owning
             /\ pc'[claim'[l].by] \in {"unload", "free"} => op'[claim'[l].by] \in ReloadOps
  <2>1. CASE l = on[c]
    BY <1>1, <1>2, <2>1 DEF NewClaim, Owning
  <2>2. CASE l # on[c]
    <3>1. claim'[l] = claim[l] /\ claim[l].by \in Callers /\ claim[l].by # c
      BY <1>2, <1>3, <2>2 DEF LoadsInv, TypeOK, ClaimInv
    <3> QED
      BY <1>1, <1>3, <3>1 DEF LoadsInv, ClaimInv
  <2> QED
    BY <2>1, <2>2
<1>4. \A d \in Callers : pc'[d] = "lockReload" => op'[d] \in ReloadOps
  BY <1>1 DEF LoadsInv, ClaimInv
<1> QED
  BY <1>3, <1>4 DEF ClaimInv

\* The flight stays with its holder.
LEMMA MoveKeepsFlight ==
  ASSUME LoadsInv, NEW c \in Callers, NEW p \in LoadPcs, Moves(c, p), UNCHANGED flight,
         p \in Flying => pc[c] \in Flying
  PROVE  FlightInv'
BY MovesType DEF LoadsInv, FlightInv

LEMMA GiveBackFlight ==
  ASSUME LoadsInv, NEW c \in Callers, NEW p \in LoadPcs \ Flying, Moves(c, p), pc[c] \in Flying,
         flight' = None
  PROVE  FlightInv'
BY MovesType DEF LoadsInv, FlightInv

\* A step that looks and moves on.
LEMMA LookKeepsLoadsInv ==
  ASSUME LoadsInv, NEW c \in Callers, NEW p \in LoadPcs \ (Holding \union Flying), Moves(c, p),
         pc[c] \notin Holding, UNCHANGED <<registry, locks, on, me>>,
         pc[c] \notin Owning \/ p \in {"flight", "failed", "done"},
         pc[c] \in Owning => p # "done",
         p = "lockReload" => op[c] \in ReloadOps
  PROVE  LoadsInv'
<1>1. UNCHANGED <<models, inst, claim, flight, mu>>
  BY DEF registry, locks
<1>2. TypeOK'
  BY <1>1, MovesType DEF LoadsInv, TypeOK
<1>3. ClaimInv'
  BY <1>1, MoveKeepsClaims DEF Owning
<1>4. FlightInv'
  BY <1>1, MoveKeepsFlight
<1>5. HandInv' /\ DecodesLive' /\ FillInv' /\ CopyInv'
  BY <1>1, OutsideKeeps
<1> QED
  BY <1>2, <1>3, <1>4, <1>5 DEF LoadsInv

LEMMA LooksKeepLoadsInv ==
  ASSUME LoadsInv, NEW c \in Callers,
         \/ Reclaim(c) \/ Exists(c) \/ FlightTimeout(c) \/ ReloadGate(c) \/ UnloadGate(c)
         \/ UnloadIfLoading(c) \/ WaitAborted(c) \/ IdleGate(c) \/ Look(c) \/ WaitReady(c)
  PROVE  LoadsInv'
<1> USE DEF LoadPcs, Holding, Flying, Filling, Owning
<1>1. TypeOK
  BY DEF LoadsInv
<1>2. CASE Reclaim(c)
  BY <1>1, <1>2, GoToMoves, LookKeepsLoadsInv DEF Reclaim
<1>3. CASE Exists(c)
  <2>1. GoTo(c, "done") \/ GoTo(c, "unload") \/ GoTo(c, "flight")
    BY <1>3 DEF Exists
  <2> QED
    BY <1>1, <1>3, <2>1, GoToMoves, LookKeepsLoadsInv DEF Exists
<1>4. CASE FlightTimeout(c)
  BY <1>1, <1>4, FailedMoves, LookKeepsLoadsInv DEF FlightTimeout
<1>5. CASE ReloadGate(c)
  <2>1. GoTo(c, "done") \/ GoTo(c, "lockReload") \/ GoTo(c, "unload")
    BY <1>5 DEF ReloadGate
  <2>2. UNCHANGED <<registry, locks, on, me>> /\ pc[c] = "gate" /\ op[c] \in ReloadOps
    BY <1>5 DEF ReloadGate
  <2> QED
    BY <1>1, <2>1, <2>2, GoToMoves, LookKeepsLoadsInv
<1>6. CASE UnloadGate(c)
  <2>1. GoTo(c, "done") \/ GoTo(c, "reclaim") \/ GoTo(c, "unload")
    BY <1>6 DEF UnloadGate
  <2>2. UNCHANGED <<registry, locks, on, me>> /\ pc[c] = "gate"
    BY <1>6 DEF UnloadGate
  <2> QED
    BY <1>1, <2>1, <2>2, GoToMoves, LookKeepsLoadsInv
<1>7. CASE UnloadIfLoading(c)
  <2>1. GoTo(c, "done") \/ GoTo(c, "waitAborted") \/ GoTo(c, "unload")
    BY <1>7 DEF UnloadIfLoading
  <2>2. UNCHANGED <<registry, locks, on, me>> /\ pc[c] \in {"reclaim", "ifLoading"}
    BY <1>7 DEF UnloadIfLoading
  <2> QED
    BY <1>1, <2>1, <2>2, GoToMoves, LookKeepsLoadsInv
<1>8. CASE WaitAborted(c) \/ IdleGate(c) \/ WaitReady(c)
  <2>1. GoTo(c, "done") \/ GoTo(c, "unload") \/ GoTo(c, "lookup")
    BY <1>8 DEF WaitAborted, IdleGate, WaitReady
  <2>2. UNCHANGED <<registry, locks, on, me>> /\ pc[c] \in {"waitAborted", "gate", "wait"}
    BY <1>8 DEF WaitAborted, IdleGate, WaitReady
  <2> QED
    BY <1>1, <2>1, <2>2, GoToMoves, LookKeepsLoadsInv
<1>9. CASE Look(c)
  <2>1. GoTo(c, "lookup") \/ GoTo(c, "wait") \/ GoTo(c, "reclaim")
    <3>1. CASE StateIs(on[c], "loaded")
      BY <1>9, <3>1 DEF Look
    <3>2. CASE ~StateIs(on[c], "loaded") /\ StateIs(on[c], "loading")
      BY <1>9, <3>2 DEF Look
    <3>3. CASE ~StateIs(on[c], "loaded") /\ ~StateIs(on[c], "loading")
      BY <1>9, <3>3 DEF Look
    <3> QED
      BY <3>1, <3>2, <3>3
  <2>2. UNCHANGED <<registry, locks, on, me>> /\ pc[c] = "look"
    BY <1>9 DEF Look
  <2> QED
    BY <1>1, <2>1, <2>2, GoToMoves, LookKeepsLoadsInv
<1> QED
  BY <1>2, <1>3, <1>4, <1>5, <1>6, <1>7, <1>8, <1>9

\* A step on the claims moves on and keeps the rest.
LEMMA ClaimStepKeepsLoadsInv ==
  ASSUME LoadsInv, NEW c \in Callers, NEW p \in LoadPcs \ (Holding \union Flying), Moves(c, p),
         pc[c] \notin Holding, UNCHANGED <<registry, flight, mu, on, me>>, ClaimInv',
         claim' \in [Models -> [by : Callers \union {None}, stale : BOOLEAN, held : BOOLEAN]]
  PROVE  LoadsInv'
<1>1. UNCHANGED <<models, inst, flight, mu>>
  BY DEF registry
<1>2. TypeOK'
  BY <1>1, MovesType DEF LoadsInv, TypeOK
<1>3. FlightInv'
  BY <1>1, MoveKeepsFlight
<1>4. HandInv' /\ DecodesLive' /\ FillInv' /\ CopyInv'
  BY <1>1, OutsideKeeps
<1> QED
  BY <1>2, <1>3, <1>4 DEF LoadsInv

LEMMA ClaimsKeepLoadsInv ==
  ASSUME LoadsInv, NEW c \in Callers,
         \/ RemoveStale(c) \/ TryLockLoad(c) \/ DedupByPath(c) \/ UnlockLoad(c) \/ TryLockReload(c)
  PROVE  LoadsInv'
<1> USE DEF LoadPcs, Holding, Flying, Filling, Owning
<1> DEFINE m == on[c]
           Claims == [by : Callers \union {None}, stale : BOOLEAN, held : BOOLEAN]
<1>1. /\ TypeOK /\ m \in Models /\ claim \in [Models -> Claims]
      /\ claim' = claim => claim' \in [Models -> Claims]
  BY DEF LoadsInv, TypeOK
<1>2. claim' = [claim EXCEPT ![m] = NoClaim] => claim' \in [Models -> Claims]
  BY <1>1 DEF NoClaim
<1>3. TakeClaim(c) => claim' \in [Models -> Claims]
  BY <1>1 DEF TakeClaim, NewClaim
<1> HIDE DEF Claims
<1>4. UNCHANGED <<registry, flight, mu, on, me>>
  BY DEF RemoveStale, TryLockLoad, DedupByPath, UnlockLoad, TryLockReload
<1>5. CASE RemoveStale(c)
  <2>1. /\ pc[c] = "removeStale"
        /\ claim' = [claim EXCEPT ![m] = NoClaim] \/ UNCHANGED claim
        /\ GoTo(c, "ifLoading") \/ GoTo(c, "claim")
    BY <1>5 DEF RemoveStale
  <2>2. PICK p \in {"ifLoading", "claim"} : Moves(c, p)
    BY <1>1, <2>1, GoToMoves
  <2>3. ClaimInv'
    BY <1>1, <1>4, <2>1, <2>2, DropKeepsClaims, MoveKeepsClaims
  <2> QED
    BY <1>1, <1>2, <1>4, <2>1, <2>2, <2>3, ClaimStepKeepsLoadsInv DEF Claims
<1>6. CASE TryLockLoad(c)
  <2>1. /\ pc[c] \in {"reclaim", "claim", "claimAgain"}
        /\ \/ UNCHANGED claim /\ (GoTo(c, "wait") \/ GoTo(c, "done") \/ GoTo(c, "exists"))
           \/ ~claim[m].held /\ TakeClaim(c) /\ (GoTo(c, "flight") \/ GoTo(c, "dedup"))
    <3>1. CASE op[c] = "chat"
      BY <1>6, <3>1 DEF TryLockLoad
    <3>2. CASE op[c] # "chat" /\ pc[c] = "claimAgain"
      BY <1>6, <3>2 DEF TryLockLoad
    <3>3. CASE op[c] # "chat" /\ pc[c] # "claimAgain"
      BY <1>6, <3>3 DEF TryLockLoad
    <3> QED
      BY <3>1, <3>2, <3>3
  <2>2. CASE UNCHANGED claim /\ (GoTo(c, "wait") \/ GoTo(c, "done") \/ GoTo(c, "exists"))
    <3>1. PICK p \in {"wait", "done", "exists"} : Moves(c, p)
      BY <1>1, <2>2, GoToMoves
    <3>2. ClaimInv'
      BY <1>4, <2>1, <2>2, <3>1, MoveKeepsClaims
    <3> QED
      BY <1>1, <1>4, <2>1, <2>2, <3>1, <3>2, ClaimStepKeepsLoadsInv DEF Claims
  <2>3. CASE ~claim[m].held /\ TakeClaim(c) /\ (GoTo(c, "flight") \/ GoTo(c, "dedup"))
    <3>1. PICK p \in {"flight", "dedup"} : Moves(c, p)
      BY <1>1, <2>3, GoToMoves
    <3>2. ClaimInv'
      BY <1>4, <2>1, <2>3, <3>1, TakeKeepsClaims
    <3> QED
      BY <1>3, <1>4, <2>1, <2>3, <3>1, <3>2, ClaimStepKeepsLoadsInv DEF Claims
  <2> QED
    BY <2>1, <2>2, <2>3
<1>7. CASE DedupByPath(c)
  <2>1. pc[c] = "dedup"
    BY <1>7 DEF DedupByPath
  <2>2. CASE GoTo(c, "flight") /\ UNCHANGED claim
    <3>1. Moves(c, "flight")
      BY <1>1, <2>2, GoToMoves
    <3>2. ClaimInv'
      BY <1>4, <2>1, <2>2, <3>1, MoveKeepsClaims
    <3> QED
      BY <1>1, <1>4, <2>1, <2>2, <3>1, <3>2, ClaimStepKeepsLoadsInv DEF Claims
  <2>3. CASE /\ claim' = IF claim[m].by = c THEN [claim EXCEPT ![m].by = None] ELSE claim
             /\ GoTo(c, "done")
    <3>1. Moves(c, "done")
      BY <1>1, <2>3, GoToMoves
    <3>2. claim' \in [Models -> Claims]
      BY <1>1, <2>3 DEF Claims
    <3>3. /\ \A l \in Models : claim'[l].by # None => claim'[l] = claim[l] /\ claim[l].by # c
          /\ \A l \in Models : claim[l].by # None => claim[l].by \in Callers
      <4>1. CASE claim[m].by = c
        <5>1. \A l \in Models : claim'[l] = IF l = m THEN [claim[m] EXCEPT !.by = None] ELSE claim[l]
          BY <1>1, <2>3, <4>1
        <5>2. \A l \in Models : claim[l].by = c => l = m
          BY ModelLoadsAssumption DEF LoadsInv, ClaimInv
        <5>3. [claim[m] EXCEPT !.by = None].by = None
          BY <1>1 DEF Claims
        <5> QED
          BY <1>1, <5>1, <5>2, <5>3 DEF Claims
      <4>2. CASE claim[m].by # c
        <5>1. claim' = claim
          BY <2>3, <4>2
        <5>2. \A l \in Models : claim[l].by # c
          BY <4>2, ModelLoadsAssumption DEF LoadsInv, ClaimInv
        <5> QED
          BY <1>1, <5>1, <5>2 DEF Claims
      <4> QED
        BY <4>1, <4>2
    <3>4. ClaimInv'
      <4>1. /\ pc'[c] = "done" /\ \A d \in Callers : d # c => pc'[d] = pc[d] /\ op'[d] = op[d]
        BY <1>1, <3>1, MovesType
      <4>2. UNCHANGED on
        BY <1>4
      <4>3. \A l \in Models : claim'[l].by # None =>
              /\ claim'[l].held /\ on'[claim'[l].by] = l /\ pc'[claim'[l].by] \in Owning
              /\ pc'[claim'[l].by] \in {"unload", "free"} => op'[claim'[l].by] \in ReloadOps
        <5> SUFFICES ASSUME NEW l \in Models, claim'[l].by # None
                     PROVE  /\ claim'[l].held /\ on'[claim'[l].by] = l /\ pc'[claim'[l].by] \in Owning
                            /\ pc'[claim'[l].by] \in {"unload", "free"} => op'[claim'[l].by] \in ReloadOps
          OBVIOUS
        <5> DEFINE d == claim[l].by
        <5>1. claim'[l] = claim[l] /\ d # c /\ d \in Callers /\ d # None
          BY <3>3
        <5>2. pc'[d] = pc[d] /\ op'[d] = op[d]
          BY <4>1, <5>1
        <5>3. /\ claim[l].held /\ on[d] = l /\ pc[d] \in Owning
              /\ pc[d] \in {"unload", "free"} => op[d] \in ReloadOps
          BY <5>1 DEF LoadsInv, ClaimInv
        <5> HIDE DEF d
        <5> QED
          BY <4>2, <5>1, <5>2, <5>3 DEF d
      <4>4. \A d \in Callers : pc'[d] = "lockReload" => op'[d] \in ReloadOps
        BY <4>1 DEF LoadsInv, ClaimInv
      <4> QED
        BY <4>3, <4>4 DEF ClaimInv
    <3> QED
      BY <1>4, <2>1, <3>1, <3>2, <3>4, ClaimStepKeepsLoadsInv DEF Claims
  <2> QED
    BY <1>7, <2>2, <2>3 DEF DedupByPath
<1>8. CASE UnlockLoad(c)
  <2>1. /\ pc[c] \in {"unlock", "failed"} /\ claim' = [claim EXCEPT ![m] = NoClaim]
        /\ GoTo(c, "lookup") \/ GoTo(c, "done")
    BY <1>8 DEF UnlockLoad
  <2>2. PICK p \in {"lookup", "done"} : Moves(c, p)
    BY <1>1, <2>1, GoToMoves
  <2>3. ClaimInv'
    BY <1>1, <1>4, <2>1, <2>2, DropKeepsClaims
  <2> QED
    BY <1>2, <1>4, <2>1, <2>2, <2>3, ClaimStepKeepsLoadsInv DEF Claims
<1>9. CASE TryLockReload(c)
  <2>1. pc[c] = "lockReload" /\ op[c] \in ReloadOps
    BY <1>9 DEF TryLockReload, LoadsInv, ClaimInv
  <2>2. CASE GoTo(c, "done") /\ UNCHANGED claim
    <3>1. Moves(c, "done")
      BY <1>1, <2>2, GoToMoves
    <3>2. ClaimInv'
      BY <1>4, <2>1, <2>2, <3>1, MoveKeepsClaims
    <3> QED
      BY <1>1, <1>4, <2>1, <2>2, <3>1, <3>2, ClaimStepKeepsLoadsInv DEF Claims
  <2>3. CASE ~claim[m].held /\ TakeClaim(c) /\ GoTo(c, "unload")
    <3>1. Moves(c, "unload")
      BY <1>1, <2>3, GoToMoves
    <3>2. ClaimInv'
      BY <1>4, <2>1, <2>3, <3>1, TakeKeepsClaims
    <3> QED
      BY <1>3, <1>4, <2>1, <2>3, <3>1, <3>2, ClaimStepKeepsLoadsInv DEF Claims
  <2> QED
    BY <1>9, <2>2, <2>3 DEF TryLockReload
<1> QED
  BY <1>5, <1>6, <1>7, <1>8, <1>9

\* The flight is taken, or given back unused.
LEMMA FlightsKeepLoadsInv ==
  ASSUME LoadsInv, NEW c \in Callers, AcquireFlight(c) \/ Refuse(c)
  PROVE  LoadsInv'
<1> USE DEF LoadPcs, Holding, Flying, Filling, Owning
<1>1. TypeOK /\ UNCHANGED <<registry, claim, mu, on, me>>
  BY DEF LoadsInv, AcquireFlight, Refuse
<1>2. UNCHANGED <<models, inst>>
  BY <1>1 DEF registry
<1>3. CASE AcquireFlight(c)
  <2>1. pc[c] = "flight" /\ flight = None /\ flight' = c /\ Moves(c, "register")
    BY <1>1, <1>3, GoToMoves DEF AcquireFlight
  <2>2. TypeOK'
    BY <1>1, <1>2, <2>1, MovesType DEF TypeOK
  <2>3. ClaimInv'
    BY <1>1, <2>1, MoveKeepsClaims
  <2>4. FlightInv'
    BY <1>1, <2>1, MovesType, ModelLoadsAssumption DEF LoadsInv, FlightInv
  <2>5. HandInv' /\ DecodesLive' /\ FillInv' /\ CopyInv'
    BY <1>1, <2>1, OutsideKeeps
  <2> QED
    BY <2>2, <2>3, <2>4, <2>5 DEF LoadsInv
<1>4. CASE Refuse(c)
  <2>1. pc[c] = "register" /\ flight' = None
    BY <1>4 DEF Refuse
  <2>2. PICK p \in {"flight", "failed"} : Moves(c, p)
    BY <1>1, <1>4, FailedMoves DEF Refuse
  <2>3. TypeOK'
    BY <1>1, <1>2, <2>1, <2>2, MovesType DEF TypeOK
  <2>4. ClaimInv'
    BY <1>1, <2>1, <2>2, MoveKeepsClaims
  <2>5. FlightInv'
    BY <2>1, <2>2, GiveBackFlight
  <2>6. HandInv' /\ DecodesLive' /\ FillInv' /\ CopyInv'
    BY <1>1, <2>1, <2>2, OutsideKeeps
  <2> QED
    BY <2>3, <2>4, <2>5, <2>6 DEF LoadsInv
<1> QED
  BY <1>3, <1>4

LEMMA EditsType ==
  ASSUME NEW r \in InstStates
  PROVE  [r EXCEPT !.mem = "live"] \in InstStates /\ [r EXCEPT !.st = "loaded"] \in InstStates
BY DEF InstStates

\* The instance that is registered is new to everybody.
LEMMA RegisterKeepsLoadsInv ==
  ASSUME LoadsInv, NEW c \in Callers, Register(c)
  PROVE  LoadsInv'
<1> USE DEF LoadPcs, Holding, Flying, Filling, Owning
<1> DEFINE m == on[c]
<1>1. TypeOK /\ UNCHANGED <<claim, flight, mu, on>> /\ pc[c] = "register" /\ models[m] = None
  BY DEF LoadsInv, Register, locks, Registered
<1>2. PICK i \in Spare : /\ models' = [models EXCEPT ![m] = i] /\ inst' = [inst EXCEPT ![i] = NewInst]
                         /\ me' = [me EXCEPT ![c] = i]
  BY DEF Register
<1>3. i \in Insts /\ i # None /\ \A d \in Callers : me[d] # i
  BY <1>2, ModelLoadsAssumption DEF Spare
<1>4. Moves(c, "enter")
  BY <1>1, GoToMoves DEF Register
<1>5. /\ pc'[c] = "enter" /\ \A d \in Callers : d # c => pc'[d] = pc[d]
      /\ pc' \in [Callers -> LoadPcs] /\ op' \in [Callers -> Ops \union {"none", "rollback"}]
  BY <1>1, <1>4, MovesType
<1>6. /\ NewInst \in InstStates
      /\ NewInst.st = "loading" /\ NewInst.mem = "none"
  BY DEF NewInst, InstStates
<1>7. TypeOK'
  BY <1>1, <1>2, <1>3, <1>5, <1>6 DEF TypeOK
<1>8. /\ \A d \in Callers : me'[d] = IF d = c THEN i ELSE me[d]
      /\ \A j \in Insts : inst'[j] = IF j = i THEN NewInst ELSE inst[j]
      /\ \A l \in Models : models'[l] = IF l = m THEN i ELSE models[l]
  BY <1>1, <1>2 DEF TypeOK
<1>9. ClaimInv'
  BY <1>1, <1>4, MoveKeepsClaims
<1>10. FlightInv'
  BY <1>1, <1>4, MoveKeepsFlight
<1>11. HandInv'
  BY <1>3, <1>5, <1>8, <1>1 DEF LoadsInv, HandInv
<1>12. \A d \in Callers : d # c /\ pc[d] \in Holding => me[d] \in Insts
  BY <1>1 DEF LoadsInv, HandInv, TypeOK
<1>13. DecodesLive'
  BY <1>1, <1>3, <1>5, <1>8, <1>12 DEF LoadsInv, DecodesLive
<1>14. FillInv'
  <2>1. \A d \in Callers : pc'[d] \in Filling => d = c
    BY <1>1, <1>5 DEF LoadsInv, FlightInv
  <2> QED
    BY <1>3, <1>5, <1>6, <1>8, <2>1 DEF FillInv
<1>15. CopyInv'
  <2>1. Kept(i)'
    <3>1. m \in Models
      BY <1>1 DEF TypeOK
    <3>2. models'[m] = i
      BY <1>8, <3>1
    <3> QED
      BY <3>1, <3>2 DEF Kept
  <2>2. \A j \in Insts : j # i /\ Kept(j) => Kept(j)'
    BY <1>1, <1>5, <1>8, ModelLoadsAssumption DEF Kept
  <2>3. \A d \in Callers : pc'[d] = "enter" => d = c
    BY <1>1, <1>5 DEF LoadsInv, FlightInv
  <2>4. \A j \in Insts : inst'[j].mem = "live" => j # i /\ inst[j].mem = "live"
    BY <1>6, <1>8
  <2>5. me'[c] = i /\ inst'[i].mem = "none"
    BY <1>3, <1>6, <1>8
  <2>6. \A j \in Insts : inst'[j].mem = "live" => Kept(j)'
    BY <2>2, <2>4 DEF LoadsInv, CopyInv
  <2>7. \A d \in Callers : pc'[d] = "enter" => inst'[me'[d]].mem = "none" /\ Kept(i)' /\ me'[d] = i
    BY <2>1, <2>3, <2>5
  <2> QED
    BY <2>6, <2>7 DEF CopyInv
<1> QED
  BY <1>7, <1>9, <1>10, <1>11, <1>13, <1>14, <1>15 DEF LoadsInv

\* The C call begins on the instance, and its handle is there.
LEMMA EnterKeepsLoadsInv ==
  ASSUME LoadsInv, NEW c \in Callers, EnterC(c)
  PROVE  LoadsInv'
<1> USE DEF LoadPcs, Holding, Flying, Filling, Owning
<1> DEFINE i == me[c]
<1>1. TypeOK /\ UNCHANGED <<models, claim, flight, mu, on, me>> /\ pc[c] = "enter"
  BY DEF LoadsInv, EnterC, locks
<1>2. i \in Insts /\ inst' = [inst EXCEPT ![i].mem = "live"]
  BY <1>1 DEF LoadsInv, HandInv, TypeOK, EnterC
<1>3. Moves(c, "cload")
  BY <1>1, GoToMoves DEF EnterC
<1>4. /\ pc'[c] = "cload" /\ \A d \in Callers : d # c => pc'[d] = pc[d]
      /\ pc' \in [Callers -> LoadPcs] /\ op' \in [Callers -> Ops \union {"none", "rollback"}]
  BY <1>1, <1>3, MovesType
<1>5. \A j \in Insts : /\ inst'[j].st = inst[j].st /\ inst'[j].early = inst[j].early
                       /\ inst'[j].mem = IF j = i THEN "live" ELSE inst[j].mem
  BY <1>1, <1>2 DEF TypeOK
<1>6. TypeOK'
  <2>1. inst' \in [Insts -> InstStates]
    <3>1. [inst[i] EXCEPT !.mem = "live"] \in InstStates
      BY <1>1, <1>2, EditsType DEF TypeOK
    <3> QED
      BY <1>1, <1>2, <3>1 DEF TypeOK
  <2> QED
    BY <1>1, <1>4, <2>1 DEF TypeOK
<1>7. ClaimInv'
  BY <1>1, <1>3, MoveKeepsClaims
<1>8. FlightInv'
  BY <1>1, <1>3, MoveKeepsFlight
<1>9. HandInv'
  BY <1>1, <1>4 DEF LoadsInv, HandInv
<1>10. \A d \in Callers : pc[d] \in Holding => me[d] \in Insts
  BY <1>1 DEF LoadsInv, HandInv, TypeOK
<1>11. DecodesLive'
  BY <1>1, <1>4, <1>5, <1>10 DEF LoadsInv, DecodesLive
<1>12. FillInv'
  BY <1>1, <1>4, <1>5, <1>10 DEF LoadsInv, FillInv
<1>13. CopyInv'
  <2>1. \A j \in Insts : Kept(j) => Kept(j)'
    BY <1>1, <1>4, <1>5 DEF Kept
  <2>2. Kept(i)
    BY <1>1 DEF LoadsInv, CopyInv
  <2>3. \A d \in Callers : pc'[d] # "enter"
    BY <1>1, <1>4 DEF LoadsInv, FlightInv
  <2> QED
    BY <1>2, <1>5, <2>1, <2>2, <2>3 DEF LoadsInv, CopyInv
<1> QED
  BY <1>6, <1>7, <1>8, <1>9, <1>11, <1>12, <1>13 DEF LoadsInv

\* The load ends, and nobody else is in it.
LEMMA LoadEndsKeepsLoadsInv ==
  ASSUME LoadsInv, NEW c \in Callers, Loaded(c) \/ LoadFails(c)
  PROVE  LoadsInv'
<1> USE DEF LoadPcs, Holding, Flying, Filling, Owning
<1> DEFINE i == me[c]
<1>1. TypeOK /\ UNCHANGED <<claim, mu, on>> /\ pc[c] = "cload"
  BY DEF LoadsInv, Loaded, LoadFails
<1>2. i \in Insts /\ me' = [me EXCEPT ![c] = None] /\ flight' = None
  BY <1>1 DEF LoadsInv, HandInv, TypeOK, Loaded, LoadFails
<1>3. \E p \in {"unlock", "flight", "failed"} : Moves(c, p)
  BY <1>1, GoToMoves, FailedMoves DEF Loaded, LoadFails
<1>4. PICK p \in {"unlock", "flight", "failed"} : Moves(c, p)
  BY <1>3
<1>5. /\ pc'[c] = p /\ \A d \in Callers : d # c => pc'[d] = pc[d]
      /\ pc' \in [Callers -> LoadPcs] /\ op' \in [Callers -> Ops \union {"none", "rollback"}]
  BY <1>1, <1>4, MovesType
<1>6. \A d \in Callers : me'[d] = IF d = c THEN None ELSE me[d]
  BY <1>1, <1>2 DEF TypeOK
<1>7. \A d \in Callers : d # c => pc[d] \notin Flying
  BY <1>1 DEF LoadsInv, FlightInv
<1>8. ClaimInv'
  BY <1>1, <1>4, MoveKeepsClaims
<1>9. FlightInv'
  BY <1>1, <1>2, <1>4, GiveBackFlight
<1>10. HandInv'
  BY <1>1, <1>5, <1>6 DEF LoadsInv, HandInv
<1>11. FillInv'
  BY <1>5, <1>7 DEF FillInv
<1>12. \A d \in Callers : d # c /\ pc[d] \in Holding => me[d] \in Insts
  BY <1>1 DEF LoadsInv, HandInv, TypeOK
<1>13. \A d \in Callers : pc'[d] = "generate" => d # c /\ pc[d] = "generate" /\ me[d] # i
  BY <1>1, <1>5 DEF LoadsInv, FillInv
<1>14. CASE Loaded(c)
  <2>1. models' = models /\ inst' = [inst EXCEPT ![i].st = "loaded"]
    BY <1>14 DEF Loaded
  <2>2. \A j \in Insts : inst'[j].mem = inst[j].mem /\ inst'[j].early = inst[j].early
    BY <1>1, <1>2, <2>1 DEF TypeOK
  <2>3. inst' \in [Insts -> InstStates]
    <3>1. [inst[i] EXCEPT !.st = "loaded"] \in InstStates
      BY <1>1, <1>2, EditsType DEF TypeOK
    <3> QED
      BY <1>1, <1>2, <2>1, <3>1 DEF TypeOK
  <2>4. TypeOK'
    BY <1>1, <1>2, <1>5, <2>1, <2>3 DEF TypeOK
  <2>5. DecodesLive'
    BY <1>1, <1>6, <1>12, <1>13, <2>2 DEF LoadsInv, DecodesLive
  <2>6. \A j \in Insts : Kept(j) => Kept(j)'
    BY <1>1, <1>5, <1>6, <2>1, <2>2 DEF Kept
  <2>7. CopyInv'
    BY <1>5, <1>7, <2>2, <2>6 DEF LoadsInv, CopyInv
  <2> QED
    BY <1>8, <1>9, <1>10, <1>11, <2>4, <2>5, <2>7 DEF LoadsInv
<1>15. CASE LoadFails(c)
  <2>1. /\ inst' = [inst EXCEPT ![i] = GoneInst]
        /\ models' = IF models[on[c]] = i THEN [models EXCEPT ![on[c]] = None] ELSE models
    BY <1>15 DEF LoadFails
  <2>2. /\ GoneInst \in InstStates
        /\ GoneInst.mem = "none"
    BY DEF GoneInst, NewInst, InstStates
  <2>3. \A j \in Insts : inst'[j] = IF j = i THEN GoneInst ELSE inst[j]
    BY <1>1, <2>1 DEF TypeOK
  <2>4. \A m \in Models : models'[m] = models[m] \/ models[m] = i
    BY <1>1, <2>1 DEF TypeOK
  <2>5. TypeOK'
    <3>1. models' \in [Models -> Insts \union {None}]
      BY <1>1, <2>1 DEF TypeOK
    <3>2. inst' \in [Insts -> InstStates]
      BY <1>1, <2>1, <2>2 DEF TypeOK
    <3> QED
      BY <1>1, <1>2, <1>5, <3>1, <3>2 DEF TypeOK
  <2>6. DecodesLive'
    BY <1>1, <1>6, <1>12, <1>13, <2>3 DEF LoadsInv, DecodesLive
  <2>7. \A j \in Insts : j # i /\ Kept(j) => Kept(j)'
    BY <1>1, <1>5, <1>6, <2>3, <2>4 DEF Kept
  <2>8. CopyInv'
    BY <1>5, <1>7, <2>2, <2>3, <2>7 DEF LoadsInv, CopyInv
  <2> QED
    BY <1>8, <1>9, <1>10, <1>11, <2>5, <2>6, <2>8 DEF LoadsInv
<1> QED
  BY <1>14, <1>15

\* What was registered is in the hands of the unload.
LEMMA RemoveEntryKeepsLoadsInv ==
  ASSUME LoadsInv, NEW c \in Callers, RemoveEntry(c)
  PROVE  LoadsInv'
<1> USE DEF LoadPcs, Holding, Flying, Filling, Owning
<1> DEFINE m == on[c]
<1>1. TypeOK /\ UNCHANGED <<inst, claim, flight, mu, on>> /\ pc[c] = "unload" /\ m \in Models
  BY DEF LoadsInv, TypeOK, RemoveEntry, locks
<1>2. CASE ~Registered(m)
  <2>1. GoTo(c, "failed") \/ (GoTo(c, "done") /\ op[c] \notin ReloadOps)
    BY <1>2 DEF RemoveEntry
  <2>2. UNCHANGED <<registry, locks, on, me>>
    BY <1>1, <1>2 DEF RemoveEntry, registry, locks
  <2>3. CASE GoTo(c, "failed")
    BY <1>1, <2>2, <2>3, GoToMoves, LookKeepsLoadsInv
  <2>4. CASE GoTo(c, "done") /\ op[c] \notin ReloadOps
    <3>1. Moves(c, "done")
      BY <1>1, <2>4, GoToMoves
    <3>2. /\ pc'[c] = "done" /\ \A d \in Callers : d # c => pc'[d] = pc[d] /\ op'[d] = op[d]
      BY <1>1, <3>1, MovesType
    <3>3. \A l \in Models : claim[l].by # None => claim[l].by # c /\ claim[l].by \in Callers
      BY <1>1, <2>4 DEF LoadsInv, ClaimInv, TypeOK
    <3>4. ClaimInv'
      BY <1>1, <3>2, <3>3 DEF LoadsInv, ClaimInv
    <3>5. claim' \in [Models -> [by : Callers \union {None}, stale : BOOLEAN, held : BOOLEAN]]
      BY <1>1 DEF TypeOK
    <3>6. UNCHANGED <<registry, flight, mu, on, me>>
      BY <2>2 DEF locks
    <3> QED
      BY <1>1, <3>1, <3>4, <3>5, <3>6, ClaimStepKeepsLoadsInv
  <2> QED
    BY <2>1, <2>3, <2>4
<1>3. CASE Registered(m)
  <2>1. PICK i \in Insts : i = models[m]
    BY <1>1, <1>3 DEF Registered, TypeOK
  <2>2. models' = [models EXCEPT ![m] = None] /\ me' = [me EXCEPT ![c] = i]
    BY <1>3, <2>1 DEF RemoveEntry
  <2>3. Moves(c, "free")
    BY <1>1, <1>3, GoToMoves DEF RemoveEntry
  <2>4. /\ pc'[c] = "free" /\ \A d \in Callers : d # c => pc'[d] = pc[d]
        /\ pc' \in [Callers -> LoadPcs] /\ op' \in [Callers -> Ops \union {"none", "rollback"}]
    BY <1>1, <2>3, MovesType
  <2>5. i # None /\ \A d \in Callers : me'[d] = IF d = c THEN i ELSE me[d]
    BY <1>1, <2>1, <2>2, ModelLoadsAssumption DEF TypeOK
  <2>6. \A l \in Models : models'[l] = models[l] \/ models[l] = i
    BY <1>1, <2>1, <2>2 DEF TypeOK
  <2>7. TypeOK'
    BY <1>1, <2>1, <2>2, <2>4 DEF TypeOK
  <2>8. ClaimInv'
    BY <1>1, <2>3, MoveKeepsClaims
  <2>9. FlightInv'
    BY <1>1, <2>3, MoveKeepsFlight
  <2>10. HandInv'
    BY <1>1, <2>4, <2>5 DEF LoadsInv, HandInv
  <2>11. DecodesLive' /\ FillInv'
    <3>1. \A d \in Callers : pc'[d] \in Filling \union {"generate"} => pc'[d] = pc[d] /\ me'[d] = me[d]
      BY <2>4, <2>5
    <3>2. DecodesLive'
      BY <1>1, <3>1 DEF LoadsInv, DecodesLive
    <3>3. FillInv'
      BY <1>1, <3>1 DEF LoadsInv, FillInv
    <3> QED
      BY <3>2, <3>3
  <2>12. CopyInv'
    <3>1. Kept(i)'
      BY <2>4, <2>5 DEF Kept
    <3>2. \A j \in Insts : j # i /\ Kept(j) => Kept(j)'
      BY <1>1, <2>4, <2>5, <2>6 DEF Kept
    <3>3. \A d \in Callers : pc'[d] = "enter" => pc[d] = "enter" /\ me'[d] = me[d] /\ me[d] \in Insts
      BY <1>1, <2>4, <2>5 DEF LoadsInv, HandInv, TypeOK
    <3>4. \A d \in Callers : pc'[d] = "enter" => (inst[me[d]].mem = "none" /\ Kept(me[d]))'
      <4> SUFFICES ASSUME NEW d \in Callers, pc'[d] = "enter"
                   PROVE  (inst[me[d]].mem = "none" /\ Kept(me[d]))'
        OBVIOUS
      <4>1. PICK j \in Insts : j = me[d] /\ j = me'[d]
        BY <3>3
      <4>2. inst[j].mem = "none" /\ Kept(j)
        BY <3>3, <4>1 DEF LoadsInv, CopyInv
      <4>3. Kept(j)'
        BY <3>1, <3>2, <4>2
      <4> QED
        BY <1>1, <4>1, <4>2, <4>3 DEF Kept
    <3>5. \A j \in Insts : inst'[j].mem = "live" => Kept(j)'
      BY <1>1, <3>1, <3>2 DEF LoadsInv, CopyInv
    <3> QED
      BY <3>4, <3>5 DEF CopyInv
  <2> QED
    BY <2>7, <2>8, <2>9, <2>10, <2>11, <2>12 DEF LoadsInv
<1> QED
  BY <1>2, <1>3

\* FreeModel takes memory from nobody who decodes, and what it leaves to a load
\* that goes on is not lost without being marked.
LEMMA FreeKeepsLoadsInv ==
  ASSUME LoadsInv, NEW c \in Callers, FreeModel(c)
  PROVE  LoadsInv'
<1> USE DEF LoadPcs, Holding, Flying, Filling, Owning
<1>1. TypeOK /\ UNCHANGED <<models, claim, flight, mu, on>> /\ pc[c] = "free"
  BY DEF LoadsInv, FreeModel, locks
<1>2. me[c] \in Insts
  BY <1>1 DEF LoadsInv, HandInv, TypeOK
<1>3. PICK i \in Insts : i = me[c]
  BY <1>2
<1>4. /\ inst' = [inst EXCEPT ![i] = Unloaded(i)] /\ me' = [me EXCEPT ![c] = None] /\ mu[i] = None
  BY <1>3 DEF FreeModel
<1>5. \E p \in {"claimAgain", "flight", "done"} :
        Moves(c, p) /\ (op[c] \in ReloadOps => p = "flight")
  <2>1. GoTo(c, AfterUnload(c))
    BY DEF FreeModel
  <2>2. CASE op[c] \in ReloadOps
    BY <1>1, <2>1, <2>2, GoToMoves DEF AfterUnload, ReloadOps
  <2>3. CASE op[c] \notin ReloadOps
    BY <1>1, <2>1, <2>3, GoToMoves DEF AfterUnload
  <2> QED
    BY <2>2, <2>3
<1>6. PICK p \in {"claimAgain", "flight", "done"} :
        Moves(c, p) /\ (op[c] \in ReloadOps => p = "flight")
  BY <1>5
<1>7. /\ pc'[c] = p /\ \A d \in Callers : d # c => pc'[d] = pc[d] /\ op'[d] = op[d]
      /\ pc' \in [Callers -> LoadPcs] /\ op' \in [Callers -> Ops \union {"none", "rollback"}]
  BY <1>1, <1>6, MovesType
<1>8. \A d \in Callers : me'[d] = IF d = c THEN None ELSE me[d]
  BY <1>1, <1>4 DEF TypeOK
<1>9. \A j \in Insts : inst'[j] = IF j = i THEN Unloaded(i) ELSE inst[j]
  BY <1>1, <1>4 DEF TypeOK
<1>10. /\ Unloaded(i).st = "unloaded" /\ Unloaded(i).mem # "live"
       /\ inst[i].mem = "none" => Unloaded(i).mem = "none"
       /\ inst[i].mem = "none" /\ Loaders(i) # {} => Unloaded(i).early
  BY DEF Unloaded
<1>11. Unloaded(i) \in InstStates
  BY DEF Unloaded, InstStates
<1>12. TypeOK'
  BY <1>1, <1>4, <1>7, <1>11 DEF TypeOK
<1>13. FlightInv'
  BY <1>1, <1>6, MoveKeepsFlight
<1>14. HandInv'
  BY <1>1, <1>7, <1>8 DEF LoadsInv, HandInv
<1>15. \A d \in Callers : pc'[d] \in Filling \union {"generate"} =>
         d # c /\ pc'[d] = pc[d] /\ me'[d] = me[d] /\ me[d] \in Insts
  BY <1>1, <1>7, <1>8 DEF LoadsInv, HandInv, TypeOK
<1>16. DecodesLive'
  <2> SUFFICES ASSUME NEW d \in Callers, pc'[d] = "generate"
               PROVE  inst'[me[d]].mem # "none" /\ mu[me[d]] = d /\ me'[d] = me[d]
    BY <1>1 DEF DecodesLive
  <2>1. inst[me[d]].mem # "none" /\ mu[me[d]] = d
    BY <1>15 DEF LoadsInv, DecodesLive
  <2>2. me[d] # i
    BY <1>4, <2>1, ModelLoadsAssumption
  <2> QED
    BY <1>9, <1>15, <2>1, <2>2
<1>17. FillInv'
  BY <1>9, <1>10, <1>15 DEF LoadsInv, FillInv
<1>18. \A j \in Insts : j # i /\ Kept(j) => Kept(j)'
  BY <1>1, <1>3, <1>7, <1>8, <1>9 DEF Kept
<1>19. CopyInv'
  <2>1. \A j \in Insts : inst'[j].mem = "live" => Kept(j)'
    BY <1>9, <1>10, <1>18 DEF LoadsInv, CopyInv
  <2>2. ASSUME NEW d \in Callers, pc'[d] = "enter"
        PROVE  (inst[me[d]].mem = "none" /\ Kept(me[d]))'
    <3>1. PICK j \in Insts : j = me[d] /\ j = me'[d] /\ pc[d] = "enter"
      BY <1>15, <2>2
    <3>2. inst[j].mem = "none" /\ Kept(j)
      BY <3>1 DEF LoadsInv, CopyInv
    <3>3. j = i => Loaders(i) # {}
      BY <3>1 DEF Loaders
    <3>4. inst'[j].mem = "none" /\ Kept(j)'
      <4>1. CASE j = i
        BY <1>9, <1>10, <3>2, <3>3, <4>1 DEF Kept
      <4>2. CASE j # i
        BY <1>9, <1>18, <3>2, <4>2
      <4> QED
        BY <4>1, <4>2
    <3> QED
      BY <3>1, <3>4 DEF Kept
  <2> QED
    BY <2>1, <2>2 DEF CopyInv
<1>20. ClaimInv'
  <2>1. CASE p = "flight"
    BY <1>1, <1>6, <2>1, MoveKeepsClaims
  <2>2. CASE p # "flight"
    <3>1. \A l \in Models : claim[l].by # None => claim[l].by # c /\ claim[l].by \in Callers
      BY <1>1, <1>6, <2>2 DEF LoadsInv, ClaimInv, TypeOK
    <3> QED
      BY <1>1, <1>7, <3>1 DEF LoadsInv, ClaimInv
  <2> QED
    BY <2>1, <2>2
<1> QED
  BY <1>12, <1>13, <1>14, <1>16, <1>17, <1>19, <1>20 DEF LoadsInv

\* A chat gets an instance, its mutex, and gives both back.
LEMMA ChatKeepsLoadsInv ==
  ASSUME LoadsInv, NEW c \in Callers, Lookup(c) \/ LockInst(c) \/ Generated(c)
  PROVE  LoadsInv'
<1> USE DEF LoadPcs, Holding, Flying, Filling, Owning
<1>1. TypeOK /\ UNCHANGED <<models, inst, claim, flight, on>> /\ pc[c] \in {"lookup", "lockInst",
                            "generate"}
  BY DEF LoadsInv, Lookup, LockInst, Generated, registry, locks
<1>2. \E p \in {"lockInst", "generate", "done", "unload"} : Moves(c, p)
  BY <1>1, GoToMoves DEF Lookup, LockInst, Generated, Answered
<1>3. ASSUME NEW p \in {"lockInst", "generate", "done", "unload"}, Moves(c, p)
      PROVE  /\ pc'[c] = p /\ \A d \in Callers : d # c => pc'[d] = pc[d]
             /\ pc' \in [Callers -> LoadPcs] /\ op' \in [Callers -> Ops \union {"none", "rollback"}]
             /\ ClaimInv' /\ FlightInv'
  <2>1. /\ pc'[c] = p /\ \A d \in Callers : d # c => pc'[d] = pc[d]
        /\ pc' \in [Callers -> LoadPcs] /\ op' \in [Callers -> Ops \union {"none", "rollback"}]
    BY <1>1, <1>3, MovesType
  <2>2. ClaimInv'
    BY <1>1, <1>3, MoveKeepsClaims
  <2>3. FlightInv'
    BY <1>1, <1>3, MoveKeepsFlight
  <2> QED
    BY <2>1, <2>2, <2>3
<1>4. /\ \A d \in Callers : d # c => pc'[d] = pc[d]
      /\ pc' \in [Callers -> LoadPcs] /\ op' \in [Callers -> Ops \union {"none", "rollback"}]
      /\ pc'[c] \in {"lockInst", "generate", "done", "unload"}
      /\ ClaimInv' /\ FlightInv'
  BY <1>2, <1>3
\* An instance is kept as before: the caller is neither before nor after in "free".
<1>5. ASSUME \A d \in Callers : d # c => me'[d] = me[d]
      PROVE  CopyInv'
  <2>1. \A j \in Insts : Kept(j) => Kept(j)'
    BY <1>1, <1>4, <1>5 DEF Kept
  <2>2. \A d \in Callers : pc'[d] = "enter" => d # c /\ pc[d] = "enter" /\ me'[d] = me[d] /\ me[d] \in Insts
    BY <1>1, <1>4, <1>5 DEF LoadsInv, HandInv, TypeOK
  <2>3. ASSUME NEW d \in Callers, pc'[d] = "enter"
        PROVE  (inst[me[d]].mem = "none" /\ Kept(me[d]))'
    <3>1. PICK j \in Insts : j = me[d] /\ j = me'[d]
      BY <2>2, <2>3
    <3>2. inst[j].mem = "none" /\ Kept(j)'
      BY <2>1, <2>2, <2>3, <3>1 DEF LoadsInv, CopyInv
    <3> QED
      BY <1>1, <3>1, <3>2 DEF Kept
  <2> QED
    BY <1>1, <2>1, <2>3 DEF LoadsInv, CopyInv
<1>6. CASE Lookup(c)
  <2>1. UNCHANGED mu /\ pc[c] = "lookup"
    BY <1>6 DEF Lookup, locks
  <2>2. \/ Registered(on[c]) /\ pc'[c] = "lockInst" /\ me' = [me EXCEPT ![c] = models[on[c]]]
        \/ ~Registered(on[c]) /\ pc'[c] \in {"done", "unload"} /\ me' = me
    <3>1. CASE Registered(on[c])
      BY <1>1, <1>3, <1>6, <3>1, GoToMoves DEF Lookup
    <3>2. CASE ~Registered(on[c])
      BY <1>1, <1>3, <1>6, <3>2, GoToMoves DEF Lookup, Answered
    <3> QED
      BY <3>1, <3>2
  <2>3. /\ me' \in [Callers -> Insts \union {None}]
        /\ \A d \in Callers : d # c => me'[d] = me[d]
        /\ me'[c] # None <=> pc'[c] = "lockInst"
    <3>1. me[c] = None
      BY <2>1 DEF LoadsInv, HandInv
    <3>2. on[c] \in Models /\ models[on[c]] \in Insts \union {None}
      BY <1>1 DEF TypeOK
    <3> QED
      BY <1>1, <2>2, <3>1, <3>2 DEF TypeOK, Registered
  <2>4. TypeOK'
    BY <1>1, <1>4, <2>1, <2>3 DEF TypeOK
  <2>5. HandInv'
    BY <1>4, <2>2, <2>3 DEF LoadsInv, HandInv
  <2>6. \A d \in Callers : pc'[d] \in Filling \union {"generate"} => pc'[d] = pc[d] /\ me'[d] = me[d]
    BY <1>4, <2>2, <2>3
  <2>7. DecodesLive'
    BY <1>1, <2>1, <2>6 DEF LoadsInv, DecodesLive
  <2>8. FillInv'
    BY <1>1, <2>6 DEF LoadsInv, FillInv
  <2> QED
    BY <1>4, <1>5, <2>3, <2>4, <2>5, <2>7, <2>8 DEF LoadsInv
<1>7. CASE LockInst(c)
  <2>1. PICK i \in Insts : i = me[c] /\ mu[i] = None /\ pc[c] = "lockInst"
    BY <1>7 DEF LockInst, LoadsInv, HandInv, TypeOK
  <2>2. CASE inst[i].st = "loaded" /\ inst[i].mem # "none"
    <3>1. mu' = [mu EXCEPT ![i] = c] /\ me' = me /\ pc'[c] = "generate"
      BY <1>1, <1>3, <1>7, <2>1, <2>2, GoToMoves DEF LockInst
    <3>2. \A j \in Insts : mu'[j] = IF j = i THEN c ELSE mu[j]
      BY <1>1, <3>1 DEF TypeOK
    <3>3. TypeOK'
      BY <1>1, <1>4, <3>1 DEF TypeOK
    <3>4. HandInv'
      BY <1>4, <2>1, <3>1 DEF LoadsInv, HandInv
    <3>5. \A d \in Callers : d # c /\ pc'[d] = "generate" => me[d] \in Insts /\ me[d] # i
      BY <1>1, <1>4, <2>1, ModelLoadsAssumption DEF LoadsInv, HandInv, DecodesLive, TypeOK
    <3>6. DecodesLive'
      BY <1>1, <1>4, <2>1, <2>2, <3>1, <3>2, <3>5 DEF LoadsInv, DecodesLive
    <3>7. FillInv'
      BY <1>1, <1>4, <2>1, <2>2, <3>1 DEF LoadsInv, FillInv
    <3> QED
      BY <1>4, <1>5, <3>1, <3>3, <3>4, <3>6, <3>7 DEF LoadsInv
  <2>3. CASE ~(inst[i].st = "loaded" /\ inst[i].mem # "none")
    <3>1. mu' = mu /\ me' = [me EXCEPT ![c] = None] /\ pc'[c] \in {"done", "unload"}
      BY <1>1, <1>3, <1>7, <2>1, <2>3, GoToMoves DEF LockInst, Answered
    <3>2. \A d \in Callers : me'[d] = IF d = c THEN None ELSE me[d]
      BY <1>1, <3>1 DEF TypeOK
    <3>3. TypeOK'
      BY <1>1, <1>4, <3>1 DEF TypeOK
    <3>4. HandInv'
      BY <1>4, <3>1, <3>2 DEF LoadsInv, HandInv
    <3>5. \A d \in Callers : pc'[d] \in Filling \union {"generate"} => pc'[d] = pc[d] /\ me'[d] = me[d]
      BY <1>4, <3>1, <3>2
    <3>6. DecodesLive'
      BY <1>1, <3>1, <3>5 DEF LoadsInv, DecodesLive
    <3>7. FillInv'
      BY <1>1, <3>5 DEF LoadsInv, FillInv
    <3> QED
      BY <1>4, <1>5, <3>2, <3>3, <3>4, <3>6, <3>7 DEF LoadsInv
  <2> QED
    BY <2>2, <2>3
<1>8. CASE Generated(c)
  <2>1. PICK i \in Insts : i = me[c] /\ mu[i] = c /\ pc[c] = "generate"
    BY <1>8 DEF Generated, LoadsInv, HandInv, DecodesLive, TypeOK
  <2>2. mu' = [mu EXCEPT ![i] = None] /\ me' = [me EXCEPT ![c] = None] /\ pc'[c] \in {"done", "unload"}
    BY <1>1, <1>3, <1>8, <2>1, GoToMoves DEF Generated, Answered
  <2>3. /\ \A d \in Callers : me'[d] = IF d = c THEN None ELSE me[d]
        /\ \A j \in Insts : mu'[j] = IF j = i THEN None ELSE mu[j]
    BY <1>1, <2>2 DEF TypeOK
  <2>4. TypeOK'
    BY <1>1, <1>4, <2>2 DEF TypeOK
  <2>5. HandInv'
    BY <1>4, <2>2, <2>3 DEF LoadsInv, HandInv
  <2>6. \A d \in Callers : pc'[d] \in Filling \union {"generate"} =>
          d # c /\ pc'[d] = pc[d] /\ me'[d] = me[d] /\ me[d] \in Insts
    BY <1>1, <1>4, <2>2, <2>3 DEF LoadsInv, HandInv, TypeOK
  <2>7. DecodesLive'
    BY <1>1, <2>1, <2>3, <2>6 DEF LoadsInv, DecodesLive
  <2>8. FillInv'
    BY <1>1, <2>6 DEF LoadsInv, FillInv
  <2> QED
    BY <1>4, <1>5, <2>3, <2>4, <2>5, <2>7, <2>8 DEF LoadsInv
<1> QED
  BY <1>6, <1>7, <1>8

\* A caller that begins a call has nothing from the last one.
LEMMA StartKeepsLoadsInv ==
  ASSUME LoadsInv, NEW c \in Callers, Start(c)
  PROVE  LoadsInv'
<1> USE DEF LoadPcs, Holding, Flying, Filling, Owning
<1>1. TypeOK /\ UNCHANGED <<models, inst, claim, flight, mu, me>> /\ pc[c] = "done"
  BY DEF LoadsInv, Start, registry, locks
<1>2. PICK o \in Role[c], m \in Models, p \in {"look", "reclaim", "gate"} :
        op' = [op EXCEPT ![c] = o] /\ on' = [on EXCEPT ![c] = m] /\ pc' = [pc EXCEPT ![c] = p]
  <2>1. PICK o \in Role[c], m \in Models :
          /\ op' = [op EXCEPT ![c] = o] /\ on' = [on EXCEPT ![c] = m]
          /\ pc' = [pc EXCEPT ![c] = CASE o = "chat" -> "look" [] o = "load" -> "reclaim"
                                       [] OTHER -> "gate"]
    BY DEF Start
  <2>2. CASE o = "chat"
    BY <2>1, <2>2
  <2>3. CASE o = "load"
    BY <2>1, <2>3
  <2>4. CASE o # "chat" /\ o # "load"
    BY <2>1, <2>4
  <2> QED
    BY <2>2, <2>3, <2>4
<1>3. o \in Ops
  BY ModelLoadsAssumption
<1>4. TypeOK'
  BY <1>1, <1>2, <1>3 DEF TypeOK
<1>5. /\ pc'[c] = p /\ \A d \in Callers : d # c => pc'[d] = pc[d] /\ op'[d] = op[d] /\ on'[d] = on[d]
  BY <1>1, <1>2 DEF TypeOK
<1>6. FlightInv' /\ HandInv' /\ DecodesLive' /\ FillInv'
  <2>1. \A d \in Callers : pc'[d] \in Holding \union Flying \/ pc[d] \in Holding \union Flying => pc'[d] = pc[d]
    BY <1>1, <1>5
  <2>2. FlightInv'
    BY <1>1, <2>1 DEF LoadsInv, FlightInv
  <2>3. HandInv'
    BY <1>1, <2>1 DEF LoadsInv, HandInv
  <2>4. DecodesLive'
    BY <1>1, <2>1 DEF LoadsInv, DecodesLive
  <2>5. FillInv'
    BY <1>1, <2>1 DEF LoadsInv, FillInv
  <2> QED
    BY <2>2, <2>3, <2>4, <2>5
<1>7. CopyInv'
  <2>1. \A j : Kept(j)' <=> Kept(j)
    BY <1>1, <1>5 DEF Kept
  <2>2. \A d \in Callers : pc'[d] = "enter" => pc[d] = "enter"
    BY <1>1, <1>5
  <2> QED
    BY <1>1, <2>1, <2>2 DEF LoadsInv, CopyInv
<1>8. ClaimInv'
  <2>1. \A l \in Models : claim[l].by # None => claim[l].by # c /\ claim[l].by \in Callers
    BY <1>1 DEF LoadsInv, ClaimInv, TypeOK
  <2> QED
    BY <1>1, <1>5, <2>1 DEF LoadsInv, ClaimInv
<1> QED
  BY <1>4, <1>6, <1>7, <1>8 DEF LoadsInv

LEMMA AgeKeepsLoadsInv ==
  ASSUME LoadsInv, NEW m \in Models, Age(m)
  PROVE  LoadsInv'
<1>1. UNCHANGED <<models, inst, flight, mu, op, on, pc,
                  me>> /\ claim' = [claim EXCEPT ![m].stale = TRUE]
  BY DEF Age, registry
<1>2. claim \in [Models -> [by : Callers \union {None}, stale : BOOLEAN, held : BOOLEAN]]
  BY DEF LoadsInv, TypeOK
<1>3. /\ claim' \in [Models -> [by : Callers \union {None}, stale : BOOLEAN, held : BOOLEAN]]
      /\ \A l \in Models : claim'[l].by = claim[l].by /\ claim'[l].held = claim[l].held
  BY <1>1, <1>2
<1>4. TypeOK'
  BY <1>1, <1>3 DEF LoadsInv, TypeOK
<1>5. ClaimInv'
  BY <1>1, <1>3 DEF LoadsInv, ClaimInv
<1> QED
  BY <1>1, <1>4, <1>5 DEF LoadsInv, FlightInv, HandInv, DecodesLive, FillInv, CopyInv, Kept

LEMMA InitLoadsInv == Init => LoadsInv
<1> SUFFICES ASSUME Init PROVE LoadsInv
  OBVIOUS
<1>1. GoneInst \in InstStates /\ GoneInst.mem = "none"
  BY DEF GoneInst, NewInst, InstStates
<1>2. TypeOK
  BY <1>1 DEF Init, TypeOK, NoClaim, LoadPcs
<1>3. ClaimInv
  BY DEF Init, ClaimInv, NoClaim
<1>4. FlightInv /\ HandInv /\ DecodesLive /\ FillInv
  BY DEF Init, FlightInv, HandInv, DecodesLive, FillInv, Flying, Holding, Filling
<1>5. CopyInv
  BY <1>1 DEF Init, CopyInv
<1> QED
  BY <1>2, <1>3, <1>4, <1>5 DEF LoadsInv

LEMMA NextKeepsLoadsInv == LoadsInv /\ [Next]_vars => LoadsInv'
<1> SUFFICES ASSUME LoadsInv, [Next]_vars PROVE LoadsInv'
  OBVIOUS
<1>1. ASSUME NEW c \in Callers, Step(c) PROVE LoadsInv'
  BY <1>1, LooksKeepLoadsInv, ClaimsKeepLoadsInv, FlightsKeepLoadsInv, RegisterKeepsLoadsInv,
     EnterKeepsLoadsInv, LoadEndsKeepsLoadsInv, RemoveEntryKeepsLoadsInv, FreeKeepsLoadsInv,
     ChatKeepsLoadsInv DEF Step
<1>2. CASE UNCHANGED vars
  BY <1>2 DEF vars, registry, locks, LoadsInv, TypeOK, FlightInv, HandInv, ClaimInv, DecodesLive,
              FillInv, CopyInv, Kept
<1> QED
  BY <1>1, <1>2, StartKeepsLoadsInv, AgeKeepsLoadsInv DEF Next

\* Spec => []LoadsInv, from which the theorems on loads follow.
THEOREM LoadsInvariant == Spec => []LoadsInv
<1> QED
  BY InitLoadsInv, NextKeepsLoadsInv, PTL DEF Spec

\* Spec => []TypeOK: every caller is in a known place, and each mutex, claim and
\* flight belongs to a caller or to nobody.
THEOREM LoadsTypeCorrect == Spec => []TypeOK
<1>1. LoadsInv => TypeOK
  BY DEF LoadsInv
<1> QED
  BY <1>1, LoadsInvariant, PTL

\* Spec => []ClaimHasOwner: whoever has a claim is on a way that ends with
\* UnlockLoad, however loads, reloads, unloads and stale claims interleave.
THEOREM ClaimHasOwnerAlways == Spec => []ClaimHasOwner
<1>1. LoadsInv => ClaimHasOwner
  BY DEF LoadsInv, ClaimInv, ClaimHasOwner, Owning
<1> QED
  BY <1>1, LoadsInvariant, PTL

\* Spec => []NoCopyLost: no step of a load, its failure or an unload leaves the
\* memory of a model where nobody would free it, but for an unload that came
\* before the C call had begun.
THEOREM NoCopyLostAlways == Spec => []NoCopyLost
<1>1. LoadsInv => NoCopyLost
  BY DEF LoadsInv, CopyInv, Kept, NoCopyLost
<1> QED
  BY <1>1, LoadsInvariant, PTL

\* Spec => []DecodesLive: a generation holds the mutex of an instance whose
\* memory nobody has released, for any number of callers.
THEOREM DecodesLiveAlways == Spec => []DecodesLive
<1>1. LoadsInv => DecodesLive
  BY DEF LoadsInv
<1> QED
  BY <1>1, LoadsInvariant, PTL

\* c waits for something d has: the flight, the mutex of an instance, the claim
\* of its model.
BlockedBy(c, d) ==
  \/ pc[c] = "flight" /\ flight = d
  \/ pc[c] \in {"lockInst", "free"} /\ mu[me[c]] = d
  \/ pc[c] = "wait" /\ claim[on[c]].by = d

\* Waiting ends somewhere: who is waited for by a caller that others wait for
\* runs a load or a generation, which need no lock.  So no callers wait for each
\* other in a ring.
NoCircularWait ==
  \A c, d, e \in Callers : BlockedBy(c, d) /\ BlockedBy(d, e) =>
    pc[c] = "wait" /\ pc[e] \in Flying \union {"generate"}

\* A caller that has no lock before its step, and leaves the locks alone.
LEMMA BystanderKeepsLocks ==
  ASSUME LoadsInv, NoLockLeftBehind, NEW c \in Callers, pc[c] \notin Flying \union {"generate"},
         \A d \in Callers : d # c => pc'[d] = pc[d] /\ me'[d] = me[d],
         UNCHANGED <<flight, mu>>
  PROVE  NoLockLeftBehind'
<1>1. flight # None => flight \in Callers /\ flight # c
  BY DEF LoadsInv, TypeOK, NoLockLeftBehind, Flying, Filling
<1>2. \A i \in Insts : mu[i] # None => mu[i] \in Callers /\ mu[i] # c
  BY DEF LoadsInv, TypeOK, NoLockLeftBehind
<1> QED
  BY <1>1, <1>2 DEF NoLockLeftBehind

LEMMA StepMovesOne ==
  ASSUME LoadsInv, NEW c \in Callers, Start(c) \/ Step(c)
  PROVE  \A d \in Callers : d # c => pc'[d] = pc[d] /\ me'[d] = me[d]
<1>1. pc \in [Callers -> LoadPcs] /\ me \in [Callers -> Insts \union {None}]
  BY DEF LoadsInv, TypeOK
<1>2. \E p : pc' = [pc EXCEPT ![c] = p]
  <2>1. CASE Start(c)
    BY <2>1 DEF Start
  <2>2. CASE Step(c)
    BY <2>2 DEF Step, Reclaim, RemoveStale, TryLockLoad, DedupByPath, Exists, UnlockLoad,
       AcquireFlight, FlightTimeout, Refuse, Register, EnterC, Loaded, LoadFails, RemoveEntry,
       FreeModel, ReloadGate, TryLockReload, UnloadGate, UnloadIfLoading, WaitAborted, IdleGate,
       Look, WaitReady, Lookup, LockInst, Generated, Answered, Failed, GoTo
  <2> QED
    BY <2>1, <2>2
<1>3. \E i : me' = me \/ me' = [me EXCEPT ![c] = i]
  <2>1. CASE Start(c)
    BY <2>1 DEF Start
  <2>2. CASE Step(c)
    BY <2>2 DEF Step, Reclaim, RemoveStale, TryLockLoad, DedupByPath, Exists, UnlockLoad,
       AcquireFlight, FlightTimeout, Refuse, Register, EnterC, Loaded, LoadFails, RemoveEntry,
       FreeModel, ReloadGate, TryLockReload, UnloadGate, UnloadIfLoading, WaitAborted, IdleGate,
       Look, WaitReady, Lookup, LockInst, Generated
  <2> QED
    BY <2>1, <2>2
<1> QED
  BY <1>1, <1>2, <1>3

LEMMA NextKeepsLocks == LoadsInv /\ NoLockLeftBehind /\ [Next]_vars => NoLockLeftBehind'
<1> SUFFICES ASSUME LoadsInv, NoLockLeftBehind, [Next]_vars PROVE NoLockLeftBehind'
  OBVIOUS
<1>1. ASSUME NEW c \in Callers, Start(c) \/ Step(c) PROVE NoLockLeftBehind'
  <2> USE DEF Flying, Filling
  <2>1. \A d \in Callers : d # c => pc'[d] = pc[d] /\ me'[d] = me[d]
    BY <1>1, StepMovesOne
  <2>2. /\ flight # None => flight \in Callers
        /\ \A i \in Insts : mu[i] # None => mu[i] \in Callers
        /\ mu \in [Insts -> Callers \union {None}] /\ pc \in [Callers -> LoadPcs] /\ TypeOK
        /\ None \notin Callers
    BY ModelLoadsAssumption DEF LoadsInv, TypeOK
  <2>3. ASSUME NEW p, GoTo(c, p) PROVE pc'[c] = p
    BY <2>2, <2>3 DEF GoTo
  \* The flight is taken, handed on through the load, and given back.
  <2>4. CASE AcquireFlight(c) \/ Register(c) \/ EnterC(c)
    <3>1. flight' = c /\ mu' = mu /\ pc'[c] \in Flying /\ pc[c] # "generate"
      BY <2>3, <2>4 DEF AcquireFlight, Register, EnterC, LoadsInv, FlightInv, locks
    <3> QED
      BY <2>1, <2>2, <3>1 DEF NoLockLeftBehind
  <2>5. CASE Refuse(c) \/ Loaded(c) \/ LoadFails(c)
    <3>1. flight' = None /\ mu' = mu /\ pc[c] # "generate"
      BY <2>5 DEF Refuse, Loaded, LoadFails
    <3> QED
      BY <2>1, <2>2, <3>1 DEF NoLockLeftBehind
  \* The mutex of an instance is taken for a generation and given back after it.
  <2>6. CASE LockInst(c)
    <3>1. pc[c] = "lockInst" /\ flight' = flight
      BY <2>6 DEF LockInst
    <3>2. CASE mu' = mu
      BY <2>1, <3>1, <3>2, BystanderKeepsLocks
    <3>3. CASE mu' # mu
      <4>1. mu' = [mu EXCEPT ![me[c]] = c] /\ me' = me /\ pc'[c] = "generate"
        BY <2>3, <2>6, <3>3 DEF LockInst
      <4> QED
        BY <2>1, <2>2, <3>1, <4>1 DEF NoLockLeftBehind
    <3> QED
      BY <3>2, <3>3
  <2>7. CASE Generated(c)
    <3>1. pc[c] = "generate" /\ flight' = flight /\ mu' = [mu EXCEPT ![me[c]] = None]
      BY <2>7 DEF Generated
    <3>2. \A i \in Insts : mu'[i] # None => mu[i] = mu'[i] /\ mu[i] # c
      BY <2>2, <3>1 DEF NoLockLeftBehind
    <3> QED
      BY <2>1, <2>2, <3>1, <3>2 DEF NoLockLeftBehind
  <2>8. CASE ~(\/ AcquireFlight(c) \/ Register(c) \/ EnterC(c) \/ Refuse(c)
               \/ Loaded(c) \/ LoadFails(c) \/ LockInst(c) \/ Generated(c))
    <3>1. pc[c] \notin Flying \union {"generate"} /\ UNCHANGED <<flight, mu>>
      <4>1. CASE Start(c)
        BY <4>1 DEF Start, locks
      <4>2. CASE ~Start(c)
        BY <1>1, <2>8, <4>2 DEF Step, Reclaim, RemoveStale, TryLockLoad, DedupByPath, Exists, UnlockLoad,
           FlightTimeout, RemoveEntry, FreeModel, ReloadGate, TryLockReload, UnloadGate,
           UnloadIfLoading, WaitAborted, IdleGate, Look, WaitReady, Lookup, locks
      <4> QED
        BY <4>1, <4>2
    <3> QED
      BY <2>1, <3>1, BystanderKeepsLocks
  <2> QED
    BY <1>1, <2>4, <2>5, <2>6, <2>7, <2>8
<1>2. CASE \E m \in Models : Age(m)
  BY <1>2 DEF Age, NoLockLeftBehind
<1>3. CASE UNCHANGED vars
  BY <1>3 DEF vars, locks, NoLockLeftBehind
<1> QED
  BY <1>1, <1>2, <1>3 DEF Next

\* Spec => []NoLockLeftBehind: no way out of a load or of a generation keeps the
\* flight or the mutex of an instance, for any number of callers and models.
THEOREM NoLockLeftBehindAlways == Spec => []NoLockLeftBehind
<1>1. Init => NoLockLeftBehind
  BY DEF Init, NoLockLeftBehind
<1> QED
  BY <1>1, InitLoadsInv, NextKeepsLoadsInv, NextKeepsLocks, PTL DEF Spec

\* Spec => []NoCircularWait: loads, reloads, unloads and chats wait for the claim
\* of a model, for the flight and for the mutex of an instance, but never in a
\* ring, for any number of callers and models.
THEOREM NoCircularWaitAlways == Spec => []NoCircularWait
<1>1. LoadsInv /\ NoLockLeftBehind => NoCircularWait
  <2> SUFFICES ASSUME LoadsInv, NoLockLeftBehind, NEW c \in Callers, NEW d \in Callers, NEW e \in Callers,
                      BlockedBy(c, d), BlockedBy(d, e)
               PROVE  pc[c] = "wait" /\ pc[e] \in Flying \union {"generate"}
    BY DEF NoCircularWait
  <2>1. None \notin Callers /\ \A x \in Callers : pc[x] \in {"lockInst", "free"} => me[x] \in Insts
    BY ModelLoadsAssumption DEF LoadsInv, TypeOK, HandInv, Holding
  \* A lock is in the hands of a caller that waits for nothing.
  <2>2. \A x, y \in Callers : BlockedBy(x, y) /\ pc[x] # "wait" => pc[y] \in Flying \union {"generate"}
    BY <2>1 DEF BlockedBy, NoLockLeftBehind, Flying, Filling
  <2>3. \A x \in Callers : pc[x] \in Flying \union {"generate"} => ~\E y \in Callers : BlockedBy(x, y)
    BY DEF BlockedBy, Flying, Filling
  <2>4. pc[c] = "wait"
    BY <2>2, <2>3
  \* The owner of a claim does not wait for a claim.
  <2>5. pc[d] # "wait"
    <3>1. on[c] \in Models /\ claim[on[c]].by = d
      BY <2>4 DEF BlockedBy, LoadsInv, TypeOK
    <3> QED
      BY <2>1, <3>1 DEF LoadsInv, ClaimInv, Owning
  <2> QED
    BY <2>2, <2>4, <2>5
<1> QED
  BY <1>1, LoadsInvariant, NoLockLeftBehindAlways, PTL

-----------------------------------------------------------------------------
(* BatchedScheduler.                                                       *)

\* What the fields of a session say of each other.
SessionInv ==
  \A s \in Seqs :
    /\ state[s].generated <= MaxTokens
    /\ ~state[s].finished => state[s].generated < MaxTokens
    /\ IF state[s].prefillDone
       THEN state[s].generated >= 1 /\ state[s].nextPos = PromptLen + state[s].generated - 1
       ELSE state[s].generated = 0 /\ state[s].nextPos = 0
    /\ Len(state[s].tokenCh) <= state[s].generated

\* Nobody knows a SeqID before it is given out.
FreshInv ==
  /\ \A s \in Seqs : s >= nextSeq =>
       /\ s \notin sessions /\ s \notin batch /\ s # cur
       /\ state[s] = NewSession /\ got[s] = <<>> /\ kv[s] = 0
  /\ \A c \in Clients : client[c] # "idle" => sid[c] \in Seqs /\ sid[c] < nextSeq

\* Run is between the update of s and the closing of its channels.
Dispatching(s) == run \in {"send", "close"} /\ cur = s

CurInv ==
  /\ run \in {"send", "close"} => cur \in Seqs
  /\ run = "close" => state[cur].finished
  /\ run = "send" => Len(state[cur].tokenCh) < state[cur].generated

\* TokenCh is closed by Run, when it is done with the session, or by the
\* client, who comes before Run only when he hangs up.
ClosedInv ==
  /\ \A s \in Seqs : state[s].closed =>
       (s \notin sessions /\ s \in hungUp) \/ (state[s].finished /\ ~Dispatching(s))
  /\ \A c \in Clients : client[c] = "leaving" => sid[c] \in hungUp \/ state[sid[c]].closed

\* The tokens of s, read or waiting, are the first ones.
InOrder(s) ==
  /\ \A i \in 1 .. Len(got[s]) : got[s][i] = i
  /\ \A i \in 1 .. Len(state[s].tokenCh) : state[s].tokenCh[i] = Len(got[s]) + i

Sent(s) == Len(got[s]) + Len(state[s].tokenCh)

OrderInv ==
  ~ctxDone => \A s \in sessions :
    /\ InOrder(s)
    /\ IF run = "send" /\ cur = s
       THEN Sent(s) = state[s].generated - 1
       ELSE \/ Sent(s) = state[s].generated
            \/ state[s].finished /\ state[s].generated = 1 /\ Sent(s) = 0

\* The tokens decoded for a session whose turn is still to come in this tick.
Ahead(s) == IF run \in {"dispatch", "send", "close"} /\ s \in batch THEN Fed(s) ELSE 0

CacheInv ==
  ~ctxDone => \A s \in Unfinished : kv[s] = state[s].nextPos + Ahead(s)

UnloadInv == unload = "detached" => run = "ended"

SchedulerInv ==
  /\ SchedulerTypeOK /\ SessionInv /\ FreshInv /\ CurInv
  /\ ClosedInv /\ OrderInv /\ CacheInv /\ UnloadInv

LEMMA SchedulerConstants ==
  /\ NParallel \in Nat /\ PromptLen \in Nat /\ MaxTokens \in Nat /\ Buf \in Nat /\ MaxSeq \in Nat
  /\ PromptLen >= 1 /\ MaxTokens >= 1 /\ MaxTokens <= Buf /\ NoSeq \notin Seqs
BY BatchedSchedulerAssumption DEF Seqs

LEMMA FedIsNat ==
  ASSUME SchedulerTypeOK, SessionInv, NEW s \in Seqs
  PROVE  Fed(s) \in Nat
<1>1. state[s] \in SessionStates
  BY DEF SchedulerTypeOK
<1> QED
  BY <1>1, SchedulerConstants DEF SessionInv, Fed, SessionStates

\* The ways in which a session is updated.
LEMMA SessionUpdates ==
  ASSUME NEW st \in SessionStates, NEW q \in Seq(Nat)
  PROVE  /\ [st EXCEPT !.tokenCh = q] \in SessionStates
         /\ [st EXCEPT !.closed = TRUE] \in SessionStates
         /\ [st EXCEPT !.closed = TRUE, !.done = TRUE] \in SessionStates
         /\ [st EXCEPT !.err = TRUE, !.finished = TRUE, !.done = TRUE] \in SessionStates
<1>1. [st EXCEPT !.tokenCh = q] \in SessionStates
  BY DEF SessionStates
<1>2. [st EXCEPT !.closed = TRUE] \in SessionStates
  BY DEF SessionStates
<1>3. [st EXCEPT !.closed = TRUE, !.done = TRUE] \in SessionStates
  BY DEF SessionStates
<1>4. [st EXCEPT !.err = TRUE, !.finished = TRUE, !.done = TRUE] \in SessionStates
  BY DEF SessionStates
<1> QED
  BY <1>1, <1>2, <1>3, <1>4

LEMMA TokenUpdate ==
  ASSUME NEW st \in SessionStates, NEW q
  PROVE  LET new == [st EXCEPT !.tokenCh = q]
         IN  /\ new.tokenCh = q /\ new.generated = st.generated /\ new.prefillDone = st.prefillDone
             /\ new.nextPos = st.nextPos /\ new.closed = st.closed /\ new.finished = st.finished
BY DEF SessionStates

LEMMA CloseUpdate ==
  ASSUME NEW st \in SessionStates
  PROVE  LET new == [st EXCEPT !.closed = TRUE, !.done = TRUE]
         IN  /\ new.tokenCh = st.tokenCh /\ new.generated = st.generated /\ new.closed
             /\ new.prefillDone = st.prefillDone /\ new.nextPos = st.nextPos
             /\ new.finished = st.finished
BY DEF SessionStates

LEMMA FailUpdate ==
  ASSUME NEW st \in SessionStates
  PROVE  LET new == [st EXCEPT !.err = TRUE, !.finished = TRUE, !.done = TRUE]
         IN  /\ new.tokenCh = st.tokenCh /\ new.generated = st.generated /\ new.closed = st.closed
             /\ new.prefillDone = st.prefillDone /\ new.nextPos = st.nextPos /\ new.finished
BY DEF SessionStates

\* Tokens move only with state and got.
LEMMA SameTokens ==
  ASSUME NEW s, state'[s].tokenCh = state[s].tokenCh, got'[s] = got[s]
  PROVE  (InOrder(s)' <=> InOrder(s)) /\ Sent(s)' = Sent(s)
BY DEF InOrder, Sent

LEMMA SameOrder ==
  ASSUME OrderInv, UNCHANGED <<state, got, sessions>>, ctxDone => ctxDone',
         ctxDone' \/ \A s : (run' = "send" /\ cur' = s) <=> (run = "send" /\ cur = s)
  PROVE  OrderInv'
<1>1. \A s : (InOrder(s)' <=> InOrder(s)) /\ Sent(s)' = Sent(s)
  BY SameTokens
<1> QED
  BY <1>1 DEF OrderInv

LEMMA InitSchedulerInv == SchedulerInit => SchedulerInv
<1> SUFFICES ASSUME SchedulerInit PROVE SchedulerInv
  OBVIOUS
<1>1. NewSession \in SessionStates
  BY DEF NewSession, SessionStates
<1>2. \A s \in Seqs : state[s] = NewSession /\ kv[s] = 0 /\ got[s] = <<>>
  BY DEF SchedulerInit
<1>3. SchedulerTypeOK
  <2>1. /\ state \in [Seqs -> SessionStates] /\ kv \in [Seqs -> Nat] /\ got \in [Seqs -> Seq(Nat)]
        /\ client \in [Clients -> {"idle", "reading", "leaving"}] /\ sid \in [Clients -> Seqs \union {NoSeq}]
    BY <1>1 DEF SchedulerInit
  <2>2. /\ nextSeq \in 1 .. MaxSeq + 1 /\ sessions \subseteq Seqs
        /\ batch \subseteq Seqs /\ cur \in Seqs \union {NoSeq} /\ hungUp \subseteq Seqs
    BY SchedulerConstants DEF SchedulerInit
  <2>3. run = "select" /\ ctxDone \in BOOLEAN /\ crashed \in BOOLEAN /\ unload = "no"
    BY DEF SchedulerInit
  <2> QED
    BY <2>1, <2>2, <2>3 DEF SchedulerTypeOK
<1>4. SessionInv
  BY <1>2, SchedulerConstants DEF SessionInv, NewSession
<1>5. FreshInv
  BY <1>2, SchedulerConstants DEF SchedulerInit, FreshInv
<1>6. ClosedInv
  BY <1>2 DEF SchedulerInit, ClosedInv, NewSession
<1>7. CurInv /\ OrderInv /\ CacheInv /\ UnloadInv
  BY DEF SchedulerInit, CurInv, OrderInv, CacheInv, Unfinished, UnloadInv
<1> QED
  BY <1>3, <1>4, <1>5, <1>6, <1>7 DEF SchedulerInv

\* Steps of Run and of the unload that touch no session: Run goes from one of
\* its regions to another, with a batch of sessions that are there.
LEMMA TurnKeepsSchedulerInv ==
  ASSUME SchedulerInv, UNCHANGED <<served, clients, crashed>>,
         run' = run \/ run' \in {"select", "lock", "decode"}, ctxDone => ctxDone',
         run' # run => run # "ended" /\ (cur' = cur \/ cur' = NoSeq),
         run' = run => cur' = cur,
         run' = run \/ run \notin {"send", "close"} \/ ctxDone,
         batch' \subseteq batch \union sessions, run' = run => batch' = batch,
         run' # run => run \notin {"dispatch"} \/ batch = {},
         ctxDone' \in BOOLEAN,
         unload' \in {"no", "wait", "detached", "forced", "freed", "torn"},
         unload' = "detached" /\ unload # "detached" => run = "ended"
  PROVE  SchedulerInv'
<1> USE DEF SchedulerInv
<1>1. /\ UNCHANGED <<nextSeq, sessions, state, kv, client, sid, got, hungUp, crashed>>
  BY DEF served, clients
<1>2. SchedulerTypeOK'
  BY <1>1 DEF SchedulerTypeOK
<1>3. SessionInv'
  BY <1>1 DEF SessionInv
<1>4. FreshInv'
  BY <1>1, SchedulerConstants DEF FreshInv
<1>5. CurInv'
  BY <1>1 DEF CurInv
<1>6. \A s : Dispatching(s)' => Dispatching(s)
  BY DEF Dispatching
<1>7. ClosedInv'
  BY <1>1, <1>6 DEF ClosedInv
<1>8. OrderInv'
  <2>1. ctxDone' \/ \A s : (run' = "send" /\ cur' = s) <=> (run = "send" /\ cur = s)
    OBVIOUS
  <2> QED
    BY <1>1, <2>1, SameOrder
<1>9. CacheInv'
  BY <1>1 DEF CacheInv, Unfinished, Ahead, Fed
<1>10. UnloadInv'
  BY DEF UnloadInv
<1> QED
  BY <1>2, <1>3, <1>4, <1>5, <1>7, <1>8, <1>9, <1>10

LEMMA TurnsKeepSchedulerInv ==
  ASSUME SchedulerInv,
         \/ Tick \/ LockModel \/ EndDispatch \/ AbandonTick
         \/ Unload \/ RunEnded \/ ForceDetach \/ FreeContext
  PROVE  SchedulerInv'
<1>1. SchedulerTypeOK
  BY DEF SchedulerInv
<1>2. CASE Tick
  BY <1>1, <1>2, TurnKeepsSchedulerInv DEF Tick, unloader, SchedulerTypeOK, Unfinished
<1>3. CASE LockModel
  BY <1>1, <1>3, TurnKeepsSchedulerInv DEF LockModel, unloader, SchedulerTypeOK
<1>4. CASE EndDispatch
  BY <1>1, <1>4, TurnKeepsSchedulerInv DEF EndDispatch, unloader, SchedulerTypeOK
<1>5. CASE AbandonTick
  BY <1>1, <1>5, TurnKeepsSchedulerInv DEF AbandonTick, unloader, SchedulerTypeOK
<1>6. CASE Unload
  BY <1>1, <1>6, TurnKeepsSchedulerInv DEF Unload, runner, SchedulerTypeOK
<1>7. CASE RunEnded
  BY <1>1, <1>7, TurnKeepsSchedulerInv DEF RunEnded, runner, SchedulerTypeOK
<1>8. CASE ForceDetach
  BY <1>1, <1>8, TurnKeepsSchedulerInv DEF ForceDetach, runner, SchedulerTypeOK
<1>9. CASE FreeContext
  BY <1>1, <1>9, TurnKeepsSchedulerInv DEF FreeContext, runner, SchedulerTypeOK
<1> QED
  BY <1>2, <1>3, <1>4, <1>5, <1>6, <1>7, <1>8, <1>9

LEMMA TailFacts ==
  ASSUME NEW q \in Seq(Nat), q # <<>>
  PROVE  /\ Tail(q) \in Seq(Nat) /\ Len(Tail(q)) = Len(q) - 1 /\ Len(q) \in Nat /\ Len(q) >= 1
         /\ Head(q) = q[1] /\ q[1] \in Nat
         /\ \A i \in 1 .. Len(q) - 1 : Tail(q)[i] = q[i + 1]
OBVIOUS

LEMMA AppendFacts ==
  ASSUME NEW q \in Seq(Nat), NEW e \in Nat
  PROVE  /\ Append(q, e) \in Seq(Nat) /\ Len(q) \in Nat /\ Len(Append(q, e)) = Len(q) + 1
         /\ Append(q, e)[Len(q) + 1] = e /\ \A i \in 1 .. Len(q) : Append(q, e)[i] = q[i]
OBVIOUS

LEMMA ConcatFacts ==
  ASSUME NEW p \in Seq(Nat), NEW q \in Seq(Nat)
  PROVE  /\ p \o q \in Seq(Nat) /\ Len(p \o q) = Len(p) + Len(q)
         /\ \A i \in 1 .. Len(p) : (p \o q)[i] = p[i]
         /\ \A i \in 1 .. Len(q) : (p \o q)[Len(p) + i] = q[i]
OBVIOUS

LEMMA RegisterSessionKeepsSchedulerInv ==
  ASSUME SchedulerInv, NEW c \in Clients, RegisterSession(c)
  PROVE  SchedulerInv'
<1> USE DEF SchedulerInv
<1>1. UNCHANGED <<state, kv, run, batch, cur, got, hungUp, ctxDone, unload, crashed>>
  BY DEF RegisterSession, runner, unloader
<1>2. /\ nextSeq \in Seqs /\ nextSeq' = nextSeq + 1 /\ sessions' = sessions \union {nextSeq}
      /\ sid' = [sid EXCEPT ![c] = nextSeq] /\ client' = [client EXCEPT ![c] = "reading"]
  BY SchedulerConstants DEF RegisterSession, SchedulerTypeOK, Seqs
<1>3. /\ state[nextSeq] = NewSession /\ got[nextSeq] = <<>> /\ kv[nextSeq] = 0
      /\ nextSeq \notin batch /\ nextSeq # cur
  BY <1>2 DEF FreshInv, Seqs
<1>4. /\ \A d \in Clients : client'[d] = (IF d = c THEN "reading" ELSE client[d])
      /\ \A d \in Clients : sid'[d] = (IF d = c THEN nextSeq ELSE sid[d])
  BY <1>2 DEF SchedulerTypeOK
<1>5. SchedulerTypeOK'
  BY <1>1, <1>2, SchedulerConstants, SMTT(30) DEF SchedulerTypeOK, Seqs
<1>6. FreshInv'
  BY <1>1, <1>2, <1>4 DEF FreshInv, Seqs
<1>7. SessionInv' /\ CurInv' /\ UnloadInv'
  BY <1>1 DEF SessionInv, CurInv, UnloadInv
<1>8. ClosedInv'
  <2>1. ~state[nextSeq].closed
    BY <1>3 DEF NewSession
  <2> QED
    BY <1>1, <1>2, <1>4, <2>1 DEF ClosedInv, Dispatching
<1>9. OrderInv'
  <2>1. Len(got[nextSeq]) = 0 /\ Len(state[nextSeq].tokenCh) = 0 /\ state[nextSeq].generated = 0
    BY <1>3 DEF NewSession
  <2>2. InOrder(nextSeq) /\ Sent(nextSeq) = 0
    BY <2>1 DEF InOrder, Sent
  <2>3. PICK n \in Seqs : n = nextSeq
    BY <1>2
  <2>4. \A r : (InOrder(r)' <=> InOrder(r)) /\ Sent(r)' = Sent(r)
    BY <1>1 DEF InOrder, Sent
  <2>5. \A r \in sessions' : r \in sessions \/ r = n
    BY <1>2, <2>3
  <2> QED
    BY <1>1, <1>3, <2>1, <2>2, <2>3, <2>4, <2>5 DEF OrderInv
<1>10. CacheInv'
  <2>1. state[nextSeq].nextPos = 0
    BY <1>3 DEF NewSession
  <2> QED
    BY <1>1, <1>2, <1>3, <2>1 DEF CacheInv, Unfinished, Ahead, Fed
<1> QED
  BY <1>5, <1>6, <1>7, <1>8, <1>9, <1>10

\* A client reads the next token, and may hang up.
LEMMA ReadKeepsSchedulerInv ==
  ASSUME SchedulerInv, NEW c \in Clients, Read(c)
  PROVE  SchedulerInv'
<1> USE DEF SchedulerInv
<1>1. UNCHANGED <<nextSeq, sessions, kv, run, batch, cur, sid, ctxDone, unload, crashed>>
  BY DEF Read, runner, unloader
<1>2. PICK s \in Seqs : s = sid[c] /\ s < nextSeq
  BY DEF Read, FreshInv
<1>3. /\ state[s].tokenCh # <<>> /\ state' = [state EXCEPT ![s].tokenCh = Tail(@)]
      /\ got' = [got EXCEPT ![s] = Append(@, Head(state[s].tokenCh))]
      /\ \/ client' = client /\ hungUp' = hungUp
         \/ client' = [client EXCEPT ![c] = "leaving"] /\ hungUp' = hungUp \union {s}
  BY <1>2 DEF Read
<1>4. /\ state \in [Seqs -> SessionStates] /\ state[s].tokenCh \in Seq(Nat) /\ got[s] \in Seq(Nat)
  BY SMTT(30) DEF SchedulerTypeOK, SessionStates
<1>5. /\ state'[s].tokenCh = Tail(state[s].tokenCh)
      /\ state' \in [Seqs -> SessionStates] /\ \A r \in Seqs : r # s => state'[r] = state[r]
      /\ \A r \in Seqs : /\ state'[r].generated = state[r].generated /\ state'[r].nextPos = state[r].nextPos
                         /\ state'[r].prefillDone = state[r].prefillDone
                         /\ state'[r].finished = state[r].finished /\ state'[r].closed = state[r].closed
  <2>1. state[s] \in SessionStates /\ Tail(state[s].tokenCh) \in Seq(Nat)
    BY <1>3, <1>4, TailFacts
  <2>2. PICK new \in SessionStates : new = [state[s] EXCEPT !.tokenCh = Tail(state[s].tokenCh)]
    BY <2>1, SessionUpdates
  <2>3. /\ new.tokenCh = Tail(state[s].tokenCh)
        /\ new.generated = state[s].generated /\ new.prefillDone = state[s].prefillDone
        /\ new.nextPos = state[s].nextPos /\ new.closed = state[s].closed
        /\ new.finished = state[s].finished
    BY <2>1, <2>2, TokenUpdate
  <2>4. state' = [state EXCEPT ![s] = new]
    BY <1>3, <2>2
  <2>5. /\ state' \in [Seqs -> SessionStates] /\ state'[s] = new
        /\ \A r \in Seqs : r # s => state'[r] = state[r]
    BY <1>4, <2>4
  <2> QED
    BY <2>3, <2>5
<1>6. /\ got'[s] = Append(got[s], Head(state[s].tokenCh)) /\ Head(state[s].tokenCh) \in Nat
      /\ got' \in [Seqs -> Seq(Nat)] /\ \A r \in Seqs : r # s => got'[r] = got[r]
  <2>1. Head(state[s].tokenCh) \in Nat
    BY <1>3, <1>4, TailFacts
  <2>2. Append(got[s], Head(state[s].tokenCh)) \in Seq(Nat)
    BY <1>4, <2>1, AppendFacts
  <2> QED
    BY <1>3, <2>1, <2>2 DEF SchedulerTypeOK
<1>7. /\ Len(state'[s].tokenCh) = Len(state[s].tokenCh) - 1
      /\ Len(state[s].tokenCh) \in Nat /\ Len(state[s].tokenCh) >= 1
      /\ \A i \in 1 .. Len(state[s].tokenCh) - 1 : state'[s].tokenCh[i] = state[s].tokenCh[i + 1]
      /\ Head(state[s].tokenCh) = state[s].tokenCh[1]
  BY <1>3, <1>4, <1>5, TailFacts
<1>8. /\ Len(got[s]) \in Nat /\ Len(got'[s]) = Len(got[s]) + 1
      /\ got'[s][Len(got[s]) + 1] = state[s].tokenCh[1]
      /\ \A i \in 1 .. Len(got[s]) : got'[s][i] = got[s][i]
  BY <1>4, <1>6, <1>7, AppendFacts
<1>9. /\ client' \in [Clients -> {"idle", "reading", "leaving"}] /\ hungUp \subseteq hungUp' /\ hungUp' \subseteq Seqs
      /\ \A d \in Clients : client'[d] = client[d] \/ (d = c /\ client'[d] = "leaving" /\ s \in hungUp')
  BY <1>3 DEF SchedulerTypeOK
<1>10. client[c] = "reading"
  BY DEF Read
<1>11. SchedulerTypeOK'
  BY <1>1, <1>5, <1>6, <1>9 DEF SchedulerTypeOK
<1>12. \A r \in Seqs : /\ state[r].generated \in Nat /\ Len(state[r].tokenCh) \in Nat
                      /\ Len(state'[r].tokenCh) \in Nat /\ Len(state'[r].tokenCh) <= Len(state[r].tokenCh)
  <2>1. \A r \in Seqs : state[r].generated \in Nat /\ Len(state[r].tokenCh) \in Nat
    BY <1>4 DEF SessionStates
  <2>2. Len(state'[s].tokenCh) \in Nat /\ Len(state'[s].tokenCh) <= Len(state[s].tokenCh)
    <3>1. PICK n \in Nat : n = Len(state[s].tokenCh) /\ n >= 1
      BY <1>7
    <3>2. Len(state'[s].tokenCh) = n - 1
      BY <1>7, <3>1
    <3> QED
      BY <3>1, <3>2
  <2>3. \A r \in Seqs : r # s => state'[r] = state[r]
    BY <1>5
  <2> QED
    BY <2>1, <2>2, <2>3
<1>13. SessionInv'
  BY <1>5, <1>12 DEF SessionInv
<1>14. FreshInv'
  <2>1. nextSeq \in Nat
    BY SchedulerConstants DEF SchedulerTypeOK
  <2>2. \A r \in Seqs : r >= nextSeq => r # s
    BY <1>2, <2>1, SchedulerConstants DEF Seqs
  <2> QED
    BY <1>1, <1>5, <1>6, <1>9, <1>10, <2>2 DEF FreshInv
<1>15. CurInv'
  BY <1>1, <1>5, <1>12 DEF CurInv
<1>16. ClosedInv'
  BY <1>1, <1>2, <1>5, <1>9, <1>10 DEF ClosedInv, Dispatching, FreshInv
<1>17. OrderInv'
  <2>1. InOrder(s) => InOrder(s)'
    <3> SUFFICES ASSUME InOrder(s) PROVE InOrder(s)'
      OBVIOUS
    <3>1. PICK n \in Nat, m \in Nat : n = Len(state[s].tokenCh) /\ m = Len(got[s]) /\ n >= 1
      BY <1>7, <1>8
    <3>2. Len(state'[s].tokenCh) = n - 1 /\ Len(got'[s]) = m + 1
      BY <1>7, <1>8, <3>1
    <3>3. (\A i \in 1 .. m : got[s][i] = i) /\ (\A i \in 1 .. n : state[s].tokenCh[i] = m + i)
      BY <3>1 DEF InOrder
    <3>4. ASSUME NEW i \in 1 .. m + 1 PROVE got'[s][i] = i
      <4>1. CASE i = m + 1
        <5>1. got'[s][m + 1] = state[s].tokenCh[1]
          BY <1>8, <3>1
        <5>2. state[s].tokenCh[1] = m + 1
          BY <3>1, <3>3
        <5> QED
          BY <4>1, <5>1, <5>2
      <4>2. CASE i # m + 1
        <5>1. i \in 1 .. m
          BY <4>2
        <5>2. got'[s][i] = got[s][i]
          BY <1>8, <3>1, <5>1
        <5> QED
          BY <3>3, <5>1, <5>2
      <4> QED
        BY <4>1, <4>2
    <3>5. ASSUME NEW i \in 1 .. n - 1 PROVE state'[s].tokenCh[i] = (m + 1) + i
      <4>1. state'[s].tokenCh[i] = state[s].tokenCh[i + 1]
        BY <1>7, <3>1
      <4>2. i + 1 \in 1 .. n
        BY <3>1
      <4>3. state[s].tokenCh[i + 1] = m + (i + 1)
        BY <3>3, <4>2
      <4>4. m + (i + 1) = (m + 1) + i
        OBVIOUS
      <4> QED
        BY <4>1, <4>3, <4>4
    <3> QED
      BY <3>2, <3>4, <3>5 DEF InOrder
  <2>2. Sent(s)' = Sent(s)
    <3>1. PICK n \in Nat, m \in Nat : n = Len(state[s].tokenCh) /\ m = Len(got[s]) /\ n >= 1
      BY <1>7, <1>8
    <3>2. Len(state'[s].tokenCh) = n - 1 /\ Len(got'[s]) = m + 1
      BY <1>7, <1>8, <3>1
    <3>3. Sent(s)' = (m + 1) + (n - 1)
      BY <3>2 DEF Sent
    <3>4. Sent(s) = m + n
      BY <3>1 DEF Sent
    <3>5. (m + 1) + (n - 1) = m + n
      OBVIOUS
    <3> QED
      BY <3>3, <3>4, <3>5, Zenon
  <2>3. \A r \in Seqs : r # s => (InOrder(r)' <=> InOrder(r)) /\ Sent(r)' = Sent(r)
    BY <1>5, <1>6, SameTokens
  <2> QED
    BY <1>1, <1>5, <2>1, <2>2, <2>3 DEF OrderInv, SchedulerTypeOK
<1>18. CacheInv'
  BY <1>1, <1>5, ZenonT(30) DEF CacheInv, Unfinished, Ahead, Fed, SchedulerTypeOK
<1>19. UnloadInv'
  BY <1>1 DEF UnloadInv
<1> QED
  BY <1>11, <1>13, <1>14, <1>15, <1>16, <1>17, <1>18, <1>19

\* The session of a client that is done goes, with its TokenCh closed unless a
\* token is still in it.
LEMMA UnregisterSessionKeepsSchedulerInv ==
  ASSUME SchedulerInv, NEW c \in Clients, UnregisterSession(c)
  PROVE  SchedulerInv'
<1> USE DEF SchedulerInv
<1>1. /\ UNCHANGED <<nextSeq, kv, run, batch, cur, hungUp, ctxDone, unload, crashed>>
      /\ client[c] = "leaving"
  BY DEF UnregisterSession, runner, unloader
<1>2. PICK s \in Seqs : s = sid[c] /\ s < nextSeq
  BY <1>1 DEF FreshInv
<1>3. /\ state \in [Seqs -> SessionStates] /\ state[s].tokenCh \in Seq(Nat)
      /\ s \in hungUp \/ state[s].closed
  BY <1>1, <1>2 DEF SchedulerTypeOK, SessionStates, ClosedInv
<1> DEFINE st == IF state[s].finished THEN state[s]
                 ELSE [state[s] EXCEPT !.err = TRUE, !.finished = TRUE, !.done = TRUE]
           new == IF st.tokenCh # <<>> THEN [st EXCEPT !.tokenCh = Tail(st.tokenCh)]
                                       ELSE [st EXCEPT !.closed = TRUE]
<1>4. /\ state' = [state EXCEPT ![s] = new] /\ sessions' = sessions \ {s}
      /\ client' = [client EXCEPT ![c] = "idle"] /\ sid' = [sid EXCEPT ![c] = NoSeq]
      /\ got' = [got EXCEPT ![s] = <<>>]
  BY <1>2 DEF UnregisterSession
<1>5. st \in SessionStates /\ st.tokenCh = state[s].tokenCh /\ st.finished
  BY <1>3 DEF SessionStates
<1>6. /\ new \in SessionStates /\ new.finished /\ new.generated = state[s].generated
      /\ new.nextPos = state[s].nextPos /\ new.prefillDone = state[s].prefillDone
      /\ new.tokenCh = state[s].tokenCh \/ (state[s].tokenCh # <<>> /\ new.tokenCh = Tail(state[s].tokenCh))
  <2>1. CASE st.tokenCh # <<>>
    <3>1. Tail(state[s].tokenCh) \in Seq(Nat)
      BY <1>3, <1>5, <2>1, TailFacts
    <3> QED
      BY <1>3, <1>5, <2>1, <3>1, ZenonT(30) DEF SessionStates
  <2>2. CASE st.tokenCh = <<>>
    BY <1>3, <1>5, <2>2, ZenonT(30) DEF SessionStates
  <2> QED
    BY <2>1, <2>2
<1>7. Len(new.tokenCh) \in Nat /\ Len(new.tokenCh) <= Len(state[s].tokenCh)
  <2>1. CASE new.tokenCh = state[s].tokenCh
    BY <1>3, <2>1
  <2>2. CASE state[s].tokenCh # <<>> /\ new.tokenCh = Tail(state[s].tokenCh)
    <3>1. PICK n \in Nat : n = Len(state[s].tokenCh) /\ n >= 1
      BY <1>3, <2>2, TailFacts
    <3>2. Len(new.tokenCh) = n - 1
      BY <1>3, <2>2, <3>1, TailFacts
    <3> QED
      BY <3>1, <3>2
  <2> QED
    BY <1>6, <2>1, <2>2
<1>8. state' \in [Seqs -> SessionStates] /\ state'[s] = new /\ \A r \in Seqs : r # s => state'[r] = state[r]
  BY <1>3, <1>4, <1>6
<1> HIDE DEF st, new
<1>9. got' \in [Seqs -> Seq(Nat)] /\ \A r \in Seqs : r # s => got'[r] = got[r]
  BY <1>4 DEF SchedulerTypeOK
<1>10. \A d \in Clients : d # c => client'[d] = client[d] /\ sid'[d] = sid[d]
  BY <1>4 DEF SchedulerTypeOK
<1>11. client'[c] = "idle"
  BY <1>4 DEF SchedulerTypeOK
<1>12. SchedulerTypeOK'
  BY <1>1, <1>4, <1>8, <1>9 DEF SchedulerTypeOK
<1>13. \A r \in Seqs : state[r].generated \in Nat /\ Len(state[r].tokenCh) \in Nat
  BY <1>3 DEF SessionStates
<1>14. \A r \in Seqs : /\ state'[r].generated = state[r].generated /\ state'[r].prefillDone = state[r].prefillDone
                      /\ state'[r].nextPos = state[r].nextPos
                      /\ (state[r].finished => state'[r].finished)
                      /\ Len(state'[r].tokenCh) \in Nat /\ Len(state'[r].tokenCh) <= Len(state[r].tokenCh)
  BY <1>6, <1>7, <1>8, <1>13
<1>15. SessionInv'
  BY <1>13, <1>14 DEF SessionInv
<1>16. FreshInv'
  <2>1. nextSeq \in Nat
    BY SchedulerConstants DEF SchedulerTypeOK
  <2>2. \A r \in Seqs : r >= nextSeq => r # s
    BY <1>2, <2>1, SchedulerConstants DEF Seqs
  <2> QED
    BY <1>1, <1>4, <1>8, <1>9, <1>10, <1>11, <2>2 DEF FreshInv
<1>17. CurInv'
  BY <1>1, <1>13, <1>14 DEF CurInv
<1>18. ClosedInv'
  <2>1. state'[s].closed => (s \notin sessions' /\ s \in hungUp) \/ (state'[s].finished /\ ~Dispatching(s))
    BY <1>3, <1>4, <1>6, <1>8 DEF ClosedInv
  <2>2. state[s].closed => state'[s].closed
    BY <1>3, <1>5, <1>8 DEF new, st, SessionStates
  <2> QED
    BY <1>1, <1>4, <1>8, <1>10, <1>11, <2>1, <2>2 DEF ClosedInv, Dispatching, FreshInv
<1>19. OrderInv'
  <2>1. \A r \in sessions' : r \in Seqs /\ r # s /\ r \in sessions
    BY <1>4 DEF SchedulerTypeOK
  <2>2. \A r \in Seqs : r # s => (InOrder(r)' <=> InOrder(r)) /\ Sent(r)' = Sent(r)
    BY <1>8, <1>9 DEF InOrder, Sent
  <2> QED
    BY <1>1, <1>8, <2>1, <2>2 DEF OrderInv
<1>20. CacheInv'
  <2>1. \A r \in Unfinished' : r \in Seqs /\ r # s /\ r \in Unfinished
    BY <1>4, <1>8 DEF SchedulerTypeOK, Unfinished
  <2> QED
    BY <1>1, <1>8, <2>1 DEF CacheInv, Ahead, Fed
<1>21. UnloadInv'
  BY <1>1 DEF UnloadInv
<1> QED
  BY <1>12, <1>15, <1>16, <1>17, <1>18, <1>19, <1>20, <1>21

LEMMA ReadClosedKeepsSchedulerInv ==
  ASSUME SchedulerInv, NEW c \in Clients, ReadClosed(c)
  PROVE  SchedulerInv'
<1> USE DEF SchedulerInv
<1>1. /\ UNCHANGED <<nextSeq, sessions, state, kv, run, batch, cur, sid, got, hungUp, ctxDone,
                     unload, crashed>>
      /\ client[c] = "reading" /\ state[sid[c]].closed /\ client' = [client EXCEPT ![c] = "leaving"]
  BY DEF ReadClosed, served, runner, unloader
<1>2. /\ SchedulerTypeOK'
      /\ \A d \in Clients : client'[d] = IF d = c THEN "leaving" ELSE client[d]
  BY <1>1 DEF SchedulerTypeOK
<1>3. FreshInv' /\ ClosedInv'
  BY <1>1, <1>2 DEF FreshInv, ClosedInv, Dispatching
<1>4. SessionInv' /\ CurInv' /\ UnloadInv'
  BY <1>1 DEF SessionInv, CurInv, UnloadInv
<1>5. OrderInv'
  BY <1>1, SameOrder
<1>6. CacheInv'
  BY <1>1 DEF CacheInv, Unfinished, Ahead, Fed
<1> QED
  BY <1>2, <1>3, <1>4, <1>5, <1>6

LEMMA MarkKeepsSchedulerInv ==
  ASSUME SchedulerInv, MarkAllSessionsFinished,
         UNCHANGED <<nextSeq, sessions, kv, cur, clients, unloader, crashed>>,
         run \notin {"send", "close", "ended"}, run' \in {"select", "ended"}, batch' \subseteq batch
  PROVE  SchedulerInv'
<1> USE DEF SchedulerInv
<1>1. UNCHANGED <<nextSeq, sessions, kv, cur, client, sid, got, hungUp, ctxDone, unload, crashed>>
  BY DEF clients, unloader
<1>2. state \in [Seqs -> SessionStates]
  BY DEF SchedulerTypeOK
<1>3. /\ state' \in [Seqs -> SessionStates]
      /\ \A r \in Seqs : r \notin sessions => state'[r] = state[r]
      /\ \A r \in Seqs : r \in sessions => state'[r].finished
      /\ \A r \in Seqs :
           /\ state'[r].generated = state[r].generated /\ state'[r].prefillDone = state[r].prefillDone
           /\ state'[r].nextPos = state[r].nextPos /\ state'[r].tokenCh = state[r].tokenCh
           /\ state'[r].closed = state[r].closed /\ (state[r].finished => state'[r].finished)
  <2> DEFINE new(r) == [state[r] EXCEPT !.err = TRUE, !.finished = TRUE, !.done = TRUE]
  <2>1. \A r \in Seqs : state[r] \in SessionStates
    BY <1>2, SMTT(30)
  <2>2. \A r \in Seqs : new(r) \in SessionStates
    <3>1. <<>> \in Seq(Nat)
      OBVIOUS
    <3> QED
      BY <2>1, <3>1, SessionUpdates
  <2>3. \A r \in Seqs :
          /\ new(r).tokenCh = state[r].tokenCh /\ new(r).generated = state[r].generated
          /\ new(r).closed = state[r].closed /\ new(r).prefillDone = state[r].prefillDone
          /\ new(r).nextPos = state[r].nextPos /\ new(r).finished
    BY <2>1, FailUpdate
  <2>4. state' = [r \in Seqs |-> IF r \in sessions /\ ~state[r].finished THEN new(r) ELSE state[r]]
    BY DEF MarkAllSessionsFinished
  <2> HIDE DEF new
  <2>5. state' \in [Seqs -> SessionStates]
    BY <2>1, <2>2, <2>4
  <2>6. \A r \in Seqs :
          state'[r] = IF r \in sessions /\ ~state[r].finished THEN new(r) ELSE state[r]
    BY <2>4
  <2> QED
    BY <2>3, <2>5, <2>6
<1>4. SchedulerTypeOK'
  BY <1>1, <1>3 DEF SchedulerTypeOK
<1>5. SessionInv'
  BY <1>3 DEF SessionInv
<1>6. FreshInv'
  BY <1>1, <1>3 DEF FreshInv
<1>7. CurInv' /\ UnloadInv'
  BY <1>1 DEF CurInv, UnloadInv
<1>8. ClosedInv'
  BY <1>1, <1>3 DEF ClosedInv, Dispatching, FreshInv
<1>9. OrderInv'
  <2>1. \A r \in Seqs : (InOrder(r)' <=> InOrder(r)) /\ Sent(r)' = Sent(r)
    BY <1>1, <1>3, SameTokens
  <2>2. \A r \in sessions : r \in Seqs
    BY DEF SchedulerTypeOK
  <2> QED
    BY <1>1, <1>3, <2>1, <2>2 DEF OrderInv
<1>10. CacheInv'
  BY <1>1, <1>3 DEF CacheInv, Unfinished, SchedulerTypeOK
<1> QED
  BY <1>4, <1>5, <1>6, <1>7, <1>8, <1>9, <1>10

\* A batch puts its sessions where the next token is due.
LEMMA DecodesKeepSchedulerInv ==
  ASSUME SchedulerInv, DecodeOk \/ DecodeFails \/ StopRun
  PROVE  SchedulerInv'
<1> USE DEF SchedulerInv
<1>1. CASE DecodeFails
  BY <1>1, MarkKeepsSchedulerInv DEF DecodeFails
<1>2. CASE StopRun
  BY <1>2, MarkKeepsSchedulerInv DEF StopRun
<1>3. CASE DecodeOk
  <2>1. /\ UNCHANGED <<nextSeq, sessions, state, batch, cur, client, sid, got, hungUp, ctxDone,
                       unload, crashed>>
        /\ run = "decode" /\ run' = "dispatch" /\ \A s \in batch : kv[s] = state[s].nextPos
    BY <1>3 DEF DecodeOk, clients, unloader, Accepted
  <2>2. kv' = [s \in Seqs |-> IF s \in batch THEN kv[s] + Fed(s) ELSE kv[s]]
    BY <1>3 DEF DecodeOk
  <2>3. \A s \in Seqs : kv[s] \in Nat /\ Fed(s) \in Nat
    BY FedIsNat DEF SchedulerTypeOK
  <2>4. SchedulerTypeOK'
    BY <2>1, <2>2, <2>3 DEF SchedulerTypeOK
  <2>5. SessionInv' /\ CurInv' /\ UnloadInv'
    BY <2>1 DEF SessionInv, CurInv, UnloadInv
  <2>6. FreshInv'
    BY <2>1, <2>2 DEF FreshInv
  <2>7. ClosedInv'
    BY <2>1 DEF ClosedInv, Dispatching
  <2>8. OrderInv'
    BY <2>1, SameOrder
  <2>9. CacheInv'
    <3> SUFFICES ASSUME ~ctxDone, NEW s \in Unfinished
                 PROVE  kv'[s] = state[s].nextPos + Ahead(s)'
      BY <2>1 DEF CacheInv, Unfinished
    <3>1. s \in Seqs /\ kv[s] = state[s].nextPos
      BY <2>1 DEF CacheInv, Ahead, Unfinished, SchedulerTypeOK, SessionStates
    <3>2. Fed(s)' = Fed(s)
      BY <2>1 DEF Fed
    <3>3. Ahead(s)' = IF s \in batch THEN Fed(s) ELSE 0
      BY <2>1, <3>2 DEF Ahead
    <3> QED
      BY <2>2, <2>3, <3>1, <3>3
  <2> QED
    BY <2>4, <2>5, <2>6, <2>7, <2>9, <2>8
<1> QED
  BY <1>1, <1>2, <1>3

LEMMA SkipFinishedKeepsSchedulerInv ==
  ASSUME SchedulerInv, NEW s \in Seqs, SkipFinished(s)
  PROVE  SchedulerInv'
<1> USE DEF SchedulerInv
<1>1. /\ UNCHANGED <<nextSeq, sessions, state, kv, run, cur, client, sid, got, hungUp, ctxDone,
                     unload, crashed>>
      /\ state[s].finished /\ batch' = batch \ {s}
  BY DEF SkipFinished, served, clients, unloader
<1>2. SchedulerTypeOK' /\ FreshInv'
  BY <1>1 DEF SchedulerTypeOK, FreshInv
<1>3. SessionInv' /\ CurInv' /\ UnloadInv'
  BY <1>1 DEF SessionInv, CurInv, UnloadInv
<1>4. ClosedInv'
  BY <1>1 DEF ClosedInv, Dispatching
<1>5. OrderInv'
  BY <1>1, SameOrder
<1>6. CacheInv'
  BY <1>1 DEF CacheInv, Unfinished, Ahead, Fed
<1> QED
  BY <1>2, <1>3, <1>6, <1>4, <1>5

\* The update of a session whose token has been sampled: the token is counted,
\* and not yet sent.
LEMMA SampleKeepsSchedulerInv ==
  ASSUME SchedulerInv, NEW s \in Seqs, Sample(s)
  PROVE  SchedulerInv'
<1> USE DEF SchedulerInv
<1>1. /\ UNCHANGED <<nextSeq, sessions, kv, client, sid, got, hungUp, ctxDone, unload, crashed>>
      /\ run = "dispatch" /\ s \in batch /\ ~state[s].finished
      /\ batch' = batch \ {s} /\ cur' = s /\ run' = "send"
  BY DEF Sample, clients, unloader
<1>2. state \in [Seqs -> SessionStates] /\ s < nextSeq
  <2>1. nextSeq \in Nat /\ s \in Nat
    BY SchedulerConstants DEF SchedulerTypeOK, Seqs
  <2> QED
    BY <1>1, <2>1 DEF SchedulerTypeOK, FreshInv
<1>3. /\ state[s].generated \in Nat /\ state[s].nextPos \in Nat /\ Len(state[s].tokenCh) \in Nat
      /\ state[s].prefillDone \in BOOLEAN
  BY <1>2 DEF SessionStates
<1>4. PICK n \in Nat, pos \in Nat, fin \in BOOLEAN :
        /\ n = state[s].generated + 1 /\ (n >= MaxTokens => fin)
        /\ pos = (IF state[s].prefillDone THEN state[s].nextPos + 1 ELSE PromptLen)
        /\ state' = [state EXCEPT ![s] =
             [state[s] EXCEPT !.prefillDone = TRUE, !.nextPos = pos, !.generated = n, !.finished = fin]]
  <2>1. PICK eog \in BOOLEAN :
          state' = [state EXCEPT ![s] =
            [state[s] EXCEPT !.prefillDone = TRUE,
                             !.nextPos = IF state[s].prefillDone THEN state[s].nextPos + 1 ELSE PromptLen,
                             !.generated = state[s].generated + 1,
                             !.finished = eog \/ state[s].generated + 1 >= MaxTokens]]
    BY DEF Sample
  <2>2. PICK n \in Nat, pos \in Nat :
          /\ n = state[s].generated + 1
          /\ pos = (IF state[s].prefillDone THEN state[s].nextPos + 1 ELSE PromptLen)
    <3>1. CASE state[s].prefillDone
      BY <1>3, <3>1
    <3>2. CASE ~state[s].prefillDone
      BY <1>3, <3>2, SchedulerConstants
    <3> QED
      BY <3>1, <3>2
  <2>3. PICK fin \in BOOLEAN : fin = (eog \/ n >= MaxTokens)
    OBVIOUS
  <2> QED
    BY <2>1, <2>2, <2>3
<1>5. /\ state' \in [Seqs -> SessionStates] /\ \A r \in Seqs : r # s => state'[r] = state[r]
      /\ state'[s].prefillDone /\ state'[s].generated = n
      /\ state'[s].nextPos = pos /\ (state'[s].finished <=> fin)
      /\ state'[s].tokenCh = state[s].tokenCh /\ state'[s].closed = state[s].closed
  <2>1. state[s] \in SessionStates
    BY <1>2
  <2> DEFINE st == [state[s] EXCEPT !.prefillDone = TRUE, !.nextPos = pos, !.generated = n, !.finished = fin]
  <2>2. st \in SessionStates
    BY <2>1 DEF SessionStates
  <2>3. /\ st.generated = n /\ st.nextPos = pos
        /\ st.tokenCh = state[s].tokenCh /\ st.closed = state[s].closed
    BY <2>1 DEF SessionStates
  <2>4. st.prefillDone = TRUE /\ st.finished = fin
    BY <2>1 DEF SessionStates
  <2>5. state' = [state EXCEPT ![s] = st]
    BY <1>4
  <2> HIDE DEF st
  <2>6. state' \in [Seqs -> SessionStates] /\ state'[s] = st /\ \A r \in Seqs : r # s => state'[r] = state[r]
    BY <1>2, <2>2, <2>5
  <2> QED
    BY <2>6, <2>3, <2>4
<1>6. SchedulerTypeOK'
  BY <1>1, <1>5 DEF SchedulerTypeOK
<1>7. SessionInv'
  <2>1. state[s].generated < MaxTokens /\ Len(state[s].tokenCh) <= state[s].generated
    BY <1>1 DEF SessionInv
  <2>2. /\ state'[s].generated <= MaxTokens /\ (~state'[s].finished => state'[s].generated < MaxTokens)
        /\ Len(state'[s].tokenCh) <= state'[s].generated
    BY <1>5, <1>3, <1>4, <2>1, SchedulerConstants, SMTT(30)
  <2>3. state'[s].prefillDone /\ state'[s].generated >= 1
    BY <1>5, <1>3, <1>4
  <2>4. state'[s].nextPos = PromptLen + state'[s].generated - 1
    <3>1. CASE state[s].prefillDone
      <4>1. state[s].nextPos = PromptLen + state[s].generated - 1
        BY <3>1 DEF SessionInv
      <4>2. pos = state[s].nextPos + 1 /\ n = state[s].generated + 1
        BY <1>4, <3>1
      <4>3. PICK k \in Nat : k = state[s].generated
        BY <1>3
      <4>4. pos = PromptLen + k - 1 + 1 /\ n = k + 1
        BY <4>1, <4>2, <4>3
      <4>5. pos = PromptLen + n - 1
        BY <4>4, SchedulerConstants
      <4> QED
        BY <1>5, <4>5
    <3>2. CASE ~state[s].prefillDone
      <4>1. state[s].generated = 0
        BY <3>2 DEF SessionInv
      <4> QED
        BY <1>5, <1>4, <3>2, <4>1, SchedulerConstants
    <3> QED
      BY <3>1, <3>2
  <2> QED
    BY <1>5, <2>2, <2>3, <2>4 DEF SessionInv
<1>8. FreshInv'
  <2>1. nextSeq \in Nat /\ \A r \in Seqs : r >= nextSeq => r # s
    BY <1>2, SchedulerConstants DEF SchedulerTypeOK, Seqs
  <2> QED
    BY <1>1, <1>5, <2>1 DEF FreshInv
<1>9. CurInv'
  BY <1>1, <1>5, <1>3, <1>4 DEF CurInv, SessionInv
<1>10. ClosedInv'
  BY <1>1, <1>5 DEF ClosedInv, Dispatching, FreshInv
<1>11. OrderInv'
  <2>1. \A r \in Seqs : state'[r].tokenCh = state[r].tokenCh
    BY <1>5
  <2>2. \A r \in Seqs : InOrder(r)' <=> InOrder(r)
    BY <1>1, <2>1, SameTokens
  <2>3. \A r \in Seqs : Sent(r)' = Sent(r)
    BY <1>1, <2>1, SameTokens
  <2> QED
    <3> SUFFICES ASSUME ~ctxDone, NEW r \in sessions
                 PROVE  /\ InOrder(r)'
                        /\ IF r = s THEN Sent(r)' = state'[r].generated - 1
                           ELSE \/ Sent(r)' = state'[r].generated
                                \/ state'[r].finished /\ state'[r].generated = 1 /\ Sent(r)' = 0
      BY <1>1 DEF OrderInv
    <3>1. r \in Seqs
      BY DEF SchedulerTypeOK
    <3>2. CASE r = s
      <4>1. InOrder(s) /\ Sent(s) = state[s].generated
        BY <1>1, <3>2 DEF OrderInv
      <4> QED
        BY <1>5, <1>3, <1>4, <2>2, <2>3, <3>2, <4>1
    <3>3. CASE r # s
      BY <1>1, <1>5, <2>2, <2>3, <3>1, <3>3 DEF OrderInv
    <3> QED
      BY <3>2, <3>3
<1>12. CacheInv'
  <2> SUFFICES ASSUME ~ctxDone, NEW r \in sessions, ~state'[r].finished
               PROVE  kv[r] = state'[r].nextPos + Ahead(r)'
    BY <1>1 DEF CacheInv, Unfinished
  <2>1. CASE r = s
    <3>1. kv[s] = state[s].nextPos + Fed(s)
      BY <1>1, <2>1 DEF CacheInv, Unfinished, Ahead
    <3>2. kv[s] = state'[s].nextPos
      BY <1>5, <1>3, <1>4, <3>1, SchedulerConstants DEF Fed, SessionInv
    <3>3. Ahead(s)' = 0 /\ state'[s].nextPos \in Nat
      BY <1>1, <1>5 DEF Ahead, SessionStates
    <3> QED
      BY <2>1, <3>2, <3>3
  <2>2. CASE r # s
    <3>1. r \in Seqs
      BY DEF SchedulerTypeOK
    <3> QED
      BY <1>1, <1>5, <2>2, <3>1 DEF CacheInv, Unfinished, Ahead, Fed
  <2> QED
    BY <2>1, <2>2
<1>13. UnloadInv'
  BY <1>1 DEF UnloadInv
<1> QED
  BY <1>6, <1>7, <1>8, <1>9, <1>10, <1>11, <1>12, <1>13

\* A token is sent to a channel that is open, or is the only one and not sent,
\* or ends the program.
LEMMA SendKeepsSchedulerInv ==
  ASSUME SchedulerInv, Send
  PROVE  SchedulerInv'
<1> USE DEF SchedulerInv
<1>1. /\ UNCHANGED <<nextSeq, sessions, kv, batch, client, sid, got, hungUp, ctxDone, unload>>
      /\ run = "send"
  BY DEF Send, clients, unloader
<1>2. PICK s \in Seqs : s = cur
  BY <1>1 DEF CurInv
<1>3. /\ state \in [Seqs -> SessionStates] /\ state[s].tokenCh \in Seq(Nat)
      /\ state[s].generated \in Nat /\ Len(state[s].tokenCh) \in Nat
      /\ Len(state[s].tokenCh) < state[s].generated /\ Len(got[s]) \in Nat
  BY <1>1, <1>2 DEF SchedulerTypeOK, SessionStates, CurInv
<1>4. \/ run' = "close" /\ cur' = cur /\ state[s].finished
      \/ run' = "dispatch" /\ cur' = NoSeq
  BY <1>2 DEF Send, Dispatched
<1>5. cur' \in Seqs \union {NoSeq} /\ (cur' = s => run' = "close") /\ (cur' # s => run' = "dispatch")
  BY <1>2, <1>4, SchedulerConstants
<1>6. CASE state' = state /\ (s \in sessions => state[s].finished /\ state[s].generated = 1)
  <2>1. crashed' \in BOOLEAN
    BY DEF Send, SchedulerTypeOK
  <2>2. SchedulerTypeOK'
    BY <1>1, <1>4, <1>5, <1>6, <2>1 DEF SchedulerTypeOK
  <2>3. SessionInv' /\ CurInv' /\ UnloadInv'
    BY <1>1, <1>2, <1>4, <1>6 DEF SessionInv, CurInv, UnloadInv
  <2>4. FreshInv'
    BY <1>1, <1>2, <1>4, <1>6, SchedulerConstants DEF FreshInv
  <2>5. ClosedInv'
    BY <1>1, <1>2, <1>4, <1>6 DEF ClosedInv, Dispatching
  <2>6. OrderInv'
    <3>1. \A r : (InOrder(r)' <=> InOrder(r)) /\ Sent(r)' = Sent(r)
      BY <1>1, <1>6 DEF InOrder, Sent
    <3>2. ~ctxDone /\ s \in sessions => Sent(s) = 0
      BY <1>1, <1>2, <1>6 DEF OrderInv
    <3> QED
      BY <1>1, <1>2, <1>4, <1>6, <3>1, <3>2 DEF OrderInv
  <2>7. CacheInv'
    BY <1>1, <1>4, <1>6 DEF CacheInv, Unfinished, Ahead, Fed
  <2> QED
    BY <2>2, <2>3, <2>4, <2>5, <2>6, <2>7
<1>7. CASE /\ state' = [state EXCEPT ![s].tokenCh = Append(@, state[s].generated)]
           /\ crashed' = crashed /\ ~state[s].closed /\ ~(state[s].finished /\ state[s].generated = 1)
  <2>1. /\ state'[s].tokenCh = Append(state[s].tokenCh, state[s].generated)
        /\ state' \in [Seqs -> SessionStates] /\ \A r \in Seqs : r # s => state'[r] = state[r]
        /\ \A r \in Seqs :
             /\ state'[r].generated = state[r].generated /\ state'[r].prefillDone = state[r].prefillDone
             /\ state'[r].nextPos = state[r].nextPos /\ state'[r].closed = state[r].closed
             /\ state'[r].finished = state[r].finished
    <3>1. Append(state[s].tokenCh, state[s].generated) \in Seq(Nat)
      BY <1>3, AppendFacts
    <3> QED
      BY <1>3, <1>7, <3>1, ZenonT(30) DEF SessionStates
  <2>2. /\ Len(state'[s].tokenCh) = Len(state[s].tokenCh) + 1
        /\ state'[s].tokenCh[Len(state[s].tokenCh) + 1] = state[s].generated
        /\ \A i \in 1 .. Len(state[s].tokenCh) : state'[s].tokenCh[i] = state[s].tokenCh[i]
    BY <1>3, <2>1, AppendFacts
  <2>3. Len(state'[s].tokenCh) \in Nat /\ Len(state'[s].tokenCh) <= state[s].generated
    <3>1. PICK n \in Nat : n = Len(state[s].tokenCh) /\ n < state[s].generated
      BY <1>3
    <3>2. Len(state'[s].tokenCh) = n + 1
      BY <2>2, <3>1
    <3> QED
      BY <1>3, <3>1, <3>2
  <2>4. SchedulerTypeOK'
    BY <1>1, <1>4, <1>5, <1>7, <2>1 DEF SchedulerTypeOK
  <2>5. SessionInv'
    BY <2>1, <2>3 DEF SessionInv
  <2>6. CurInv' /\ UnloadInv'
    BY <1>1, <1>2, <1>4, <2>1 DEF CurInv, UnloadInv
  <2>7. FreshInv'
    BY <1>1, <1>2, <1>4, <2>1, SchedulerConstants DEF FreshInv
  <2>8. ClosedInv'
    BY <1>1, <1>2, <1>4, <2>1 DEF ClosedInv, Dispatching, FreshInv
  <2>9. OrderInv'
    <3> SUFFICES ASSUME ~ctxDone, NEW r \in sessions
                 PROVE  /\ InOrder(r)'
                        /\ \/ Sent(r)' = state'[r].generated
                           \/ state'[r].finished /\ state'[r].generated = 1 /\ Sent(r)' = 0
      BY <1>1, <1>4 DEF OrderInv
    <3>1. r \in Seqs
      BY DEF SchedulerTypeOK
    <3>2. CASE r = s
      <4>1. InOrder(s) /\ Sent(s) = state[s].generated - 1
        BY <1>1, <1>2, <3>2 DEF OrderInv
      <4>2. PICK n \in Nat, m \in Nat : n = Len(state[s].tokenCh) /\ m = Len(got[s])
        BY <1>3
      <4>3. state[s].generated = m + n + 1
        <5>1. Sent(s) = m + n
          BY <4>2 DEF Sent
        <5>2. PICK k \in Nat : k = state[s].generated
          BY <1>3
        <5>3. m + n = k - 1
          BY <4>1, <5>1, <5>2
        <5>4. k = m + n + 1
          BY <5>3
        <5> QED
          BY <5>2, <5>4
      <4>4. Len(state'[s].tokenCh) = n + 1 /\ Len(got'[s]) = m
        BY <1>1, <2>2, <4>2
      <4>5. InOrder(s)'
        <5>1. \A i \in 1 .. m : got'[s][i] = i
          BY <1>1, <4>1, <4>2 DEF InOrder
        <5>2. \A i \in 1 .. n + 1 : state'[s].tokenCh[i] = m + i
          <6> SUFFICES ASSUME NEW i \in 1 .. n + 1 PROVE state'[s].tokenCh[i] = m + i
            OBVIOUS
          <6>1. CASE i = n + 1
            <7>1. state'[s].tokenCh[i] = state[s].generated
              BY <2>2, <4>2, <6>1
            <7>2. m + i = m + n + 1
              BY <6>1
            <7> QED
              BY <4>3, <7>1, <7>2
          <6>2. CASE i # n + 1
            <7>1. i \in 1 .. n
              BY <6>2
            <7> QED
              BY <2>2, <4>1, <4>2, <7>1 DEF InOrder
          <6> QED
            BY <6>1, <6>2
        <5> QED
          BY <4>4, <5>1, <5>2 DEF InOrder
      <4>6. Sent(s)' = m + (n + 1)
        BY <4>4 DEF Sent
      <4>7. m + (n + 1) = m + n + 1
        OBVIOUS
      <4> QED
        BY <2>1, <3>2, <4>3, <4>5, <4>6, <4>7
    <3>3. CASE r # s
      <4>1. (InOrder(r)' <=> InOrder(r)) /\ Sent(r)' = Sent(r)
        BY <1>1, <2>1, <3>1, <3>3 DEF InOrder, Sent
      <4> QED
        BY <1>1, <1>2, <2>1, <3>1, <3>3, <4>1 DEF OrderInv
    <3> QED
      BY <3>2, <3>3
  <2>10. CacheInv'
    BY <1>1, <1>4, <2>1, ZenonT(30) DEF CacheInv, Unfinished, Ahead, Fed, SchedulerTypeOK
  <2> QED
    BY <2>4, <2>5, <2>6, <2>7, <2>8, <2>9, <2>10
<1>8. \/ state' = state /\ (s \in sessions => state[s].finished /\ state[s].generated = 1)
      \/ /\ state' = [state EXCEPT ![s].tokenCh = Append(@, state[s].generated)]
         /\ crashed' = crashed /\ ~state[s].closed /\ ~(state[s].finished /\ state[s].generated = 1)
  <2>1. CASE state[s].finished /\ state[s].generated = 1
    BY <1>2, <2>1 DEF Send, Unsent
  <2>2. CASE ~(state[s].finished /\ state[s].generated = 1) /\ state[s].closed
    <3>1. s \notin sessions
      BY <1>1, <1>2, <2>2 DEF ClosedInv, Dispatching
    <3> QED
      BY <1>2, <2>2, <3>1 DEF Send, Unsent
  <2>3. CASE ~(state[s].finished /\ state[s].generated = 1) /\ ~state[s].closed
    BY <1>2, <2>3 DEF Send, Unsent
  <2> QED
    BY <2>1, <2>2, <2>3
<1> QED
  BY <1>6, <1>7, <1>8

LEMMA CloseChannelsKeepsSchedulerInv ==
  ASSUME SchedulerInv, CloseChannels
  PROVE  SchedulerInv'
<1> USE DEF SchedulerInv
<1>1. /\ UNCHANGED <<nextSeq, sessions, kv, batch, client, sid, got, hungUp, ctxDone, unload>>
      /\ run = "close" /\ run' = "dispatch" /\ cur' = NoSeq /\ crashed' \in BOOLEAN
  BY DEF CloseChannels, clients, unloader, SchedulerTypeOK
<1>2. PICK s \in Seqs : s = cur
  BY <1>1 DEF CurInv
<1>3. state \in [Seqs -> SessionStates] /\ state[s].finished
  BY <1>1, <1>2 DEF SchedulerTypeOK, CurInv
<1>4. state' = state \/ state' = [state EXCEPT ![s].closed = TRUE, ![s].done = TRUE]
  BY <1>2 DEF CloseChannels
<1>5. /\ state' \in [Seqs -> SessionStates]
      /\ \A r \in Seqs : r # s => state'[r] = state[r]
      /\ \A r \in Seqs :
           /\ state'[r].generated = state[r].generated /\ state'[r].prefillDone = state[r].prefillDone
           /\ state'[r].nextPos = state[r].nextPos /\ state'[r].tokenCh = state[r].tokenCh
           /\ state'[r].finished = state[r].finished /\ (state[r].closed => state'[r].closed)
  <2>1. CASE state' = state
    BY <1>3, <2>1
  <2>2. CASE state' = [state EXCEPT ![s].closed = TRUE, ![s].done = TRUE]
    <3>1. state[s] \in SessionStates /\ <<>> \in Seq(Nat)
      BY <1>3
    <3>2. PICK new \in SessionStates : new = [state[s] EXCEPT !.closed = TRUE, !.done = TRUE]
      BY <3>1, SessionUpdates
    <3>3. /\ new.tokenCh = state[s].tokenCh /\ new.generated = state[s].generated /\ new.closed
          /\ new.prefillDone = state[s].prefillDone /\ new.nextPos = state[s].nextPos
          /\ new.finished = state[s].finished
      BY <3>1, <3>2, CloseUpdate
    <3>4. state' = [state EXCEPT ![s] = new]
      BY <1>3, <2>2, <3>2
    <3>5. /\ state' \in [Seqs -> SessionStates] /\ state'[s] = new
          /\ \A r \in Seqs : r # s => state'[r] = state[r]
      BY <1>3, <3>4
    <3> QED
      BY <3>3, <3>5
  <2> QED
    BY <1>4, <2>1, <2>2
<1>6. SchedulerTypeOK'
  BY <1>1, <1>5 DEF SchedulerTypeOK
<1>7. SessionInv'
  BY <1>5 DEF SessionInv
<1>8. CurInv' /\ UnloadInv'
  BY <1>1 DEF CurInv, UnloadInv
<1>9. FreshInv'
  BY <1>1, <1>2, <1>5, SchedulerConstants DEF FreshInv
<1>10. ClosedInv'
  BY <1>1, <1>2, <1>3, <1>5 DEF ClosedInv, Dispatching, FreshInv
<1>11. OrderInv'
  <2>1. \A r \in Seqs : (InOrder(r)' <=> InOrder(r)) /\ Sent(r)' = Sent(r)
    BY <1>1, <1>5, SameTokens
  <2> SUFFICES ASSUME ~ctxDone, NEW r \in sessions
               PROVE  /\ InOrder(r)'
                      /\ \/ Sent(r)' = state'[r].generated
                         \/ state'[r].finished /\ state'[r].generated = 1 /\ Sent(r)' = 0
    BY <1>1 DEF OrderInv
  <2>2. r \in Seqs
    BY DEF SchedulerTypeOK
  <2> QED
    BY <1>1, <1>5, <2>1, <2>2 DEF OrderInv
<1>12. CacheInv'
  <2> SUFFICES ASSUME ~ctxDone, NEW r \in sessions, ~state'[r].finished
               PROVE  kv[r] = state'[r].nextPos + Ahead(r)'
    BY <1>1 DEF CacheInv, Unfinished
  <2>1. r \in Seqs
    BY DEF SchedulerTypeOK
  <2>2. Fed(r)' = Fed(r)
    BY <1>5, <2>1 DEF Fed
  <2>3. Ahead(r)' = Ahead(r)
    BY <1>1, <2>2 DEF Ahead
  <2> QED
    BY <1>5, <2>1, <2>3 DEF CacheInv, Unfinished
<1> QED
  BY <1>6, <1>7, <1>8, <1>9, <1>10, <1>11, <1>12

LEMMA NextKeepsSchedulerInv == SchedulerInv /\ [SchedulerNext]_schedulerVars => SchedulerInv'
<1> SUFFICES ASSUME SchedulerInv, [SchedulerNext]_schedulerVars PROVE SchedulerInv'
  OBVIOUS
<1>1. ASSUME NEW c \in Clients, RegisterSession(c) \/ ClientStep(c) PROVE SchedulerInv'
  BY <1>1, RegisterSessionKeepsSchedulerInv, ReadKeepsSchedulerInv, ReadClosedKeepsSchedulerInv,
     UnregisterSessionKeepsSchedulerInv DEF ClientStep
<1>2. CASE RunStep \/ StopRun
  BY <1>2, TurnsKeepSchedulerInv, DecodesKeepSchedulerInv, SkipFinishedKeepsSchedulerInv,
     SampleKeepsSchedulerInv, SendKeepsSchedulerInv, CloseChannelsKeepsSchedulerInv DEF RunStep
<1>3. CASE Unload \/ RunEnded \/ ForceDetach \/ FreeContext
  BY <1>3, TurnsKeepSchedulerInv
<1>4. CASE UNCHANGED schedulerVars
  <2>1. UNCHANGED <<nextSeq, sessions, state, kv, run, batch, cur, client, sid, got, hungUp,
                    ctxDone, unload, crashed>>
    BY <1>4 DEF schedulerVars, served, runner, clients, unloader
  <2> USE DEF SchedulerInv
  <2>2. SchedulerTypeOK' /\ SessionInv' /\ FreshInv' /\ CurInv' /\ UnloadInv'
    BY <2>1 DEF SchedulerTypeOK, SessionInv, FreshInv, CurInv, UnloadInv
  <2>3. ClosedInv'
    BY <2>1 DEF ClosedInv, Dispatching
  <2>4. OrderInv'
    BY <2>1, SameOrder
  <2>5. CacheInv'
    BY <2>1 DEF CacheInv, Unfinished, Ahead, Fed
  <2> QED
    BY <2>2, <2>3, <2>5, <2>4
<1> QED
  BY <1>1, <1>2, <1>3, <1>4 DEF SchedulerNext

\* SchedulerSpec => []SchedulerTypeOK: every session, channel and counter stays
\* within its type.
THEOREM SchedulerTypeCorrect == SchedulerSpec => []SchedulerTypeOK
<1>1. SchedulerInv => SchedulerTypeOK
  BY DEF SchedulerInv
<1> QED
  BY <1>1, InitSchedulerInv, NextKeepsSchedulerInv, PTL DEF SchedulerSpec

\* SchedulerSpec => []TokensInOrder: whatever clients come, read, hang up and
\* leave, a stream is the generated tokens in order, without a gap.
THEOREM TokensInOrderAlways == SchedulerSpec => []TokensInOrder
<1>1. SchedulerInv => TokensInOrder
  <2> SUFFICES ASSUME SchedulerInv, NEW s \in sessions
               PROVE  /\ state[s].generated <= MaxTokens
                      /\ ctxDone \/ LET sent == got[s] \o state[s].tokenCh
                                        n == state[s].generated
                                    IN  /\ sent = [i \in 1 .. Len(sent) |-> i]
                                        /\ \/ Len(sent) = n
                                           \/ /\ (run = "send" /\ cur = s) \/ (state[s].finished /\ n = 1)
                                              /\ Len(sent) = n - 1
    BY DEF TokensInOrder
  <2>1. /\ s \in Seqs /\ got[s] \in Seq(Nat) /\ state[s].tokenCh \in Seq(Nat)
    BY DEF SchedulerInv, SchedulerTypeOK, SessionStates
  <2>2. state[s].generated <= MaxTokens /\ state[s].generated \in Nat
    BY <2>1 DEF SchedulerInv, SessionInv, SchedulerTypeOK, SessionStates
  <2>3. CASE ~ctxDone
    <3> DEFINE sent == got[s] \o state[s].tokenCh
    <3>1. InOrder(s)
      BY <2>3 DEF SchedulerInv, OrderInv
    <3>2. PICK m \in Nat, n \in Nat : m = Len(got[s]) /\ n = Len(state[s].tokenCh)
      BY <2>1
    <3>3. /\ sent \in Seq(Nat) /\ Len(sent) = m + n
          /\ \A i \in 1 .. m : sent[i] = got[s][i]
          /\ \A i \in 1 .. n : sent[m + i] = state[s].tokenCh[i]
      BY <2>1, <3>2, ConcatFacts
    <3> HIDE DEF sent
    <3>4. \A i \in 1 .. Len(sent) : sent[i] = i
      <4> SUFFICES ASSUME NEW i \in 1 .. m + n PROVE sent[i] = i
        BY <3>3
      <4>1. CASE i <= m
        <5>1. i \in 1 .. m
          BY <4>1
        <5>2. sent[i] = got[s][i]
          BY <3>3, <5>1
        <5>3. got[s][i] = i
          BY <3>1, <3>2, <5>1 DEF InOrder
        <5> QED
          BY <5>2, <5>3
      <4>2. CASE i > m
        <5>1. PICK j \in 1 .. n : i = m + j
          <6>1. i - m \in 1 .. n /\ i = m + (i - m)
            BY <4>2
          <6> QED
            BY <6>1
        <5>2. sent[i] = state[s].tokenCh[j]
          BY <3>3, <5>1
        <5>3. state[s].tokenCh[j] = m + j
          BY <3>1, <3>2 DEF InOrder
        <5> QED
          BY <5>1, <5>2, <5>3
      <4> QED
        BY <4>1, <4>2
    <3>5. sent = [i \in 1 .. Len(sent) |-> i]
      BY <3>3, <3>4
    <3>6. \/ Len(sent) = state[s].generated
          \/ /\ (run = "send" /\ cur = s) \/ (state[s].finished /\ state[s].generated = 1)
             /\ Len(sent) = state[s].generated - 1
      <4>1. Len(sent) = Sent(s)
        BY <3>2, <3>3 DEF Sent
      <4> QED
        BY <2>2, <2>3, <4>1 DEF SchedulerInv, OrderInv
    <3> QED
      BY <2>2, <3>5, <3>6 DEF sent
  <2> QED
    BY <2>2, <2>3
<1> QED
  BY <1>1, InitSchedulerInv, NextKeepsSchedulerInv, PTL DEF SchedulerSpec

\* SchedulerSpec => []CacheMatchesPosition: no session of a batch disturbs the
\* position of another in the KV cache.
THEOREM CacheMatchesPositionAlways == SchedulerSpec => []CacheMatchesPosition
<1>1. SchedulerInv => CacheMatchesPosition
  <2> SUFFICES ASSUME SchedulerInv, run = "select", ~ctxDone, NEW s \in Unfinished
               PROVE  /\ kv[s] = state[s].nextPos
                      /\ state[s].prefillDone => kv[s] = PromptLen + state[s].generated - 1
    BY DEF CacheMatchesPosition
  <2>1. s \in Seqs /\ state[s].nextPos \in Nat
    BY DEF SchedulerInv, SchedulerTypeOK, Unfinished, SessionStates
  <2>2. kv[s] = state[s].nextPos
    BY <2>1 DEF SchedulerInv, CacheInv, Ahead
  <2> QED
    BY <2>1, <2>2 DEF SchedulerInv, SessionInv
<1> QED
  BY <1>1, InitSchedulerInv, NextKeepsSchedulerInv, PTL DEF SchedulerSpec

\* A send never has to wait, and none is dropped for want of room.
NeverBlocks == run = "send" => HasRoom(cur)

\* SchedulerSpec => []NeverBlocks: with MaxTokens capped at the capacity of
\* TokenCh, a client that does not read can neither stop the batch nor lose a
\* token, although nobody looks how full the channel is before the send.
THEOREM NeverBlocksAlways == SchedulerSpec => []NeverBlocks
<1>1. SchedulerInv => NeverBlocks
  <2> SUFFICES ASSUME SchedulerInv, run = "send" PROVE Len(state[cur].tokenCh) < Buf
    BY DEF NeverBlocks, HasRoom
  <2>1. cur \in Seqs /\ Len(state[cur].tokenCh) < state[cur].generated
    BY DEF SchedulerInv, CurInv
  <2>2. state[cur].generated <= MaxTokens
    BY <2>1 DEF SchedulerInv, SessionInv
  <2>3. state[cur].generated \in Nat /\ Len(state[cur].tokenCh) \in Nat
    BY <2>1 DEF SchedulerInv, SchedulerTypeOK, SessionStates
  <2> QED
    BY <2>1, <2>2, <2>3, SchedulerConstants
<1> QED
  BY <1>1, InitSchedulerInv, NextKeepsSchedulerInv, PTL DEF SchedulerSpec

\* SchedulerSpec => OnlyHangUpPanics: a send to a closed TokenCh, or a second
\* close of it, needs a client that hung up.
THEOREM OnlyHangUpPanicsAlways == SchedulerSpec => OnlyHangUpPanics
<1>1. SchedulerInv /\ [SchedulerNext]_schedulerVars => [crashed' => cur \in hungUp]_schedulerVars
  <2> SUFFICES ASSUME SchedulerInv, SchedulerNext, crashed' PROVE cur \in hungUp
    OBVIOUS
  <2>1. ~crashed
    BY Zenon DEF SchedulerNext
  <2>2. Send \/ CloseChannels
    BY <2>1 DEF SchedulerNext, RegisterSession, ClientStep, Read, ReadClosed, UnregisterSession,
       RunStep,
       Tick, LockModel, DecodeOk, DecodeFails, EndDispatch, SkipFinished, Sample, AbandonTick, StopRun,
       Unload, RunEnded, ForceDetach, FreeContext
  <2>3. state[cur].closed /\ run \in {"send", "close"}
    BY <2>1, <2>2 DEF Send, CloseChannels
  <2> QED
    BY <2>3 DEF SchedulerInv, CurInv, ClosedInv, Dispatching
<1> QED
  BY <1>1, InitSchedulerInv, NextKeepsSchedulerInv, PTL DEF SchedulerSpec, OnlyHangUpPanics

\* SchedulerSpec => ModelOutlivesUse: the model is freed when Run has returned,
\* or under a detach by force between two decodes.
THEOREM ModelOutlivesUseAlways == SchedulerSpec => ModelOutlivesUse
<1> DEFINE Freed == unload \notin Gone /\ unload' \in Gone
                      => run = "ended" \/ (unload = "forced" /\ run # "decode")
<1>1. SchedulerInv /\ [SchedulerNext]_schedulerVars => [Freed]_schedulerVars
  <2> SUFFICES ASSUME SchedulerInv, SchedulerNext, unload \notin Gone, unload' \in Gone
               PROVE  run = "ended" \/ (unload = "forced" /\ run # "decode")
    OBVIOUS
  <2>1. FreeContext
    BY DEF Gone, unloader, SchedulerNext, RegisterSession, ClientStep, Read, ReadClosed,
       UnregisterSession,
       RunStep, Tick, LockModel, DecodeOk, DecodeFails, EndDispatch, SkipFinished, Sample, Send,
       CloseChannels, AbandonTick, StopRun, Unload, RunEnded, ForceDetach
  <2> QED
    BY <2>1 DEF FreeContext, SchedulerInv, UnloadInv
<1> QED
  BY <1>1, InitSchedulerInv, NextKeepsSchedulerInv, PTL DEF SchedulerSpec, ModelOutlivesUse

=============================================================================

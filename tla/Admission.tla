------------------------------ MODULE Admission ------------------------------
(***************************************************************************)
(* The balancer's admission of inference requests to backends:             *)
(* internal/balancer/slot_manager.go (the slots of a backend),             *)
(* admission_queue.go (the queue of one backend) and unified_queue_r73.go  *)
(* (the queue for any backend).                                            *)
(*                                                                         *)
(* One step is one region under state.mu or admissionQueue.mu, or one arm  *)
(* of the waiter's select.  Waiting is enabled (LB_ADMISSION_WAIT_SEC > 0) *)
(* and every request has a session key.                                    *)
(***************************************************************************)
EXTENDS Integers, Sequences, SequencesExt, FiniteSets, FiniteSetsExt, GoSlices

CONSTANTS Requests,      \* goroutines that serve inference requests
          Sessions,
          SessionOf,     \* SessionOf[r]: RequestSessionKey of the request
          Backends,
          AnyBackend,    \* admissionAnyBackend, the key of the unified queue
          KeyOf,         \* KeyOf[r]: the queue r uses, a backend or AnyBackend
          Limit,         \* EffectiveMaxConcurrentRequests, 0 is unlimited
          Flaky,         \* the backends whose health may change
          Streams,       \* the requests whose stream may fall silent
          HighWatermark, \* 90% of queueMaxSize
          NoBackend

Keys == Backends \union {AnyBackend}

ASSUME AdmissionAssumption ==
  /\ IsFiniteSet(Requests)
  /\ AnyBackend \notin Backends /\ NoBackend \notin Backends
  /\ SessionOf \in [Requests -> Sessions]
  /\ KeyOf \in [Requests -> Keys]
  /\ Limit \in [Backends -> Nat]
  /\ Flaky \subseteq Backends /\ Streams \subseteq Requests
  /\ HighWatermark \in Nat

VARIABLES healthy,  \* state.Backend.Status = StatusHealthy
          active,   \* state.ActiveReqs
          queue,    \* admissionQueue.waiters: per key, in the order of seq
          inflight, \* admissionQueue.inflight
          served,   \* served[s]: lastServed[s] lies in admissionFairnessWindow
          pc,       \* where the goroutine of the request is
          at,       \* at[r]: the backend whose slot r took
          tried,    \* tried[r]: the backends r found no slot on in its last scan
          woken,    \* the requests whose notify channel is closed
          silent    \* requests whose session counts as a zombie

vars == <<healthy, active, queue, inflight, served, pc, at, tried, woken, silent>>

queueVars == <<queue, inflight, served>>

Init ==
  /\ healthy = [b \in Backends |-> TRUE]
  /\ active = [b \in Backends |-> 0]
  /\ queue = [k \in Keys |-> <<>>]
  /\ inflight = [s \in Sessions |-> 0]
  /\ served = [s \in Sessions |-> FALSE]
  /\ pc = [r \in Requests |-> "idle"]
  /\ at = [r \in Requests |-> NoBackend]
  /\ tried = [r \in Requests |-> {}]
  /\ woken = {}
  /\ silent = {}

Goto(r, l) == pc' = [pc EXCEPT ![r] = l]

Queued(r) == Contains(queue[KeyOf[r]], r)

\* The backends a request may use; a scan tries each at most once.
Candidates(r) == IF KeyOf[r] = AnyBackend THEN Backends ELSE {KeyOf[r]}

-----------------------------------------------------------------------------
(* Slots of a backend.                                                     *)

FullOneTooLate(b) == Limit[b] > 0 /\ active[b] > Limit[b]

Full(b) == Limit[b] > 0 /\ active[b] >= Limit[b]

\* DetectZombieSessions, restricted to one backend.
Zombies(b) == {z \in silent : at[z] = b}

\* tryAcquireSlot gives r a slot: a free one, or that of a zombie session,
\* whose request keeps running and will release a slot as well.
SlotTaken(b) ==
  /\ healthy[b]
  /\ \/ /\ ~Full(b)
        /\ active' = [active EXCEPT ![b] = @ + 1]
        /\ silent' = silent
     \/ /\ Full(b)
        /\ \E z \in Zombies(b) : silent' = silent \ {z}
        /\ active' = active

NoSlot(b) == ~healthy[b] \/ (Full(b) /\ Zombies(b) = {})

\* The scans: the fast path before the queue, the first try of
\* acquireInferenceSlot, and the try of a waiter whose turn it is.
Trying == {"now", "first", "claim"}

TryAcquire(r) ==
  /\ pc[r] \in Trying
  /\ \E b \in Candidates(r) \ tried[r] :
       /\ SlotTaken(b)
       /\ at' = [at EXCEPT ![r] = b]
  /\ Goto(r, "granted")
  /\ tried' = [tried EXCEPT ![r] = {}]
  /\ UNCHANGED <<healthy, queueVars, woken>>

\* Where a request goes when no candidate has a slot.
AfterScan(r) ==
  CASE pc[r] = "now"   -> "first"
    [] pc[r] = "first" -> IF KeyOf[r] = AnyBackend THEN "watermark" ELSE "enqueue"
    [] pc[r] = "claim" -> "deadline"

TryFails(r) ==
  /\ pc[r] \in Trying
  /\ \E b \in Candidates(r) \ tried[r] :
       /\ NoSlot(b)
       /\ LET seen == tried[r] \union {b}
              over == seen = Candidates(r)
          IN /\ Goto(r, IF over THEN AfterScan(r) ELSE pc[r])
             /\ tried' = [tried EXCEPT ![r] = IF over /\ pc[r] # "claim" THEN {} ELSE seen]
  /\ UNCHANGED <<healthy, active, queueVars, at, woken, silent>>

-----------------------------------------------------------------------------
(* The queue.                                                              *)

\* priorityLocked: a smaller group goes first.
Priority(r) ==
  LET s == SessionOf[r]
  IN IF inflight[s] > 0 THEN 2 ELSE IF served[s] THEN 1 ELSE 0

BestIsYoungest(k, r) ==
  \E i \in DOMAIN queue[k] :
    /\ queue[k][i] = r
    /\ \A j \in DOMAIN queue[k] \ {i} :
         \/ Priority(r) < Priority(queue[k][j])
         \/ Priority(r) = Priority(queue[k][j]) /\ i > j

\* bestLocked: the oldest waiter of the lowest group.
Best(k, r) ==
  \E i \in DOMAIN queue[k] :
    /\ queue[k][i] = r
    /\ \A j \in DOMAIN queue[k] \ {i} :
         \/ Priority(r) < Priority(queue[k][j])
         \/ Priority(r) = Priority(queue[k][j]) /\ i < j

\* A request arrives: acquireInferenceSlotNow tries once before
\* acquireInferenceSlot does; waitForInferenceBackend only scans once.
Arrive(r) ==
  /\ pc[r] = "idle"
  /\ Goto(r, IF KeyOf[r] = AnyBackend THEN "first" ELSE "now")
  /\ UNCHANGED <<healthy, active, queueVars, at, tried, woken, silent>>

\* admissionOverloaded: the unified queue refuses at the high watermark.
CheckWatermark(r) ==
  /\ pc[r] = "watermark"
  /\ LET waiting == MapThenSumSet(LAMBDA k : Len(queue[k]), Keys)
     IN Goto(r, IF waiting >= HighWatermark THEN "idle" ELSE "enqueue")
  /\ UNCHANGED <<healthy, active, queueVars, at, tried, woken, silent>>

Enqueue(r) ==
  /\ pc[r] = "enqueue"
  /\ queue' = [queue EXCEPT ![KeyOf[r]] = Append(@, r)]
  /\ Goto(r, "loop")
  /\ UNCHANGED <<healthy, active, inflight, served, at, tried, woken, silent>>

\* The channel is taken before the try.
TakeChannel(r) ==
  /\ pc[r] = "loop"
  /\ woken' = woken \ {r}
  /\ tried' = [tried EXCEPT ![r] = {}]
  /\ Goto(r, "check")
  /\ UNCHANGED <<healthy, active, queueVars, at, silent>>

\* canProceed, a region of its own: the try comes after it.
CheckTurn(r) ==
  /\ pc[r] = "check"
  /\ Goto(r, IF Best(KeyOf[r], r) THEN "claim" ELSE "deadline")
  /\ UNCHANGED <<healthy, active, queueVars, at, tried, woken, silent>>

\* The budget is not used up: the waiter selects on notify, poll and ctx.
FallAsleepWithNewChannel(r) ==
  /\ pc[r] = "deadline"
  /\ woken' = woken \ {r}
  /\ Goto(r, "asleep")
  /\ UNCHANGED <<healthy, active, queueVars, at, tried, silent>>

FallAsleep(r) ==
  /\ pc[r] = "deadline"
  /\ Goto(r, "asleep")
  /\ UNCHANGED <<healthy, active, queueVars, at, tried, woken, silent>>

TimeOut(r) ==
  /\ pc[r] = "deadline"
  /\ Goto(r, "giveup")
  /\ UNCHANGED <<healthy, active, queueVars, at, tried, woken, silent>>

\* The notify channel is closed or the 250 ms poll fires.
WakeOnNotify(r) ==
  /\ pc[r] = "asleep" /\ r \in woken
  /\ Goto(r, "loop")
  /\ UNCHANGED <<healthy, active, queueVars, at, tried, woken, silent>>

Wake(r) ==
  /\ pc[r] = "asleep"
  /\ Goto(r, "loop")
  /\ UNCHANGED <<healthy, active, queueVars, at, tried, woken, silent>>

\* ctx.Done: the client has gone.
SeeCancelled(r) ==
  /\ pc[r] = "asleep"
  /\ Goto(r, "giveup")
  /\ UNCHANGED <<healthy, active, queueVars, at, tried, woken, silent>>

\* The deferred remove, which wakes nobody: it runs when the request gives
\* up and, after a grant, when the lease has been made.
LeaveQueue(r) ==
  /\ pc[r] \in {"giveup", "dequeue"}
  /\ queue' = [queue EXCEPT ![KeyOf[r]] = Without(@, r)]
  /\ Goto(r, IF pc[r] = "giveup" THEN "idle" ELSE "running")
  /\ tried' = [tried EXCEPT ![r] = {}]
  /\ UNCHANGED <<healthy, active, inflight, served, at, woken, silent>>

-----------------------------------------------------------------------------
(* The lease: newAdmissionLease and its release function.                  *)

MarkInflight(r) ==
  /\ pc[r] = "granted"
  /\ inflight' = [inflight EXCEPT ![SessionOf[r]] = @ + 1]
  /\ Goto(r, "counted")
  /\ UNCHANGED <<healthy, active, queue, served, at, tried, woken, silent>>

MarkServed(r) ==
  /\ pc[r] = "counted"
  /\ served' = [served EXCEPT ![SessionOf[r]] = TRUE]
  /\ Goto(r, IF Queued(r) THEN "dequeue" ELSE "running")
  /\ UNCHANGED <<healthy, active, queue, inflight, at, tried, woken, silent>>

\* release(): the session's counter goes down before the slot is freed.
Uncount(r) ==
  /\ pc[r] = "running"
  /\ inflight' = [inflight EXCEPT ![SessionOf[r]] = IF @ > 0 THEN @ - 1 ELSE 0]
  /\ silent' = silent \ {r}
  /\ Goto(r, "uncounted")
  /\ UNCHANGED <<healthy, active, queue, served, at, tried, woken>>

ReleaseSlotIfHealthy(r) ==
  /\ pc[r] = "uncounted"
  /\ active' = [active EXCEPT ![at[r]] = IF healthy[at[r]] /\ @ > 0 THEN @ - 1 ELSE @]
  /\ Goto(r, "freed")
  /\ UNCHANGED <<healthy, queueVars, at, tried, woken, silent>>

ReleaseSlot(r) ==
  /\ pc[r] = "uncounted"
  /\ active' = [active EXCEPT ![at[r]] = IF @ > 0 THEN @ - 1 ELSE 0]
  /\ Goto(r, "freed")
  /\ UNCHANGED <<healthy, queueVars, at, tried, woken, silent>>

\* broadcast: the current channel is closed, whoever holds it wakes.
Broadcast(r) ==
  /\ pc[r] = "freed"
  /\ woken' = Requests
  /\ at' = [at EXCEPT ![r] = NoBackend]
  /\ Goto(r, "idle")
  /\ UNCHANGED <<healthy, active, queueVars, tried, silent>>

-----------------------------------------------------------------------------
(* The environment: health checks, the fairness window, silent streams.    *)

ChangeHealth(b) ==
  /\ b \in Flaky
  /\ healthy' = [healthy EXCEPT ![b] = ~@]
  /\ UNCHANGED <<active, queueVars, pc, at, tried, woken, silent>>

WindowPasses(s) ==
  /\ served[s]
  /\ served' = [served EXCEPT ![s] = FALSE]
  /\ UNCHANGED <<healthy, active, queue, inflight, pc, at, tried, woken, silent>>

\* The stream of r has sent nothing for longer than the zombie threshold.
FallSilent(r) ==
  /\ r \in Streams \ silent /\ pc[r] = "running"
  /\ silent' = silent \union {r}
  /\ UNCHANGED <<healthy, active, queueVars, pc, at, tried, woken>>

-----------------------------------------------------------------------------

\* Steps the goroutine of r takes by itself once the request has arrived.
Proceed(r) ==
  \/ TryAcquire(r) \/ TryFails(r) \/ CheckWatermark(r) \/ Enqueue(r)
  \/ TakeChannel(r) \/ CheckTurn(r) \/ FallAsleep(r) \/ Wake(r) \/ LeaveQueue(r)
  \/ MarkInflight(r) \/ MarkServed(r) \/ ReleaseSlot(r) \/ Broadcast(r)

Next ==
  \/ \E r \in Requests :
       Arrive(r) \/ Proceed(r) \/ TimeOut(r) \/ SeeCancelled(r) \/ Uncount(r) \/ FallSilent(r)
  \/ \E b \in Backends : ChangeHealth(b)
  \/ \E s \in Sessions : WindowPasses(s)

Spec == Init /\ [][Next]_vars

\* Goroutines are scheduled and polls fire; nothing is assumed of clients,
\* backends, deadlines or decodes.
LiveSpec == Spec /\ \A r \in Requests : WF_vars(Proceed(r))

-----------------------------------------------------------------------------
(* Properties.                                                             *)

Pcs ==
  Trying \union
  {"idle", "watermark", "enqueue", "loop", "check", "deadline", "asleep", "giveup", "granted",
   "counted", "dequeue", "running", "uncounted", "freed"}

TypeOK ==
  /\ healthy \in [Backends -> BOOLEAN]
  /\ active \in [Backends -> Nat]
  /\ queue \in [Keys -> Seq(Requests)]
  /\ inflight \in [Sessions -> Nat]
  /\ served \in [Sessions -> BOOLEAN]
  /\ pc \in [Requests -> Pcs]
  /\ at \in [Requests -> Backends \union {NoBackend}]
  /\ tried \in [Requests -> SUBSET Backends]
  /\ woken \subseteq Requests
  /\ silent \subseteq Streams

\* The requests that hold a slot of b.
Holders(b) ==
  {r \in Requests : at[r] = b /\ pc[r] \in {"granted", "counted", "dequeue", "running", "uncounted"}}

\* The requests of a session that have a lease.
Counted(s) ==
  {r \in Requests : SessionOf[r] = s /\ pc[r] \in {"counted", "dequeue", "running"}}

\* slot_manager.go:13: while no stream falls silent, never more requests run
\* on a backend than it has slots, however tries, queues and health interleave.
NoOverAdmission ==
  \A b \in Backends : Limit[b] > 0 => Cardinality(Holders(b)) <= Limit[b]

\* A slot counted as used is held by a request that will return it, zombie
\* preemption included: the counter never keeps a free backend closed, nor
\* falls below zero.
NoPhantomLoad == \A b \in Backends : active[b] \in 0 .. Cardinality(Holders(b))

\* The in-flight counter of a session, which decides its priority, is the
\* number of its requests with a lease: no request ends uncounted or twice.
InflightMatches == \A s \in Sessions : inflight[s] = Cardinality(Counted(s))

\* bestLocked: of two requests of one session in one queue the later one is
\* never let through to the slots before the earlier has left the queue.
SameSessionFifo ==
  \A k \in Keys : \A i, j \in DOMAIN queue[k] :
    i < j /\ SessionOf[queue[k][i]] = SessionOf[queue[k][j]]
      => pc[queue[k][j]] \notin {"claim", "granted", "counted", "dequeue"}

\* admission_queue.go:634: a release between a waiter's try and its select is
\* not lost: if a backend the sleeping waiter found full has room again, its
\* channel is closed or the release is about to close it.
NoMissedRelease ==
  \A r \in Requests : pc[r] = "asleep" /\ r \notin woken =>
    \A b \in tried[r] \ Flaky :
      Full(b) \/ \E q \in Requests : pc[q] = "freed" /\ at[q] = b

\* A slot of b does not stay free while somebody queues for b: although a
\* waiter that gives up wakes nobody, the poll gets the next one going.
FreeSlotTaken ==
  \A b \in Backends \ Flaky :
    (~Full(b) /\ queue[b] # <<>>) ~> (Full(b) \/ queue[b] = <<>>)

\* Who has a lease, from the grant of a slot to its release, who waits for
\* one, and who of the same session waits in front of it.
Lease ==
  [r \in Requests |-> IF \E b \in Backends : r \in Holders(b) THEN at[r] ELSE NoBackend]

Waiting == {r \in Requests : at[r] = NoBackend /\ Queued(r)}

InFrontOf(q, r) ==
  \E i, j \in DOMAIN queue[KeyOf[r]] : i < j /\ queue[KeyOf[r]][i] = q /\ queue[KeyOf[r]][j] = r

Ahead ==
  [r \in Requests |->
     {q \in Waiting : r \in Waiting /\ SessionOf[q] = SessionOf[r] /\ InFrontOf(q, r)}]

\* While no stream falls silent the code implements LeasePool: a slot is taken
\* in the step that finds it free, leases never exceed the limit, and although
\* a waiter looks at the queue first and at the slots later, those of one
\* session are served in their order.
Leases == INSTANCE LeasePool WITH lease <- Lease, waiting <- Waiting, ahead <- Ahead
ImplementsLeases == Leases!LeaseSpec

=============================================================================

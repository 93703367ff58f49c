------------------------------- MODULE SdJobs -------------------------------
(***************************************************************************)
(* internal/sdbackend/queue.go and jobs.go: the image worker's slot        *)
(* semaphore and its registry of asynchronous jobs, with the synchronous   *)
(* generations that take slots of the same semaphore.                      *)
(*                                                                         *)
(* One step is one region under JobRunner.mu, one operation on the slot    *)
(* channel or on a job's done channel, or the whole of runGeneration (its  *)
(* use of the sd-server is module SdSupervisor).                           *)
(***************************************************************************)
EXTENDS Naturals, FiniteSets, SequencesExt, GoSlices

CONSTANTS Jobs,     \* one per call of Submit that finds a model
          Syncs,    \* HTTP handlers that call GenerateSync
          Capacity  \* cap(Queue.slots)

ASSUME SdJobsAssumption ==
  /\ IsFiniteSet(Jobs) /\ IsFiniteSet(Syncs)
  /\ Capacity \in Nat \ {0}

VARIABLES used,       \* len(Queue.slots)
          registered, \* the keys of JobRunner.jobs
          inQueue,    \* JobRunner.inQueue
          jobState,   \* jobState[j]: jobEntry.rec.State
          cancelled,  \* the entries with jobEntry.cancelled
          done,       \* the entries with a closed jobEntry.done
          collecting, \* jobs with a sleeping collect goroutine
          jobPc,      \* jobPc[j]: where Submit or runAsync of job j is
          syncPc      \* syncPc[s]: "idle" or "generating"

registry == <<registered, inQueue, jobState, cancelled>>
jobsVars == <<used, registry, done, collecting, jobPc, syncPc>>

JobsInit ==
  /\ used = 0 /\ registered = {} /\ inQueue = <<>> /\ cancelled = {}
  /\ jobState = [j \in Jobs |-> "none"]
  /\ done = {} /\ collecting = {}
  /\ jobPc = [j \in Jobs |-> "new"]
  /\ syncPc = [s \in Syncs |-> "idle"]

Terminal == {"completed", "failed", "cancelled"}

-----------------------------------------------------------------------------
(* Queue.                                                                  *)

\* Acquire never blocks: without a free slot it returns ErrQueueFull.
Acquire == used < Capacity /\ used' = used + 1

\* The release function; a sync.Once makes a second call do nothing.
ReleaseSlot == used' = used - 1

-----------------------------------------------------------------------------
(* Submit and runAsync.                                                    *)

\* The slot is taken before anybody can see the job.
Submit(j) ==
  /\ jobPc[j] = "new"
  /\ Acquire
  /\ jobPc' = [jobPc EXCEPT ![j] = "accepted"]
  /\ UNCHANGED <<registry, done, collecting, syncPc>>

Register(j) ==
  /\ jobPc[j] = "accepted"
  /\ registered' = registered \union {j}
  /\ inQueue' = Append(inQueue, j)
  /\ jobState' = [jobState EXCEPT ![j] = "queued"]
  /\ jobPc' = [jobPc EXCEPT ![j] = "spawned"]
  /\ UNCHANGED <<used, cancelled, done, collecting, syncPc>>

ExitCancelledSilently(j) ==
  /\ jobPc[j] = "spawned" /\ j \in cancelled
  /\ jobPc' = [jobPc EXCEPT ![j] = "release"]
  /\ UNCHANGED <<used, registry, done, collecting, syncPc>>

\* runAsync finds its job cancelled.
ExitCancelled(j) ==
  /\ jobPc[j] = "spawned" /\ j \in cancelled
  /\ jobPc' = [jobPc EXCEPT ![j] = "close"]
  /\ UNCHANGED <<used, registry, done, collecting, syncPc>>

StartAnyway(j) ==
  /\ jobPc[j] = "spawned"
  /\ jobState' = [jobState EXCEPT ![j] = "processing"]
  /\ inQueue' = Without(inQueue, j)
  /\ jobPc' = [jobPc EXCEPT ![j] = "generating"]
  /\ UNCHANGED <<used, registered, cancelled, done, collecting, syncPc>>

\* runAsync takes its job to the engine, whatever its position is.
StartJob(j) ==
  /\ jobPc[j] = "spawned" /\ j \notin cancelled
  /\ jobState' = [jobState EXCEPT ![j] = "processing"]
  /\ inQueue' = Without(inQueue, j)
  /\ jobPc' = [jobPc EXCEPT ![j] = "generating"]
  /\ UNCHANGED <<used, registered, cancelled, done, collecting, syncPc>>

\* runGeneration returns and finalize records the outcome.
Finalize(j) ==
  /\ jobPc[j] = "generating"
  /\ \E outcome \in {"completed", "failed"} : jobState' = [jobState EXCEPT ![j] = outcome]
  /\ collecting' = collecting \union {j}
  /\ jobPc' = [jobPc EXCEPT ![j] = "close"]
  /\ UNCHANGED <<used, registered, inQueue, cancelled, done, syncPc>>

\* Deferred calls run last in, first out: done is closed, then the slot is
\* released.
CloseDone(j) ==
  /\ jobPc[j] = "close"
  /\ done' = done \union {j}
  /\ jobPc' = [jobPc EXCEPT ![j] = "release"]
  /\ UNCHANGED <<used, registry, collecting, syncPc>>

Release(j) ==
  /\ jobPc[j] = "release"
  /\ ReleaseSlot
  /\ jobPc' = [jobPc EXCEPT ![j] = "over"]
  /\ UNCHANGED <<registry, done, collecting, syncPc>>

-----------------------------------------------------------------------------
(* Cancel, collect and the synchronous path.                               *)

CancelReleases(j) ==
  /\ j \in registered /\ jobState[j] = "queued"
  /\ cancelled' = cancelled \union {j}
  /\ jobState' = [jobState EXCEPT ![j] = "cancelled"]
  /\ inQueue' = Without(inQueue, j)
  /\ ReleaseSlot
  /\ UNCHANGED <<registered, done, collecting, jobPc, syncPc>>

\* Only a queued job can be cancelled: no job has an engine id, so Cancel of
\* a processing job is refused and changes nothing.
Cancel(j) ==
  /\ j \in registered /\ jobState[j] = "queued"
  /\ cancelled' = cancelled \union {j}
  /\ jobState' = [jobState EXCEPT ![j] = "cancelled"]
  /\ inQueue' = Without(inQueue, j)
  /\ UNCHANGED <<used, registered, done, collecting, jobPc, syncPc>>

\* The time to live of a finalized job is over.
Collect(j) ==
  /\ j \in collecting
  /\ collecting' = collecting \ {j}
  /\ registered' = registered \ {j}
  /\ UNCHANGED <<used, inQueue, jobState, cancelled, done, jobPc, syncPc>>

\* GenerateSync.
BeginSync(s) ==
  /\ syncPc[s] = "idle"
  /\ Acquire
  /\ syncPc' = [syncPc EXCEPT ![s] = "generating"]
  /\ UNCHANGED <<registry, done, collecting, jobPc>>

EndSync(s) ==
  /\ syncPc[s] = "generating"
  /\ ReleaseSlot
  /\ syncPc' = [syncPc EXCEPT ![s] = "idle"]
  /\ UNCHANGED <<registry, done, collecting, jobPc>>

-----------------------------------------------------------------------------

RunAsync(j) == ExitCancelled(j) \/ StartJob(j) \/ Finalize(j) \/ CloseDone(j) \/ Release(j)

JobsNext ==
  \/ \E j \in Jobs : Submit(j) \/ Register(j) \/ RunAsync(j) \/ Cancel(j) \/ Collect(j)
  \/ \E s \in Syncs : BeginSync(s) \/ EndSync(s)

JobsSpec == JobsInit /\ [][JobsNext]_jobsVars

\* Goroutines run on, timers fire, and a generation ends: the engine answers,
\* or its client gets an error when the engine dies.
JobsLiveSpec ==
  /\ JobsSpec
  /\ \A j \in Jobs : WF_jobsVars(Register(j)) /\ WF_jobsVars(RunAsync(j)) /\ WF_jobsVars(Collect(j))
  /\ \A s \in Syncs : WF_jobsVars(EndSync(s))

-----------------------------------------------------------------------------
(* Properties.                                                             *)

JobPcs == {"new", "accepted", "spawned", "generating", "close", "release", "over"}

JobsTypeOK ==
  /\ used \in 0 .. Capacity
  /\ registered \subseteq Jobs /\ cancelled \subseteq Jobs
  /\ done \subseteq Jobs /\ collecting \subseteq Jobs
  /\ inQueue \in Seq(Jobs)
  /\ jobState \in [Jobs -> Terminal \union {"none", "queued", "processing"}]
  /\ jobPc \in [Jobs -> JobPcs]
  /\ syncPc \in [Syncs -> {"idle", "generating"}]

Holders == {j \in Jobs : jobPc[j] \notin {"new", "over"}}
Generating == {s \in Syncs : syncPc[s] = "generating"}

\* The semaphore counts the jobs and requests that still have to release:
\* however a job ends (cancelled while its goroutine starts, failed,
\* completed), its slot comes back once.
SlotsAreHeld == used = Cardinality(Holders) + Cardinality(Generating)

\* The positions clients see are computed from the queue: it lists exactly
\* the queued jobs, each once, through starts and cancels in any order.
QueueIsQueued ==
  /\ \A j \in Jobs : (\E i \in 1 .. Len(inQueue) : inQueue[i] = j) <=> jobState[j] = "queued"
  /\ \A i, k \in 1 .. Len(inQueue) : inQueue[i] = inQueue[k] => i = k

\* A client that polls a job never sees it leave a final state: a job that
\* was reported cancelled is not run, a failed one is not revived.
FinalIsFinal ==
  [][\A j \in Jobs : jobState[j] \in Terminal => jobState'[j] = jobState[j]]_jobsVars

\* Wait returns when done is closed and then reads the record: it is final.
DoneIsFinal == \A j \in done : jobState[j] \in Terminal

\* The position of a job that stays queued never grows.
PositionNeverGrows ==
  [][\A i \in 1 .. Len(inQueue) :
       jobState'[inQueue[i]] = "queued" => \E k \in 1 .. i : inQueue'[k] = inQueue[i]]_jobsVars

\* Every accepted job ends: it reaches a final state, wakes its waiters and
\* gives its slot back.
JobEnds ==
  \A j \in Jobs :
    jobPc[j] = "accepted" ~> (jobState[j] \in Terminal /\ j \in done /\ jobPc[j] = "over")

\* What a client is told of a job: the state in its record, or nothing before
\* it is in the registry and after it was collected.
Told ==
  [j \in Jobs |-> IF j \in registered THEN jobState[j]
                  ELSE IF jobPc[j] \in {"new", "accepted"} THEN "none" ELSE "gone"]

\* The code implements JobBoard: the semaphore bounds the jobs that clients see
\* queued or in progress, and whoever comes first, Cancel or the goroutine of
\* the job, decides between the states.
Board == INSTANCE JobBoard WITH status <- Told, line <- inQueue, answered <- done
ImplementsBoard == Board!BoardSpec

=============================================================================

--------------------------- MODULE SdWorkerProofs ---------------------------
(***************************************************************************)
(* Proofs about the image worker: its job runner (SdJobs), for any jobs,   *)
(* synchronous handlers and capacity, and the supervisor of its sd-server  *)
(* (SdSupervisor), for any callers, roles, models and bound.               *)
(***************************************************************************)
EXTENDS SdJobs, SdSupervisor, QueueFacts, SequenceTheorems, FiniteSetTheorems, TLAPS

-----------------------------------------------------------------------------
(* The job runner.                                                         *)

\* What the goroutines of a job have done says which states it can be in.
JobInv ==
  \A j \in Jobs :
    /\ jobPc[j] \in {"new", "accepted"} <=> jobState[j] = "none"
    /\ jobPc[j] = "spawned" => jobState[j] \in {"queued", "cancelled"}
    /\ jobPc[j] = "generating" => jobState[j] = "processing"
    /\ jobPc[j] \in {"close", "release", "over"} => jobState[j] \in Terminal
    /\ j \in cancelled <=> jobState[j] = "cancelled"
    /\ j \in done => jobPc[j] \in {"release", "over"}

JobsInv == JobsTypeOK /\ JobInv /\ QueueIsQueued /\ SlotsAreHeld

-----------------------------------------------------------------------------
(* The slots.                                                              *)

LEMMA HoldersAreFinite ==
  /\ IsFiniteSet(Holders) /\ IsFiniteSet(Holders')
  /\ IsFiniteSet(Generating) /\ IsFiniteSet(Generating')
  /\ Cardinality(Holders) \in Nat /\ Cardinality(Holders') \in Nat
  /\ Cardinality(Generating) \in Nat /\ Cardinality(Generating') \in Nat
<1>1. /\ Holders \subseteq Jobs /\ Holders' \subseteq Jobs
      /\ Generating \subseteq Syncs /\ Generating' \subseteq Syncs
  BY DEF Holders, Generating
<1>2. /\ IsFiniteSet(Holders) /\ IsFiniteSet(Holders')
      /\ IsFiniteSet(Generating) /\ IsFiniteSet(Generating')
  BY <1>1, FS_Subset, SdJobsAssumption
<1> QED  BY <1>2, FS_CardinalityType

-----------------------------------------------------------------------------
(* The steps.                                                              *)

LEMMA InitJobsInv == JobsInit => JobsInv
<1> SUFFICES ASSUME JobsInit  PROVE JobsInv
  OBVIOUS
<1>1. inQueue = <<>> /\ inQueue \in Seq(Jobs) /\ Len(inQueue) = 0
  BY EmptySeq DEF JobsInit
<1>2. JobsTypeOK
  BY <1>1, SdJobsAssumption DEF JobsInit, JobsTypeOK, JobPcs, Terminal
<1>3. JobInv /\ QueueIsQueued
  BY <1>1 DEF JobsInit, JobInv, QueueIsQueued, Terminal
<1>4. Holders = {} /\ Generating = {}
  BY DEF JobsInit, Holders, Generating
<1>5. SlotsAreHeld
  BY <1>4, FS_EmptySet DEF JobsInit, SlotsAreHeld
<1> QED  BY <1>2, <1>3, <1>5 DEF JobsInv

\* A job takes a slot.
LEMMA SubmitStep ==
  ASSUME JobsInv, NEW j \in Jobs, Submit(j)
  PROVE  JobsInv'
<1> USE DEF JobsInv, Submit, registry
<1>1. JobsTypeOK'
  BY SdJobsAssumption DEF JobsTypeOK, Acquire, JobPcs
<1>2. JobInv' /\ QueueIsQueued'
  BY DEF JobsTypeOK, JobInv, QueueIsQueued
<1>3. /\ j \notin Holders /\ Holders' = Holders \union {j} /\ Generating' = Generating
  BY DEF JobsTypeOK, Holders, Generating
<1>4. Cardinality(Holders') = Cardinality(Holders) + 1
  BY <1>3, HoldersAreFinite, FS_AddElement
<1>5. SlotsAreHeld'
  BY <1>3, <1>4, HoldersAreFinite DEF SlotsAreHeld, Acquire
<1> QED  BY <1>1, <1>2, <1>5

\* A step of a job that keeps its slot.
LEMMA SlotsKept ==
  ASSUME JobsInv, used' = used, syncPc' = syncPc, NEW j \in Jobs,
         jobPc[j] \notin {"new", "over"}, NEW p \in JobPcs, p \notin {"new", "over"},
         jobPc' = [jobPc EXCEPT ![j] = p]
  PROVE  SlotsAreHeld'
<1>1. Holders' = Holders /\ Generating' = Generating
  BY DEF JobsInv, JobsTypeOK, Holders, Generating
<1> QED  BY <1>1 DEF JobsInv, SlotsAreHeld

LEMMA RegisterStep ==
  ASSUME JobsInv, NEW j \in Jobs, Register(j)
  PROVE  JobsInv'
<1> USE DEF JobsInv, Register
<1>1. /\ inQueue' \in Seq(Jobs) /\ Len(inQueue') = Len(inQueue) + 1 /\ Len(inQueue) \in Nat
      /\ \A i \in 1 .. Len(inQueue) : inQueue'[i] = inQueue[i]
      /\ inQueue'[Len(inQueue) + 1] = j
  BY AppendProperties, LenProperties DEF JobsTypeOK
<1>2. JobsTypeOK'
  BY <1>1 DEF JobsTypeOK, JobPcs
<1>3. JobInv'
  BY DEF JobsTypeOK, JobInv, Terminal
<1>4. jobState[j] # "queued" /\ \A i \in 1 .. Len(inQueue) : inQueue[i] # j
  BY DEF JobInv, QueueIsQueued
<1>5. QueueIsQueued'
  <2>1. \A k \in Jobs : (\E i \in 1 .. Len(inQueue') : inQueue'[i] = k) <=> jobState'[k] = "queued"
    <3> TAKE k \in Jobs
    <3>1. jobState'[k] = IF k = j THEN "queued" ELSE jobState[k]
      BY DEF JobsTypeOK
    <3>2. (\E i \in 1 .. Len(inQueue) : inQueue[i] = k) <=> jobState[k] = "queued"
      BY DEF QueueIsQueued
    <3> QED  BY <1>1, <1>4, <3>1, <3>2
  <2>2. \A i, k \in 1 .. Len(inQueue') : inQueue'[i] = inQueue'[k] => i = k
    BY <1>1, <1>4 DEF QueueIsQueued
  <2> QED  BY <2>1, <2>2 DEF QueueIsQueued
<1>6. SlotsAreHeld'
  BY SlotsKept DEF JobPcs
<1> QED  BY <1>2, <1>3, <1>5, <1>6

\* Starting a job and cancelling it take it out of the queue.
LEMMA LeaveQueueStep ==
  ASSUME JobsInv, NEW j \in Jobs, jobState[j] \in {"queued", "cancelled"},
         NEW s \in {"processing", "cancelled"},
         jobState' = [jobState EXCEPT ![j] = s], inQueue' = Without(inQueue, j)
  PROVE  inQueue' \in Seq(Jobs) /\ QueueIsQueued'
<1>1. PICK q : q = Without(inQueue, j)
  OBVIOUS
<1>2. /\ q \in Seq(Jobs)
      /\ \A k \in Jobs : (\E i \in 1 .. Len(q) : q[i] = k)
           <=> k # j /\ \E i \in 1 .. Len(inQueue) : inQueue[i] = k
      /\ \A i, k \in 1 .. Len(q) : q[i] = q[k] => i = k
  <2>1. inQueue \in Seq(Jobs) /\ Once(inQueue)
    BY DEF JobsInv, JobsTypeOK, QueueIsQueued, Once
  <2>2. q \in Seq(Jobs) /\ LeftOf(q, inQueue, j)
    BY <1>1, <2>1, WithoutLemma
  <2>3. ASSUME NEW k \in Jobs, k # j, NEW n \in 1 .. Len(inQueue), inQueue[n] = k
        PROVE  \E i \in 1 .. Len(q) : q[i] = k
    <3>1. PICK i \in 1 .. n : i <= Len(q) /\ q[i] = inQueue[n]
      BY <2>2, <2>3 DEF LeftOf
    <3>2. Len(q) \in Nat /\ Len(inQueue) \in Nat
      BY <2>2, LenProperties DEF JobsInv, JobsTypeOK, LeftOf
    <3> QED  BY <2>3, <3>1, <3>2
  <2> QED  BY <2>2, <2>3 DEF LeftOf, Once
<1>3. \A k \in Jobs : jobState'[k] = "queued" <=> k # j /\ jobState[k] = "queued"
  BY DEF JobsInv, JobsTypeOK
<1> QED  BY <1>1, <1>2, <1>3 DEF JobsInv, QueueIsQueued

LEMMA StartStep ==
  ASSUME JobsInv, NEW j \in Jobs, StartJob(j)
  PROVE  JobsInv'
<1> USE DEF JobsInv, StartJob
<1>1. jobState[j] = "queued"
  BY DEF JobInv
<1>2. inQueue' \in Seq(Jobs) /\ QueueIsQueued'
  BY <1>1, LeaveQueueStep
<1>3. JobsTypeOK'
  BY <1>2 DEF JobsTypeOK, JobPcs
<1>4. JobInv'
  BY <1>1 DEF JobsTypeOK, JobInv, Terminal
<1>5. SlotsAreHeld'
  BY SlotsKept DEF JobPcs
<1> QED  BY <1>2, <1>3, <1>4, <1>5

LEMMA CancelStep ==
  ASSUME JobsInv, NEW j \in Jobs, Cancel(j)
  PROVE  JobsInv'
<1> USE DEF JobsInv, Cancel
<1>1. inQueue' \in Seq(Jobs) /\ QueueIsQueued'
  BY LeaveQueueStep
<1>2. JobsTypeOK'
  BY <1>1 DEF JobsTypeOK, Terminal
<1>3. jobPc[j] = "spawned"
  BY DEF JobsTypeOK, JobPcs, JobInv, Terminal
<1>4. JobInv'
  BY <1>3 DEF JobsTypeOK, JobInv, Terminal
<1>5. Holders' = Holders /\ Generating' = Generating
  BY DEF Holders, Generating
<1> QED  BY <1>1, <1>2, <1>4, <1>5 DEF SlotsAreHeld

\* The steps that leave the queue alone and keep the slot.
LEMMA GoOnStep ==
  ASSUME JobsInv, NEW j \in Jobs, ExitCancelled(j) \/ Finalize(j) \/ CloseDone(j)
  PROVE  JobsInv'
<1> USE DEF JobsInv, registry
<1>1. ASSUME ExitCancelled(j) \/ CloseDone(j)  PROVE JobsInv'
  <2>1. JobsTypeOK' /\ JobInv'
    BY <1>1 DEF ExitCancelled, CloseDone, JobsTypeOK, JobInv, JobPcs, Terminal
  <2>2. QueueIsQueued'
    BY <1>1 DEF ExitCancelled, CloseDone, QueueIsQueued
  <2>3. SlotsAreHeld'
    BY <1>1, SlotsKept DEF ExitCancelled, CloseDone, JobPcs
  <2> QED  BY <2>1, <2>2, <2>3
<1>2. ASSUME Finalize(j)  PROVE JobsInv'
  <2>1. PICK s \in {"completed", "failed"} : jobState' = [jobState EXCEPT ![j] = s]
    BY <1>2 DEF Finalize
  <2>2. JobsTypeOK' /\ JobInv'
    BY <1>2, <2>1 DEF Finalize, JobsTypeOK, JobInv, JobPcs, Terminal
  <2>3. QueueIsQueued'
    BY <1>2, <2>1 DEF Finalize, QueueIsQueued, JobsTypeOK, JobInv
  <2>4. SlotsAreHeld'
    BY <1>2, SlotsKept DEF Finalize, JobPcs
  <2> QED  BY <2>2, <2>3, <2>4
<1> QED  BY <1>1, <1>2

LEMMA ReleaseStep ==
  ASSUME JobsInv, NEW j \in Jobs, Release(j)
  PROVE  JobsInv'
<1> USE DEF JobsInv, Release, ReleaseSlot, registry
<1>1. j \in Holders /\ Holders' = Holders \ {j} /\ Generating' = Generating
  BY DEF JobsTypeOK, Holders, Generating
<1>2. Cardinality(Holders') = Cardinality(Holders) - 1
  BY <1>1, HoldersAreFinite, FS_RemoveElement
<1>3. SlotsAreHeld'
  BY <1>1, <1>2, HoldersAreFinite DEF SlotsAreHeld
<1>4. used' \in 0 .. Capacity
  BY <1>2, HoldersAreFinite, SdJobsAssumption DEF JobsTypeOK, SlotsAreHeld
<1>5. JobsTypeOK'
  BY <1>4 DEF JobsTypeOK, JobPcs
<1>6. JobInv' /\ QueueIsQueued'
  BY DEF JobsTypeOK, JobInv, QueueIsQueued, Terminal
<1> QED  BY <1>3, <1>5, <1>6

LEMMA SyncStep ==
  ASSUME JobsInv, NEW s \in Syncs, BeginSync(s) \/ EndSync(s)
  PROVE  JobsInv'
<1> USE DEF JobsInv, registry
<1>1. Holders' = Holders
  BY DEF BeginSync, EndSync, Holders
<1>2. ASSUME BeginSync(s)  PROVE SlotsAreHeld' /\ used' \in 0 .. Capacity
  <2>1. s \notin Generating /\ Generating' = Generating \union {s}
    BY <1>2 DEF BeginSync, JobsTypeOK, Generating
  <2>2. Cardinality(Generating') = Cardinality(Generating) + 1
    BY <2>1, HoldersAreFinite, FS_AddElement
  <2>3. used' = used + 1 /\ used' \in 0 .. Capacity
    BY <1>2, SdJobsAssumption DEF BeginSync, Acquire, JobsTypeOK
  <2> QED  BY <1>1, <2>2, <2>3, HoldersAreFinite DEF SlotsAreHeld
<1>3. ASSUME EndSync(s)  PROVE SlotsAreHeld' /\ used' \in 0 .. Capacity
  <2>1. s \in Generating /\ Generating' = Generating \ {s}
    BY <1>3 DEF EndSync, JobsTypeOK, Generating
  <2>2. Cardinality(Generating') = Cardinality(Generating) - 1
    BY <2>1, HoldersAreFinite, FS_RemoveElement
  <2>3. used' = used - 1
    BY <1>3 DEF EndSync, ReleaseSlot
  <2>4. used' \in 0 .. Capacity
    BY <2>2, <2>3, HoldersAreFinite, SdJobsAssumption DEF JobsTypeOK, SlotsAreHeld
  <2> QED  BY <1>1, <2>2, <2>3, <2>4, HoldersAreFinite DEF SlotsAreHeld
<1>4. JobsTypeOK'
  BY <1>2, <1>3 DEF JobsTypeOK, BeginSync, EndSync
<1>5. JobInv' /\ QueueIsQueued'
  BY DEF BeginSync, EndSync, JobInv, QueueIsQueued
<1> QED  BY <1>2, <1>3, <1>4, <1>5

LEMMA StepJobsInv == JobsInv /\ [JobsNext]_jobsVars => JobsInv'
<1> SUFFICES ASSUME JobsInv, [JobsNext]_jobsVars  PROVE JobsInv'
  OBVIOUS
<1>1. ASSUME NEW j \in Jobs, Submit(j) \/ Register(j) \/ RunAsync(j) \/ Cancel(j)  PROVE JobsInv'
  BY <1>1, SubmitStep, RegisterStep, StartStep, GoOnStep, ReleaseStep, CancelStep DEF RunAsync
<1>2. ASSUME NEW j \in Jobs, Collect(j)  PROVE JobsInv'
  BY <1>2 DEF Collect, JobsInv, JobsTypeOK, JobInv, QueueIsQueued, SlotsAreHeld, Holders, Generating
<1>3. ASSUME NEW s \in Syncs, BeginSync(s) \/ EndSync(s)  PROVE JobsInv'
  BY <1>3, SyncStep
<1>4. CASE UNCHANGED jobsVars
  BY <1>4 DEF jobsVars, registry, JobsInv, JobsTypeOK, JobInv, QueueIsQueued, SlotsAreHeld,
     Holders, Generating
<1> QED  BY <1>1, <1>2, <1>3, <1>4 DEF JobsNext

-----------------------------------------------------------------------------
(* The theorems.                                                           *)

THEOREM JobsInvariant == JobsSpec => []JobsInv
<1> QED  BY InitJobsInv, StepJobsInv, PTL DEF JobsSpec

\* Type correctness of the job registry: the semaphore stays within its
\* capacity, and no release is called without a slot.
THEOREM JobsTypeCorrect == JobsSpec => []JobsTypeOK
<1>1. JobsInv => JobsTypeOK  BY DEF JobsInv
<1> QED  BY <1>1, JobsInvariant, PTL

\* However jobs start, end and are cancelled, the semaphore counts those that
\* still have to release.
THEOREM SlotsAlwaysHeld == JobsSpec => []SlotsAreHeld
<1>1. JobsInv => SlotsAreHeld  BY DEF JobsInv
<1> QED  BY <1>1, JobsInvariant, PTL

\* The queue lists exactly the queued jobs, each once.
THEOREM QueueAlwaysQueued == JobsSpec => []QueueIsQueued
<1>1. JobsInv => QueueIsQueued  BY DEF JobsInv
<1> QED  BY <1>1, JobsInvariant, PTL

\* Wait returns when done is closed and then reads the record: it is final.
THEOREM DoneAlwaysFinal == JobsSpec => []DoneIsFinal
<1>1. JobsInv => DoneIsFinal
  BY DEF JobsInv, JobsTypeOK, JobInv, DoneIsFinal
<1> QED  BY <1>1, JobsInvariant, PTL

\* No step of any goroutine takes a job out of a final state.
THEOREM FinalStaysFinal == JobsSpec => FinalIsFinal
<1>1. JobsInv /\ [JobsNext]_jobsVars => \A j \in Jobs : jobState[j] \in Terminal => jobState'[j] = jobState[j]
  <2> SUFFICES ASSUME JobsInv, [JobsNext]_jobsVars, NEW j \in Jobs, jobState[j] \in Terminal
               PROVE  jobState'[j] = jobState[j]
    OBVIOUS
  <2> USE DEF JobsInv, JobsTypeOK, JobInv, Terminal, registry
  <2>1. ASSUME NEW k \in Jobs, Register(k) \/ StartJob(k) \/ Finalize(k) \/ Cancel(k)
        PROVE  jobState'[j] = jobState[j]
    <3>1. k # j
      BY <2>1 DEF Register, StartJob, Finalize, Cancel
    <3>2. PICK s : jobState' = [jobState EXCEPT ![k] = s]
      BY <2>1 DEF Register, StartJob, Finalize, Cancel
    <3> QED  BY <3>1, <3>2
  <2>2. ASSUME NEW k \in Jobs, Submit(k) \/ ExitCancelled(k) \/ CloseDone(k) \/ Release(k) \/ Collect(k)
        PROVE  jobState'[j] = jobState[j]
    BY <2>2 DEF Submit, ExitCancelled, CloseDone, Release, Collect
  <2>3. ASSUME NEW s \in Syncs, BeginSync(s) \/ EndSync(s)  PROVE jobState'[j] = jobState[j]
    BY <2>3 DEF BeginSync, EndSync
  <2>4. CASE UNCHANGED jobsVars
    BY <2>4 DEF jobsVars
  <2> QED  BY <2>1, <2>2, <2>3, <2>4 DEF JobsNext, RunAsync
<1> QED  BY <1>1, JobsInvariant, PTL DEF JobsSpec, FinalIsFinal

\* A job that stays queued never moves back.
THEOREM PositionsNeverGrow == JobsSpec => PositionNeverGrows
<1>1. JobsInv /\ [JobsNext]_jobsVars =>
        \A i \in 1 .. Len(inQueue) :
          jobState'[inQueue[i]] = "queued" => \E k \in 1 .. i : inQueue'[k] = inQueue[i]
  <2> SUFFICES ASSUME JobsInv, [JobsNext]_jobsVars, NEW i \in 1 .. Len(inQueue),
                      jobState'[inQueue[i]] = "queued"
               PROVE  \E k \in 1 .. i : inQueue'[k] = inQueue[i]
    OBVIOUS
  <2>1. Len(inQueue) \in Nat /\ i \in 1 .. i /\ inQueue[i] \in Jobs
    BY SeqDomain DEF JobsInv, JobsTypeOK
  <2>2. ASSUME NEW j \in Jobs, Register(j)  PROVE inQueue'[i] = inQueue[i]
    BY <2>2, AppendProperties DEF Register, JobsInv, JobsTypeOK
  <2>3. ASSUME NEW j \in Jobs, StartJob(j) \/ Cancel(j)
        PROVE  \E k \in 1 .. i : inQueue'[k] = inQueue[i]
    <3>1. PICK q : q = Without(inQueue, j)
      OBVIOUS
    <3>2. LeftOf(q, inQueue, j)
      <4>1. inQueue \in Seq(Jobs) /\ Once(inQueue)
        BY DEF JobsInv, JobsTypeOK, QueueIsQueued, Once
      <4>2. q \in Seq(Jobs) /\ LeftOf(q, inQueue, j)
        BY <3>1, <4>1, WithoutLemma
      <4> QED  BY <4>2
    <3>3. inQueue[i] # j
      BY <2>1, <2>3 DEF StartJob, Cancel, JobsInv, JobsTypeOK
    <3>4. \E k \in 1 .. i : q[k] = inQueue[i]
      BY <3>2, <3>3 DEF LeftOf
    <3>5. inQueue' = q
      BY <2>3, <3>1 DEF StartJob, Cancel
    <3> QED  BY <3>4, <3>5
  <2>4. ASSUME NEW j \in Jobs,
               Submit(j) \/ ExitCancelled(j) \/ Finalize(j) \/ CloseDone(j) \/ Release(j) \/ Collect(j)
        PROVE  inQueue'[i] = inQueue[i]
    BY <2>4 DEF Submit, ExitCancelled, Finalize, CloseDone, Release, Collect, registry
  <2>5. ASSUME NEW s \in Syncs, BeginSync(s) \/ EndSync(s)  PROVE inQueue'[i] = inQueue[i]
    BY <2>5 DEF BeginSync, EndSync, registry
  <2>6. CASE UNCHANGED jobsVars
    BY <2>1, <2>6 DEF jobsVars, registry
  <2> QED  BY <2>1, <2>2, <2>3, <2>4, <2>5, <2>6 DEF JobsNext, RunAsync
<1> QED  BY <1>1, JobsInvariant, PTL DEF JobsSpec, PositionNeverGrows

-----------------------------------------------------------------------------
(* The job runner implements JobBoard.                                     *)

\* The registry knows a job from Submit until it is collected, which happens
\* once and only to a job that has run.
BoardInv ==
  \A j \in Jobs :
    /\ j \in registered => jobState[j] # "none"
    /\ jobState[j] \in {"queued", "processing", "cancelled"} => j \in registered
    /\ j \in collecting => j \in registered /\ jobState[j] \in {"completed", "failed"}

LEMMA StepBoardInv == JobsInv /\ BoardInv /\ [JobsNext]_jobsVars => BoardInv'
<1> SUFFICES ASSUME JobsInv, BoardInv, [JobsNext]_jobsVars  PROVE BoardInv'
  OBVIOUS
<1> USE DEF JobsInv, JobsTypeOK, JobInv, BoardInv, Terminal, registry
<1>1. ASSUME NEW j \in Jobs, Register(j) \/ StartJob(j) \/ Finalize(j) \/ Cancel(j)  PROVE BoardInv'
  <2>1. CASE Register(j)
    BY <2>1 DEF Register
  <2>2. CASE StartJob(j)
    BY <2>2 DEF StartJob
  <2>3. CASE Finalize(j)
    BY <2>3 DEF Finalize
  <2>4. CASE Cancel(j)
    BY <2>4 DEF Cancel
  <2> QED  BY <1>1, <2>1, <2>2, <2>3, <2>4
<1>2. ASSUME NEW j \in Jobs, Submit(j) \/ ExitCancelled(j) \/ CloseDone(j) \/ Release(j)  PROVE BoardInv'
  BY <1>2 DEF Submit, ExitCancelled, CloseDone, Release
<1>3. ASSUME NEW j \in Jobs, Collect(j)  PROVE BoardInv'
  BY <1>3 DEF Collect
<1>4. ASSUME NEW s \in Syncs, BeginSync(s) \/ EndSync(s)  PROVE BoardInv'
  BY <1>4 DEF BeginSync, EndSync
<1>5. CASE UNCHANGED jobsVars
  BY <1>5 DEF jobsVars
<1> QED  BY <1>1, <1>2, <1>3, <1>4, <1>5 DEF JobsNext, RunAsync

\* What clients are told, job by job.
ToldMatches ==
  /\ Told \in [Jobs -> Terminal \union {"none", "queued", "processing", "gone"}]
  /\ \A j \in Jobs :
       Told[j] = IF jobState[j] \in {"completed", "failed"} /\ j \notin registered
                 THEN "gone" ELSE jobState[j]

LEMMA ToldIs ==
  /\ JobsInv /\ BoardInv => ToldMatches
  /\ JobsInv' /\ BoardInv' => ToldMatches'
BY DEF Told, ToldMatches, JobsInv, JobsTypeOK, JobInv, BoardInv, Terminal

\* One job may change its state, and no other is affected.
LEMMA ToldBecomes ==
  ASSUME JobsInv, BoardInv, JobsInv', BoardInv', NEW j \in Jobs,
         \A k \in Jobs : k # j => jobState'[k] = jobState[k] /\ (k \in registered' <=> k \in registered)
  PROVE  Board!Becomes(j, Told'[j])
<1>1. \A k \in Jobs : k # j => Told'[k] = Told[k]
  BY ToldIs DEF ToldMatches
<1>2. Told' \in [Jobs -> Terminal \union {"none", "queued", "processing", "gone"}]
  BY ToldIs DEF ToldMatches
<1> QED  BY <1>1, <1>2, ToldIs DEF ToldMatches, Board!Becomes

LEMMA BoardStutters ==
  ASSUME JobsInv, BoardInv, JobsInv', BoardInv', UNCHANGED <<registered, jobState, inQueue, done>>
  PROVE  UNCHANGED Board!boardVars
<1>1. \A k \in Jobs : Told'[k] = Told[k]
  BY ToldIs DEF ToldMatches
<1>2. Told' = Told
  BY <1>1, ToldIs DEF ToldMatches
<1> QED  BY <1>2 DEF Board!boardVars

\* A job that clients see queued or in progress has a slot, and so has the job
\* that is about to be registered.
LEMMA RegisterPosts ==
  ASSUME JobsInv, BoardInv, JobsInv', BoardInv', NEW j \in Jobs, Register(j)
  PROVE  Board!Post(j)
<1>1. jobPc[j] = "accepted" /\ jobState[j] = "none" /\ Told[j] = "none" /\ j \in Holders
  BY ToldIs DEF ToldMatches, Register, JobsInv, JobInv, Holders
<1>2. Board!Live \subseteq Holders \ {j}
  BY <1>1, ToldIs DEF ToldMatches, Board!Live, Holders, JobsInv, JobsTypeOK, JobInv, Terminal
<1>3. Cardinality(Holders \ {j}) = Cardinality(Holders) - 1 /\ IsFiniteSet(Holders \ {j})
  BY <1>1, HoldersAreFinite, FS_RemoveElement
<1>4. Cardinality(Board!Live) <= Cardinality(Holders \ {j}) /\ Cardinality(Board!Live) \in Nat
  BY <1>2, <1>3, FS_Subset, FS_CardinalityType
<1>5. Cardinality(Board!Live) < Capacity
  BY <1>3, <1>4, HoldersAreFinite, SdJobsAssumption DEF JobsInv, JobsTypeOK, SlotsAreHeld
<1>6. Board!Cardinality(Board!Live) = Cardinality(Board!Live)
  BY Zenon DEF Cardinality, Board!Cardinality
<1>7. Told'[j] = "queued"
  BY ToldIs DEF ToldMatches, Register, JobsInv, JobsTypeOK
<1>8. \A k \in Jobs : k # j => jobState'[k] = jobState[k] /\ (k \in registered' <=> k \in registered)
  BY DEF Register, JobsInv, JobsTypeOK
<1>9. Board!Becomes(j, "queued")
  BY <1>7, <1>8, ToldBecomes
<1> QED  BY <1>1, <1>5, <1>6, <1>9 DEF Board!Post, Register

LEMMA JobsStepIsBoardStep ==
  ASSUME JobsInv, BoardInv, JobsInv', BoardInv', [JobsNext]_jobsVars
  PROVE  [Board!BoardNext]_(Board!boardVars)
<1>1. ASSUME NEW j \in Jobs, Submit(j) \/ ExitCancelled(j) \/ Release(j)
      PROVE  UNCHANGED Board!boardVars
  BY <1>1, BoardStutters DEF Submit, ExitCancelled, Release, registry
<1>2. ASSUME NEW s \in Syncs, BeginSync(s) \/ EndSync(s)  PROVE UNCHANGED Board!boardVars
  BY <1>2, BoardStutters DEF BeginSync, EndSync, registry
<1>3. CASE UNCHANGED jobsVars
  BY <1>3, BoardStutters DEF jobsVars, registry
<1>4. ASSUME NEW j \in Jobs, StartJob(j) \/ Cancel(j)  PROVE Board!TakeUp(j)
  <2>1. jobState[j] = "queued" /\ UNCHANGED <<registered, done>> /\ inQueue' = Without(inQueue, j)
    BY <1>4 DEF StartJob, Cancel, JobsInv, JobInv
  <2>2. PICK s \in {"processing", "cancelled"} : jobState' = [jobState EXCEPT ![j] = s]
    BY <1>4 DEF StartJob, Cancel
  <2>3. Told[j] = "queued" /\ Told'[j] = s
    <3>1. jobState'[j] = s
      BY <2>2 DEF JobsInv, JobsTypeOK
    <3> QED  BY <2>1, <3>1, ToldIs DEF ToldMatches
  <2>4. Board!Becomes(j, s)
    BY <2>1, <2>2, <2>3, ToldBecomes
  <2>5. Board!Without(inQueue, j) = Without(inQueue, j)
    BY Zenon DEF Without, Board!Without, RemoveAt, Board!RemoveAt
  <2> QED  BY <2>1, <2>3, <2>4, <2>5 DEF Board!TakeUp
<1>5. ASSUME NEW j \in Jobs, Finalize(j)  PROVE Board!Finish(j)
  <2>1. jobState[j] = "processing" /\ j \in registered /\ UNCHANGED <<registered, done, inQueue>>
    BY <1>5 DEF Finalize, JobsInv, JobInv, BoardInv
  <2>2. PICK s \in {"completed", "failed"} : jobState' = [jobState EXCEPT ![j] = s]
    BY <1>5 DEF Finalize
  <2>3. Told[j] = "processing" /\ Told'[j] = s
    BY <2>1, <2>2, ToldIs DEF ToldMatches, JobsInv, JobsTypeOK
  <2>4. Board!Becomes(j, s)
    BY <2>1, <2>2, <2>3, ToldBecomes
  <2> QED  BY <2>1, <2>3, <2>4 DEF Board!Finish, Board!HasRun
<1>6. ASSUME NEW j \in Jobs, CloseDone(j)  PROVE Board!Answer(j)
  <2>1. UNCHANGED <<registered, jobState, inQueue>> /\ done' = done \union {j} /\ jobPc[j] = "close"
    BY <1>6 DEF CloseDone, registry
  <2>2. jobState[j] \in Terminal /\ j \notin done
    BY <2>1 DEF JobsInv, JobInv
  <2>3. Told[j] \in Board!Over
    BY <2>2, ToldIs DEF ToldMatches, Board!Over, Board!HasRun, Terminal
  <2>4. \A k \in Jobs : Told'[k] = Told[k]
    BY <2>1, ToldIs DEF ToldMatches
  <2>5. Told' = Told
    BY <2>4, ToldIs DEF ToldMatches
  <2> QED  BY <2>1, <2>2, <2>3, <2>5 DEF Board!Answer
<1>7. ASSUME NEW j \in Jobs, Collect(j)  PROVE Board!Forget(j)
  <2>1. /\ j \in registered /\ jobState[j] \in {"completed", "failed"}
        /\ registered' = registered \ {j} /\ UNCHANGED <<jobState, done, inQueue>>
    BY <1>7 DEF Collect, BoardInv
  <2>2. Told[j] = jobState[j] /\ Told'[j] = "gone"
    BY <2>1, ToldIs DEF ToldMatches
  <2>3. Board!Becomes(j, "gone")
    BY <2>1, <2>2, ToldBecomes
  <2> QED  BY <2>1, <2>2, <2>3 DEF Board!Forget, Board!HasRun
<1> QED
  BY <1>1, <1>2, <1>3, <1>4, <1>5, <1>6, <1>7, RegisterPosts DEF JobsNext, RunAsync, Board!BoardNext

\* Queue and JobRunner implement JobBoard for any jobs, handlers and capacity:
\* clients never see more than Capacity jobs queued or in progress, a position
\* that grows, a final job that is something else later, or a lost one.
THEOREM SdJobsImplementBoard == JobsSpec => ImplementsBoard
<1>1. JobsInit => BoardInv
  BY DEF JobsInit, BoardInv
<1>2. JobsInit => Board!BoardInit
  <2> SUFFICES ASSUME JobsInit  PROVE Board!BoardInit
    OBVIOUS
  <2>1. Told = [j \in Jobs |-> "none"]
    BY DEF JobsInit, Told
  <2> QED  BY <2>1 DEF JobsInit, Board!BoardInit
<1> QED
  BY <1>1, <1>2, InitJobsInv, StepJobsInv, StepBoardInv, JobsStepIsBoardStep, PTL
  DEF JobsSpec, ImplementsBoard, Board!BoardSpec

-----------------------------------------------------------------------------
(* The supervisor.                                                         *)

\* Where the call that runs a load is: until it installs its process there is
\* no current one.
Opening == {"stopPrev", "prepare", "start", "probe", "reap", "install", "fail"}
Loading == Opening \union {"loadedOk", "loadedErr"}
Stopping == {"stopPrev", "stop"}

\* One load at a time, and nobody but a load makes a process the current one.
FlightInv ==
  /\ \A c \in Callers : pc[c] \in Loading => loading
  /\ \A c, d \in Callers : pc[c] \in Loading /\ pc[d] \in Loading => c = d
  /\ \A c \in Callers : pc[c] \in Opening => proc = 0

\* A call that loads, or will, has a model to load.
WantInv ==
  \A c \in Callers :
    \/ pc[c] \in Loading \union {"load", "ensure", "ensureState", "ensureNotLoading"}
    \/ pc[c] \in {"unload", "stop"} /\ Role[c] = "reload"
    => want[c] \in Models

\* A process that waits for its installation was told to stop by nobody, and
\* nobody is about to: its generation is newer than all others.
FreshInv ==
  \A c \in Callers : pc[c] \in Loading =>
    /\ mine[c] # 0
    /\ pc[c] \in {"stopPrev", "prepare", "start", "probe", "install"} =>
         /\ mine[c] \notin stopped
         /\ \A d \in Callers : pc[d] \in Stopping => target[d] # mine[c]

\* The same for the current process.
CurrentInv ==
  proc # 0 => /\ proc \notin stopped
              /\ \A d \in Callers : pc[d] \in Stopping => target[d] # proc

\* There is at most one server, and none while a call that has seen the port
\* free has not started its own.
Alone ==
  /\ \A p, q \in alive : p = q
  /\ \A c \in Callers : pc[c] = "start" => alive = {}

SupervisorInv ==
  /\ TypeOK /\ FlightInv /\ WantInv /\ FreshInv /\ CurrentInv
  /\ Alone /\ NoOrphan /\ LoadedHasProcess

-----------------------------------------------------------------------------

LEMMA InitSupervisorInv == Init => SupervisorInv
<1> SUFFICES ASSUME Init  PROVE SupervisorInv
  OBVIOUS
<1>1. TypeOK
  <2>1. gen \in Nat /\ proc \in 0 .. gen /\ 0 \in 0 .. gen
    BY DEF Init
  <2>2. mine \in [Callers -> 0 .. gen] /\ target \in [Callers -> 0 .. gen]
    BY <2>1 DEF Init
  <2>3. pc \in [Callers -> Pcs] /\ want \in [Callers -> Models \union {NoModel}]
    BY DEF Init, Pcs
  <2> QED  BY <2>1, <2>2, <2>3 DEF Init, TypeOK
<1>2. FlightInv /\ WantInv /\ FreshInv
  BY DEF Init, FlightInv, WantInv, FreshInv, Loading, Opening
<1>3. CurrentInv /\ Alone /\ NoOrphan
  BY DEF Init, CurrentInv, Alone, NoOrphan
<1>4. LoadedHasProcess
  BY DEF Init, LoadedHasProcess
<1> QED  BY <1>1, <1>2, <1>3, <1>4 DEF SupervisorInv

\* A step of a call that neither loads nor stops.
LEMMA OutsideStep ==
  ASSUME SupervisorInv, UNCHANGED <<shared, flight, gen, procs, mine>>, inFlight' \in Nat,
         NEW c \in Callers, NEW l \in Pcs,
         pc[c] \notin Loading \union Stopping, l \notin Loading \union Stopping,
         pc' = [pc EXCEPT ![c] = l],
         target' \in [Callers -> 0 .. gen], \A d \in Callers : d # c => target'[d] = target[d],
         want' \in [Callers -> Models \union {NoModel}],
         \A d \in Callers : d # c => want'[d] = want[d],
         \/ l \in {"load", "ensure", "ensureState", "ensureNotLoading"}
         \/ l = "unload" /\ Role[c] = "reload"
         => want'[c] \in Models
  PROVE  SupervisorInv'
<1> USE DEF SupervisorInv, shared, flight, procs
<1>1. TypeOK'
  BY DEF TypeOK
<1>2. /\ pc'[c] \notin Loading \union Stopping /\ pc'[c] = l
      /\ \A d \in Callers : d # c => pc'[d] = pc[d]
  BY DEF TypeOK
<1>3. FlightInv'
  BY <1>2 DEF FlightInv, Loading
<1>4. WantInv'
  BY <1>2 DEF WantInv, Stopping
<1>5. FreshInv' /\ CurrentInv'
  BY <1>2 DEF FreshInv, CurrentInv
<1>6. Alone' /\ LoadedHasProcess'
  BY <1>2 DEF Alone, LoadedHasProcess, Loading, Opening
<1>7. NoOrphan'
  <2> SUFFICES ASSUME NEW p \in alive \ stopped
               PROVE  \/ proc = p
                      \/ \E d \in Callers : mine[d] = p /\ pc'[d] \in {"probe", "install"}
                      \/ \E d \in Callers : target'[d] = p /\ pc'[d] \in {"stopPrev", "stop"}
    BY DEF NoOrphan
  <2>1. \A d \in Callers : pc[d] \in {"probe", "install", "stopPrev", "stop"} => d # c
    BY DEF Loading, Opening, Stopping
  <2>2. \/ proc = p
        \/ \E d \in Callers : mine[d] = p /\ pc[d] \in {"probe", "install"}
        \/ \E d \in Callers : target[d] = p /\ pc[d] \in {"stopPrev", "stop"}
    BY DEF NoOrphan
  <2> QED  BY <1>2, <2>1, <2>2
<1> QED  BY <1>1, <1>3, <1>4, <1>5, <1>6, <1>7

LEMMA CallStep ==
  ASSUME SupervisorInv, NEW c \in Callers,
         \/ AlreadyLoaded(c) \/ JoinLoad(c) \/ SeeLoadEnded(c) \/ ReturnOther(c)
         \/ EnsureLoaded(c) \/ EnsureState(c) \/ EnsureNotLoading(c) \/ GetClient(c)
         \/ Start(c) \/ EndRequest(c)
  PROVE  SupervisorInv'
<1> USE DEF SupervisorInv, Goto, LoadOk, LoadFails, locals, Pcs, Loading, Opening, Stopping
<1>1. TypeOK /\ WantInv
  OBVIOUS
<1>2. CASE AlreadyLoaded(c) \/ JoinLoad(c) \/ SeeLoadEnded(c) \/ ReturnOther(c) \/ FinishGenerate(c)
  <2>1. PICK l \in {"client", "end", "idle", "waiting", "waited"} : pc' = [pc EXCEPT ![c] = l]
    BY <1>2 DEF AlreadyLoaded, JoinLoad, SeeLoadEnded, ReturnOther, FinishGenerate
  <2>2. /\ UNCHANGED <<shared, flight, gen, procs, mine, inFlight, want, target>>
        /\ pc[c] \in {"load", "waiting", "waited", "generating"}
    BY <1>2 DEF AlreadyLoaded, JoinLoad, SeeLoadEnded, ReturnOther, FinishGenerate
  <2> HIDE DEF SupervisorInv
  <2> QED  BY <1>1, <2>1, <2>2, OutsideStep DEF TypeOK
<1>3. CASE EnsureLoaded(c) \/ EnsureState(c) \/ EnsureNotLoading(c)
  <2>1. PICK l \in {"client", "end", "load", "ensureState", "ensureNotLoading"} :
          pc' = [pc EXCEPT ![c] = l]
    BY <1>3 DEF EnsureLoaded, EnsureState, EnsureNotLoading
  <2>2. /\ UNCHANGED <<shared, flight, gen, procs, mine, inFlight, want, target>>
        /\ pc[c] \in {"ensure", "ensureState", "ensureNotLoading"}
    BY <1>3 DEF EnsureLoaded, EnsureState, EnsureNotLoading
  <2>3. want[c] \in Models
    BY <1>1, <2>2 DEF WantInv
  <2> HIDE DEF SupervisorInv
  <2> QED  BY <1>1, <2>1, <2>2, <2>3, OutsideStep DEF TypeOK
<1>4. CASE GetClient(c) \/ EndRequest(c)
  <2>1. PICK l \in {"generating", "end", "idle"} : pc' = [pc EXCEPT ![c] = l]
    BY <1>4 DEF GetClient, EndRequest
  <2>2. PICK p \in 0 .. gen : target' = [target EXCEPT ![c] = p]
    BY <1>1, <1>4 DEF GetClient, EndRequest, TypeOK
  <2>3. /\ UNCHANGED <<shared, flight, gen, procs, mine, want>>
        /\ pc[c] \in {"client", "end"} /\ inFlight' \in Nat
    BY <1>1, <1>4 DEF GetClient, EndRequest, TypeOK
  <2> HIDE DEF SupervisorInv
  <2> QED  BY <1>1, <2>1, <2>2, <2>3, OutsideStep DEF TypeOK
<1>5. CASE BeginGenerate(c) \/ RequestLoad(c)
  <2>1. PICK l \in {"ensure", "load", "unload"}, m \in Models :
          pc' = [pc EXCEPT ![c] = l] /\ want' = [want EXCEPT ![c] = m]
    BY <1>5 DEF BeginGenerate, RequestLoad
  <2>2. /\ UNCHANGED <<shared, flight, gen, procs, mine, target>>
        /\ pc[c] = "idle" /\ inFlight' \in Nat
    BY <1>1, <1>5 DEF BeginGenerate, RequestLoad, TypeOK
  <2> HIDE DEF SupervisorInv
  <2> QED  BY <1>1, <2>1, <2>2, OutsideStep DEF TypeOK
<1>6. CASE RequestUnload(c)
  <2>1. /\ UNCHANGED <<shared, flight, gen, procs, mine, inFlight, want, target>>
        /\ pc[c] = "idle" /\ pc' = [pc EXCEPT ![c] = "unload"] /\ Role[c] = "unload"
    BY <1>6 DEF RequestUnload
  <2> HIDE DEF SupervisorInv
  <2> QED  BY <1>1, <2>1, OutsideStep DEF TypeOK
<1> QED  BY <1>2, <1>3, <1>4, <1>5, <1>6 DEF Start

-----------------------------------------------------------------------------
(* The steps of a load.                                                    *)

\* The call drops the current process and takes it to stop it.
LEMMA BeginLoadStep ==
  ASSUME SupervisorInv, NEW c \in Callers, BeginLoad(c)
  PROVE  SupervisorInv'
<1> USE DEF SupervisorInv, BeginLoad, Goto, DropProcess, Loading, Opening, Stopping, procs
<1>1. /\ gen \in Nat /\ gen' = gen + 1 /\ pc[c] = "load" /\ proc' = 0
      /\ pc' = [pc EXCEPT ![c] = "stopPrev"] /\ pc'[c] = "stopPrev"
      /\ mine' = [mine EXCEPT ![c] = gen + 1] /\ mine'[c] = gen + 1
      /\ target' = [target EXCEPT ![c] = proc] /\ target'[c] = proc
      /\ \A d \in Callers : d # c => mine'[d] = mine[d] /\ target'[d] = target[d] /\ pc'[d] = pc[d]
      /\ UNCHANGED <<alive, stopped, watched>>
  BY DEF TypeOK
<1>2. \A n \in 0 .. gen : n \in 0 .. gen' /\ n # gen + 1
  BY <1>1
<1>3. TypeOK'
  <2>1. /\ gen' \in Nat /\ proc' \in 0 .. gen'
        /\ alive' \subseteq 1 .. gen' /\ stopped' \subseteq 1 .. gen' /\ watched' \subseteq 1 .. gen'
    BY <1>1 DEF TypeOK
  <2>2. mine' \in [Callers -> 0 .. gen'] /\ target' \in [Callers -> 0 .. gen']
    BY <1>1, <1>2 DEF TypeOK
  <2>3. pc' \in [Callers -> Pcs] /\ want' \in [Callers -> Models \union {NoModel}]
    BY DEF TypeOK, Pcs
  <2> QED  BY <2>1, <2>2, <2>3 DEF TypeOK
<1>4. \A d \in Callers : pc[d] \notin Loading
  BY DEF FlightInv
<1>5. FlightInv' /\ WantInv'
  BY <1>1, <1>4 DEF FlightInv, WantInv, TypeOK
<1>6. FreshInv'
  <2>1. gen + 1 \notin stopped /\ \A d \in Callers : target'[d] # gen + 1 /\ gen + 1 # 0
    BY <1>1, <1>2 DEF TypeOK
  <2> QED  BY <1>1, <1>4, <2>1 DEF FreshInv
<1>7. CurrentInv' /\ Alone' /\ LoadedHasProcess'
  BY <1>1, SdSupervisorAssumption DEF CurrentInv, Alone, LoadedHasProcess
<1>8. NoOrphan'
  BY <1>1 DEF NoOrphan
<1> QED  BY <1>3, <1>5, <1>6, <1>7, <1>8

\* The call tells the process in its hands to stop.
LEMMA StopStep ==
  ASSUME SupervisorInv, NEW c \in Callers, StopPrev(c) \/ StopUnloaded(c)
  PROVE  SupervisorInv'
<1> USE DEF SupervisorInv, StopPrev, StopUnloaded, Goto, Loading, Opening, Stopping, shared, flight
<1>1. PICK l \in {"prepare", "load", "idle"} :
        /\ pc' = [pc EXCEPT ![c] = l]
        /\ l = "prepare" <=> pc[c] = "stopPrev"
        /\ l = "load" <=> pc[c] = "stop" /\ Role[c] = "reload"
  OBVIOUS
<1>2. /\ pc[c] \in Stopping /\ pc'[c] = l /\ target'[c] = 0
      /\ stopped' = stopped \union ({target[c]} \ {0})
      /\ UNCHANGED <<state, proc, loaded, loading, loadingModel, loadErr, gen, inFlight, alive,
                     watched, want, mine>>
      /\ target' = [target EXCEPT ![c] = 0]
      /\ \A d \in Callers : d # c => target'[d] = target[d] /\ pc'[d] = pc[d]
  BY <1>1 DEF TypeOK
<1>3. TypeOK'
  <2>1. 0 \in 0 .. gen /\ target[c] \in 0 .. gen
    BY DEF TypeOK
  <2>2. stopped' \subseteq 1 .. gen
    <3>1. \A n \in 0 .. gen : n # 0 => n \in 1 .. gen
      BY DEF TypeOK
    <3>2. stopped \subseteq 1 .. gen
      BY DEF TypeOK
    <3>3. stopped' = stopped \union ({target[c]} \ {0})
      BY <1>2
    <3> HIDE DEF SupervisorInv
    <3> QED  BY <2>1, <3>1, <3>2, <3>3
  <2>3. target' \in [Callers -> 0 .. gen] /\ pc' \in [Callers -> Pcs]
    BY <1>1, <1>2, <2>1 DEF TypeOK, Pcs
  <2> QED  BY <1>2, <2>2, <2>3 DEF TypeOK
<1>4. FlightInv'
  BY <1>1, <1>2 DEF FlightInv
<1>5. WantInv'
  BY <1>1, <1>2 DEF WantInv
<1>6. FreshInv'
  BY <1>1, <1>2 DEF FreshInv
<1>7. CurrentInv' /\ Alone' /\ LoadedHasProcess'
  BY <1>2 DEF CurrentInv, Alone, LoadedHasProcess
<1>8. NoOrphan'
  <2> SUFFICES ASSUME NEW p \in alive \ stopped'
               PROVE  \/ proc = p
                      \/ \E d \in Callers : mine[d] = p /\ pc'[d] \in {"probe", "install"}
                      \/ \E d \in Callers : target'[d] = p /\ pc'[d] \in {"stopPrev", "stop"}
    BY <1>2 DEF NoOrphan
  <2>1. p # 0 /\ p \notin stopped /\ p # target[c]
    BY <1>2 DEF TypeOK
  <2>2. \/ proc = p
        \/ \E d \in Callers : mine[d] = p /\ pc[d] \in {"probe", "install"}
        \/ \E d \in Callers : target[d] = p /\ pc[d] \in {"stopPrev", "stop"}
    BY <2>1 DEF NoOrphan
  <2> QED  BY <1>2, <2>1, <2>2
<1> QED  BY <1>3, <1>4, <1>5, <1>6, <1>7, <1>8

\* The steps between the stop of the old process and the end of the load,
\* Spawn and Install apart.
LEMMA LoadStep ==
  ASSUME SupervisorInv, NEW c \in Callers,
         PrepareFails(c) \/ PortFree(c) \/ ProbeOk(c) \/ ProbeFails(c) \/ Reap(c) \/ FailLoad(c)
  PROVE  SupervisorInv'
<1> USE DEF SupervisorInv, Goto, Loading, Opening, Stopping, shared, flight, procs, locals
<1>1. PICK l \in {"start", "fail", "install", "reap", "loadedErr"} :
        /\ pc' = [pc EXCEPT ![c] = l]
        /\ pc[c] \in {"prepare", "start", "probe", "reap", "fail"}
        /\ l = "install" => pc[c] = "probe"
        /\ l = "start" => pc[c] = "prepare" /\ alive = {}
        /\ pc[c] = "fail" <=> l = "loadedErr"
        /\ stopped' = IF l = "reap" THEN stopped \union {mine[c]} ELSE stopped
        /\ pc[c] = "probe" => l \in {"install", "reap"}
        /\ UNCHANGED <<proc, loaded, loading, loadingModel, gen, inFlight, alive, watched, want,
                       mine, target>>
        /\ l # "loadedErr" => UNCHANGED <<state, loadErr>>
        /\ l = "loadedErr" => state' = "error" /\ loadErr' = TRUE
  <2>1. CASE PrepareFails(c)
    BY <2>1 DEF PrepareFails
  <2>2. CASE ProbeOk(c)
    BY <2>2 DEF ProbeOk
  <2>3. CASE ProbeFails(c)
    BY <2>3 DEF ProbeFails
  <2>4. CASE Reap(c)
    BY <2>4 DEF Reap
  <2>5. CASE FailLoad(c)
    BY <2>5 DEF FailLoad
  <2>6. CASE PortFree(c)
    BY <2>6 DEF PortFree
  <2> QED  BY <2>1, <2>2, <2>3, <2>4, <2>5, <2>6
<1>2. pc'[c] = l /\ \A d \in Callers : d # c => pc'[d] = pc[d]
  BY <1>1 DEF TypeOK
<1>3. mine[c] # 0 /\ mine[c] \in 0 .. gen /\ proc = 0
  BY <1>1 DEF TypeOK, FlightInv, FreshInv
<1>4. TypeOK'
  <2>1. stopped' \subseteq 1 .. gen
    <3>1. \A n \in 0 .. gen : n # 0 => n \in 1 .. gen
      BY DEF TypeOK
    <3> QED  BY <1>1, <1>3, <3>1 DEF TypeOK
  <2>2. pc' \in [Callers -> Pcs]
    BY <1>1 DEF TypeOK, Pcs
  <2> QED  BY <1>1, <1>2, <2>1, <2>2 DEF TypeOK
<1>5. FlightInv' /\ WantInv'
  BY <1>1, <1>2 DEF FlightInv, WantInv
<1>6. FreshInv'
  <2>1. \A d \in Callers : pc[d] \in Loading => d = c
    BY <1>1 DEF FlightInv
  <2> QED  BY <1>1, <1>2, <2>1 DEF FreshInv
<1>7. CurrentInv' /\ Alone' /\ LoadedHasProcess'
  BY <1>1, <1>2, <1>3 DEF CurrentInv, Alone, LoadedHasProcess
<1>8. NoOrphan'
  <2> SUFFICES ASSUME NEW p \in alive \ stopped'
               PROVE  \/ proc = p
                      \/ \E d \in Callers : mine[d] = p /\ pc'[d] \in {"probe", "install"}
                      \/ \E d \in Callers : target[d] = p /\ pc'[d] \in {"stopPrev", "stop"}
    BY <1>1, <1>2 DEF NoOrphan
  <2>1. p \notin stopped
    BY <1>1
  <2>2. \/ proc = p
        \/ \E d \in Callers : mine[d] = p /\ pc[d] \in {"probe", "install"}
        \/ \E d \in Callers : target[d] = p /\ pc[d] \in {"stopPrev", "stop"}
    BY <2>1 DEF NoOrphan
  <2>3. CASE \E d \in Callers : mine[d] = p /\ pc[d] \in {"probe", "install"}
    BY <1>1, <1>2, <2>3
  <2>4. CASE \E d \in Callers : target[d] = p /\ pc[d] \in {"stopPrev", "stop"}
    BY <1>1, <1>2, <2>4
  <2> QED  BY <2>2, <2>3, <2>4
<1> QED  BY <1>4, <1>5, <1>6, <1>7, <1>8

LEMMA SpawnStep ==
  ASSUME SupervisorInv, NEW c \in Callers, Spawn(c)
  PROVE  SupervisorInv'
<1> USE DEF SupervisorInv, Spawn, Goto, Loading, Opening, Stopping, shared, flight, locals
<1>1. /\ pc[c] = "start" /\ alive' = {mine[c]}
      /\ UNCHANGED <<state, proc, loaded, loading, loadingModel, loadErr, gen, inFlight, stopped,
                     watched,
                     want, mine, target>>
      /\ pc'[c] = "probe" /\ \A d \in Callers : d # c => pc'[d] = pc[d]
  BY DEF TypeOK, Alone
<1>2. mine[c] # 0 /\ mine[c] \in 0 .. gen /\ proc = 0
  BY <1>1 DEF TypeOK, FlightInv, FreshInv
<1>3. TypeOK'
  <2>1. alive' \subseteq 1 .. gen
    BY <1>1, <1>2 DEF TypeOK
  <2>2. pc' \in [Callers -> Pcs]
    BY DEF TypeOK, Pcs
  <2> QED  BY <1>1, <2>1, <2>2 DEF TypeOK
<1>4. FlightInv' /\ WantInv' /\ FreshInv'
  BY <1>1 DEF FlightInv, WantInv, FreshInv
<1>5. CurrentInv' /\ LoadedHasProcess'
  BY <1>1 DEF CurrentInv, LoadedHasProcess
<1>6. Alone'
  <2>1. \A d \in Callers : pc[d] = "start" => d = c
    BY <1>1 DEF FlightInv
  <2> QED  BY <1>1, <2>1 DEF Alone
<1>7. NoOrphan'
  BY <1>1, <1>2 DEF NoOrphan
<1> QED  BY <1>3, <1>4, <1>5, <1>6, <1>7

LEMMA InstallStep ==
  ASSUME SupervisorInv, NEW c \in Callers, Install(c)
  PROVE  SupervisorInv'
<1> USE DEF SupervisorInv, Install, Goto, Loading, Opening, Stopping, flight, locals
<1>1. /\ pc[c] = "install" /\ proc' = mine[c] /\ loaded' = want[c] /\ state' = "loaded"
      /\ watched' = watched \union {mine[c]}
      /\ UNCHANGED <<loading, loadingModel, loadErr, gen, inFlight, alive, stopped, want, mine,
                     target>>
      /\ pc'[c] = "loadedOk" /\ \A d \in Callers : d # c => pc'[d] = pc[d]
  BY DEF TypeOK
<1>2. /\ mine[c] # 0 /\ mine[c] \in 0 .. gen /\ proc = 0 /\ want[c] \in Models
      /\ mine[c] \notin stopped /\ \A d \in Callers : pc[d] \in Stopping => target[d] # mine[c]
  BY <1>1 DEF TypeOK, FlightInv, FreshInv, WantInv
<1>3. \A d \in Callers : pc[d] \in Loading => d = c
  BY <1>1 DEF FlightInv
<1>4. TypeOK'
  <2>1. watched' \subseteq 1 .. gen
    <3>1. \A n \in 0 .. gen : n # 0 => n \in 1 .. gen
      BY DEF TypeOK
    <3> QED  BY <1>1, <1>2, <3>1 DEF TypeOK
  <2>2. pc' \in [Callers -> Pcs]
    BY DEF TypeOK, Pcs
  <2> QED  BY <1>1, <1>2, <2>1, <2>2 DEF TypeOK
<1>5. FlightInv' /\ WantInv' /\ FreshInv'
  BY <1>1, <1>2, <1>3 DEF FlightInv, WantInv, FreshInv
<1>6. CurrentInv' /\ Alone' /\ LoadedHasProcess'
  BY <1>1, <1>2, SdSupervisorAssumption DEF CurrentInv, Alone, LoadedHasProcess
<1>7. NoOrphan'
  <2> SUFFICES ASSUME NEW p \in alive \ stopped, p # mine[c]
               PROVE  \/ \E d \in Callers : mine[d] = p /\ pc'[d] \in {"probe", "install"}
                      \/ \E d \in Callers : target[d] = p /\ pc'[d] \in {"stopPrev", "stop"}
    BY <1>1 DEF NoOrphan
  <2>1. p # proc
    BY <1>2 DEF TypeOK
  <2>2. \/ \E d \in Callers : mine[d] = p /\ pc[d] \in {"probe", "install"}
        \/ \E d \in Callers : target[d] = p /\ pc[d] \in {"stopPrev", "stop"}
    BY <2>1 DEF NoOrphan
  <2> QED  BY <1>1, <1>3, <2>2
<1> QED  BY <1>4, <1>5, <1>6, <1>7

LEMMA EndLoadStep ==
  ASSUME SupervisorInv, NEW c \in Callers, EndLoad(c)
  PROVE  SupervisorInv'
<1> USE DEF SupervisorInv, EndLoad, Goto, LoadOk, LoadFails, Loading, Opening, Stopping, shared, procs, locals
<1>1. PICK l \in {"client", "idle", "end"} : pc' = [pc EXCEPT ![c] = l]
  OBVIOUS
<1>2. /\ pc[c] \in {"loadedOk", "loadedErr"} /\ loading' = FALSE /\ loadingModel' = NoModel
      /\ UNCHANGED <<state, proc, loaded, loadErr, gen, inFlight, alive, stopped, watched, want,
                     mine, target>>
      /\ pc'[c] = l /\ \A d \in Callers : d # c => pc'[d] = pc[d]
  BY <1>1 DEF TypeOK
<1>3. \A d \in Callers : pc'[d] \notin Loading
  BY <1>2 DEF FlightInv
<1>4. TypeOK'
  BY <1>1, <1>2 DEF TypeOK, Pcs
<1>5. FlightInv' /\ WantInv' /\ FreshInv'
  BY <1>2, <1>3 DEF FlightInv, WantInv, FreshInv
<1>6. CurrentInv' /\ Alone' /\ LoadedHasProcess'
  BY <1>2 DEF CurrentInv, Alone, LoadedHasProcess
<1>7. NoOrphan'
  BY <1>2 DEF NoOrphan
<1> QED  BY <1>4, <1>5, <1>6, <1>7

-----------------------------------------------------------------------------
(* Unload, and the processes.                                              *)

LEMMA UnloadStep ==
  ASSUME SupervisorInv, NEW c \in Callers, Unload(c)
  PROVE  SupervisorInv'
<1> USE DEF SupervisorInv, Unload, Goto, DropProcess, Loading, Opening, Stopping, flight, procs
<1>1. /\ gen \in Nat /\ gen' = gen + 1 /\ pc[c] = "unload" /\ proc' = 0
      /\ pc' = [pc EXCEPT ![c] = "stop"] /\ pc'[c] = "stop"
      /\ target' = [target EXCEPT ![c] = proc] /\ target'[c] = proc
      /\ \A d \in Callers : d # c => target'[d] = target[d] /\ pc'[d] = pc[d]
      /\ UNCHANGED <<alive, stopped, watched, mine, want, inFlight, loading, loadingModel>>
  BY DEF TypeOK
<1>2. \A n \in 0 .. gen : n \in 0 .. gen'
  BY <1>1
<1>3. TypeOK'
  <2>1. /\ gen' \in Nat /\ proc' \in 0 .. gen'
        /\ alive' \subseteq 1 .. gen' /\ stopped' \subseteq 1 .. gen' /\ watched' \subseteq 1 .. gen'
    BY <1>1 DEF TypeOK
  <2>2. mine' \in [Callers -> 0 .. gen'] /\ target' \in [Callers -> 0 .. gen']
    BY <1>1, <1>2 DEF TypeOK
  <2>3. pc' \in [Callers -> Pcs]
    BY DEF TypeOK, Pcs
  <2> QED  BY <1>1, <2>1, <2>2, <2>3 DEF TypeOK
<1>4. FlightInv' /\ WantInv'
  BY <1>1 DEF FlightInv, WantInv
<1>5. FreshInv'
  <2>1. \A d \in Callers : pc[d] \in Opening => proc = 0 /\ mine[d] # 0
    BY DEF FlightInv, FreshInv
  <2> QED  BY <1>1, <2>1 DEF FreshInv
<1>6. CurrentInv' /\ Alone' /\ LoadedHasProcess'
  BY <1>1, SdSupervisorAssumption DEF CurrentInv, Alone, LoadedHasProcess
<1>7. NoOrphan'
  BY <1>1 DEF NoOrphan
<1> QED  BY <1>3, <1>4, <1>5, <1>6, <1>7

LEMMA ProcessStep ==
  ASSUME SupervisorInv, NEW p \in 1 .. MaxGen, Die(p) \/ Watch(p)
  PROVE  SupervisorInv'
<1> USE DEF SupervisorInv, flight, locals
<1>1. CASE Die(p)
  BY <1>1 DEF Die, shared, TypeOK, FlightInv, WantInv, FreshInv, CurrentInv, Alone, NoOrphan,
     LoadedHasProcess
<1>2. CASE Watch(p) /\ UNCHANGED shared
  BY <1>2 DEF Watch, shared, TypeOK, FlightInv, WantInv, FreshInv, CurrentInv, Alone, NoOrphan,
              LoadedHasProcess
<1>3. CASE Watch(p) /\ ~UNCHANGED shared
  <2>1. /\ proc = p /\ p \notin alive /\ proc' = 0 /\ loaded' = NoModel /\ state' = "error" /\ loadErr' = TRUE
        /\ watched' = watched \ {p}
        /\ UNCHANGED <<loading, loadingModel, gen, inFlight, alive, stopped, pc, want, mine,
                       target>>
    BY <1>3 DEF Watch, DropProcess
  <2>2. TypeOK'
    BY <2>1 DEF TypeOK
  <2>3. FlightInv' /\ WantInv' /\ FreshInv' /\ CurrentInv'
    BY <2>1 DEF FlightInv, WantInv, FreshInv, CurrentInv
  <2>4. Alone' /\ NoOrphan'
    BY <2>1 DEF Alone, NoOrphan
  <2>5. LoadedHasProcess'
    BY <2>1 DEF LoadedHasProcess
  <2> QED  BY <2>2, <2>3, <2>4, <2>5
<1> QED  BY <1>1, <1>2, <1>3

LEMMA StepSupervisorInv == SupervisorInv /\ [Next]_vars => SupervisorInv'
<1> SUFFICES ASSUME SupervisorInv, [Next]_vars  PROVE SupervisorInv'
  OBVIOUS
<1>1. ASSUME NEW c \in Callers, Proceed(c) \/ Start(c)  PROVE SupervisorInv'
  BY <1>1, CallStep, BeginLoadStep, StopStep, LoadStep, SpawnStep, InstallStep, EndLoadStep,
     UnloadStep
  DEF Proceed
<1>2. ASSUME NEW p \in 1 .. MaxGen, Die(p) \/ Watch(p)  PROVE SupervisorInv'
  BY <1>2, ProcessStep
<1>3. CASE UNCHANGED vars
  BY <1>3 DEF vars, shared, flight, procs, locals, SupervisorInv, TypeOK, FlightInv, WantInv,
     FreshInv,
              CurrentInv, Alone, NoOrphan, LoadedHasProcess
<1> QED  BY <1>1, <1>2, <1>3 DEF Next

-----------------------------------------------------------------------------
(* The theorems.                                                           *)

THEOREM SupervisorInvariant == Spec => []SupervisorInv
<1> QED  BY InitSupervisorInv, StepSupervisorInv, PTL DEF Spec

\* Type correctness of the supervisor for any number of loads and unloads.
THEOREM TypeCorrect == Spec => []TypeOK
<1>1. SupervisorInv => TypeOK  BY DEF SupervisorInv
<1> QED  BY <1>1, SupervisorInvariant, PTL

\* Never two servers on the port: the single flight of loads keeps it free
\* between waitPortFree and the start.
THEOREM OneServerEver == Spec => []OneServer
<1>1. SupervisorInv => OneServer
  <2> SUFFICES ASSUME SupervisorInv  PROVE Cardinality(alive) <= 1
    BY DEF OneServer
  <2>1. CASE alive = {}
    BY <2>1, FS_EmptySet
  <2>2. CASE alive # {}
    <3>1. PICK p \in alive : alive = {p}
      BY <2>2 DEF SupervisorInv, Alone
    <3>2. Cardinality({p}) = 1
      BY FS_Singleton
    <3> QED  BY <3>1, <3>2
  <2> QED  BY <2>1, <2>2
<1> QED  BY <1>1, SupervisorInvariant, PTL

\* No server is left behind by loads, failures, unloads and crashes.
THEOREM NoServerOrphaned == Spec => []NoOrphan
<1>1. SupervisorInv => NoOrphan  BY DEF SupervisorInv
<1> QED  BY <1>1, SupervisorInvariant, PTL

\* The reported state is loaded exactly while there is a process and a model.
THEOREM LoadedAlwaysHasProcess == Spec => []LoadedHasProcess
<1>1. SupervisorInv => LoadedHasProcess  BY DEF SupervisorInv
<1> QED  BY <1>1, SupervisorInvariant, PTL

\* An exit that was asked for is never reported as an error.
THEOREM IntendedExitNeverAnError == Spec => IntendedExitIsNoError
<1>1. SupervisorInv /\ [Next]_vars =>
        (state' = "error" /\ state # "error" =>
           \/ \E c \in Callers : pc[c] = "fail" /\ pc'[c] # "fail"
           \/ proc \notin stopped /\ proc \notin alive)
  <2> SUFFICES ASSUME SupervisorInv, [Next]_vars, state' = "error", state # "error"
               PROVE  \/ \E c \in Callers : pc[c] = "fail" /\ pc'[c] # "fail"
                      \/ proc \notin stopped /\ proc \notin alive
    OBVIOUS
  <2>1. ASSUME NEW c \in Callers, FailLoad(c)  PROVE pc[c] = "fail" /\ pc'[c] # "fail"
    BY <2>1 DEF FailLoad, Goto, SupervisorInv, TypeOK
  <2>2. ASSUME NEW p \in 1 .. MaxGen, Watch(p)  PROVE proc \notin stopped /\ proc \notin alive
    BY <2>2 DEF Watch, shared, SupervisorInv, CurrentInv
  <2>3. ASSUME NEW c \in Callers,
               \/ AlreadyLoaded(c) \/ JoinLoad(c) \/ StopPrev(c) \/ PortFree(c) \/ Spawn(c) \/ PrepareFails(c)
               \/ ProbeOk(c) \/ ProbeFails(c) \/ Reap(c) \/ EndLoad(c) \/ SeeLoadEnded(c)
               \/ ReturnOther(c) \/ EnsureLoaded(c) \/ EnsureState(c) \/ EnsureNotLoading(c)
               \/ GetClient(c) \/ EndRequest(c) \/ StopUnloaded(c) \/ Start(c)
        PROVE  FALSE
    BY <2>3 DEF AlreadyLoaded, JoinLoad, StopPrev, PortFree, Spawn, PrepareFails, ProbeOk, ProbeFails, Reap,
       EndLoad,
                SeeLoadEnded, ReturnOther, EnsureLoaded, EnsureState, EnsureNotLoading, GetClient,
                EndRequest, StopUnloaded, Start, BeginGenerate, RequestLoad, RequestUnload,
                FinishGenerate, shared
  <2>4. ASSUME NEW c \in Callers, BeginLoad(c) \/ Install(c) \/ Unload(c)  PROVE FALSE
    BY <2>4 DEF BeginLoad, Install, Unload
  <2>5. ASSUME NEW p \in 1 .. MaxGen, Die(p)  PROVE FALSE
    BY <2>5 DEF Die, shared
  <2>6. CASE UNCHANGED vars
    BY <2>6 DEF vars, shared
  <2> QED  BY <2>1, <2>2, <2>3, <2>4, <2>5, <2>6 DEF Next, Proceed
<1> QED  BY <1>1, SupervisorInvariant, PTL DEF Spec, IntendedExitIsNoError

=============================================================================

------------------------------ MODULE JobBoard ------------------------------
(***************************************************************************)
(* What the image worker promises to the clients that submit jobs and ask  *)
(* for them again: a job goes from queued over processing to a final       *)
(* state, or is cancelled before it is taken up; who is queued stands in a *)
(* line and never moves back; at most Capacity jobs are queued or in       *)
(* progress; who waits for a job is answered when it is final, and only a  *)
(* job that has run is forgotten.  There are no slots, goroutines or flags *)
(* here, and no synchronous requests; SdJobs shows that the code           *)
(* implements this.                                                        *)
(***************************************************************************)
EXTENDS Naturals, FiniteSets, Sequences, GoSlices

CONSTANTS Jobs, Capacity

VARIABLES status,   \* status[j]: what a client that asks for j is told
          line,     \* the queued jobs, each at its position
          answered  \* the jobs whose waiters have been let go

boardVars == <<status, line, answered>>

BoardInit ==
  /\ status = [j \in Jobs |-> "none"]
  /\ line = <<>>
  /\ answered = {}

Live == {j \in Jobs : status[j] \in {"queued", "processing"}}
HasRun == {"completed", "failed"}
Over == HasRun \union {"cancelled", "gone"}

Becomes(j, s) == status' = [status EXCEPT ![j] = s]

Post(j) ==
  /\ status[j] = "none" /\ Cardinality(Live) < Capacity
  /\ Becomes(j, "queued")
  /\ line' = Append(line, j)
  /\ UNCHANGED answered

\* A queued job is taken up, not always the first one, or cancelled.
TakeUp(j) ==
  /\ status[j] = "queued"
  /\ \E s \in {"processing", "cancelled"} : Becomes(j, s)
  /\ line' = Without(line, j)
  /\ UNCHANGED answered

Finish(j) ==
  /\ status[j] = "processing"
  /\ \E s \in HasRun : Becomes(j, s)
  /\ UNCHANGED <<line, answered>>

Answer(j) ==
  /\ status[j] \in Over /\ j \notin answered
  /\ answered' = answered \union {j}
  /\ UNCHANGED <<status, line>>

Forget(j) ==
  /\ status[j] \in HasRun
  /\ Becomes(j, "gone")
  /\ UNCHANGED <<line, answered>>

BoardNext == \E j \in Jobs : Post(j) \/ TakeUp(j) \/ Finish(j) \/ Answer(j) \/ Forget(j)

BoardSpec == BoardInit /\ [][BoardNext]_boardVars

=============================================================================

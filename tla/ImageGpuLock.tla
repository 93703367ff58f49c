---------------------------- MODULE ImageGpuLock ----------------------------
(***************************************************************************)
(* internal/balancer/image_resources.go: the exclusive lock of a GPU (or   *)
(* of a whole host) that an image generation holds, with the requests that *)
(* take it: single and asynchronous ones (image_router.go) and batches     *)
(* over several backends (image_batch_r99.go).                             *)
(*                                                                         *)
(* One step is one region under imageResources.mu or one wait.  The policy *)
(* is "exclusive", and models and VRAM let every generation pass.          *)
(***************************************************************************)
EXTENDS Integers, Sequences, FiniteSets

CONSTANTS Requests,
          Kind,        \* Kind[r]: "sync", "async" or "batch"
          Hasty,       \* requests whose client may disconnect
          Candidates,  \* the image backends, in the order of their ids
          Host,        \* Host[b]
          Gpu,         \* Gpu[b]: EffectiveGPUIndex, -1 when it is unknown
          Images,      \* the images a batch asks for
          Fuse,        \* ExclusiveLockTimeoutSec > 0
          IdlePolls,   \* imageAsyncIdlePolls
          GracePolls,  \* imageAsyncStartupGracePolls
          MaxErrors,   \* imageAsyncMaxPollErrors
          Nobody

Backends == {Candidates[i] : i \in DOMAIN Candidates}

\* A batch takes at most one lock per backend, so an imageLockHolder is known
\* by its request and its backend.
Handles == [req : Requests, at : Backends]

ASSUME ImageGpuLockAssumption ==
  /\ Candidates \in Seq(Backends)
  /\ Kind \in [Requests -> {"sync", "async", "batch"}]
  /\ Hasty \subseteq Requests
  /\ DOMAIN Host = Backends /\ Gpu \in [Backends -> Int]
  /\ Fuse \in BOOLEAN
  /\ {Images, IdlePolls, GracePolls, MaxErrors} \subseteq Nat \ {0}
  /\ Nobody \notin Handles

\* imageLockKey.
Key(b) == [host |-> Host[b], gpu |-> Gpu[b]]
Keys == {Key(b) : b \in Backends}

VARIABLES holder,    \* holder[k]: imageHostLock.holder
          handedOff, \* handles with handedOff
          lost,      \* generations whose answer will not reach the request
          pc,        \* where the request is
          mode,      \* mode[r]: routeImageBatchR99 ("many") or the single path
          todo,      \* todo[r]: the backends beforeGeneration is still called for
          gates,     \* gates[r]: backends whose lock r has to release
          work,      \* work[h]: the generation on the worker
          watch      \* watch[h]: the watcher of an asynchronous generation

locals == <<pc, mode, todo, gates>>
vars == <<holder, handedOff, lost, locals, work, watch>>

\* The locals of watchAsyncGeneration; it ends when a counter is at its limit.
Watches == [on : BOOLEAN, seen : BOOLEAN, idle : 0 .. IdlePolls - 1,
            pending : 0 .. GracePolls - 1, failures : 0 .. MaxErrors - 1]
NoWatch == [on |-> FALSE, seen |-> FALSE, idle |-> 0, pending |-> 0, failures |-> 0]

Init ==
  /\ holder = [k \in Keys |-> Nobody]
  /\ handedOff = {}
  /\ lost = {}
  /\ pc = [r \in Requests |-> "idle"]
  /\ mode = [r \in Requests |-> "one"]
  /\ todo = [r \in Requests |-> <<>>]
  /\ gates = [r \in Requests |-> {}]
  /\ work = [h \in Handles |-> "none"]
  /\ watch = [h \in Handles |-> NoWatch]

Goto(r, l) == pc' = [pc EXCEPT ![r] = l]
Handle(r, b) == [req |-> r, at |-> b]
Holds(h) == holder[Key(h.at)] = h

-----------------------------------------------------------------------------
(* The lock.                                                               *)

\* A mutant that knows conflicts of equal keys only.
ConflictOfKeys(k, l) == k = l

\* locksConflict: an unknown index takes the whole host.
Conflict(k, l) ==
  k.host = l.host /\ (k.gpu = -1 \/ l.gpu = -1 \/ k.gpu = l.gpu)

\* conflictLocked finds a lock, the own one or another of the host.
Busy(b) == \E k \in Keys : holder[k] # Nobody /\ Conflict(k, Key(b))

\* imageLockHolder.Release with unlock, where only the first call finds h.
Release(h) ==
  holder' = IF Holds(h) THEN [holder EXCEPT ![Key(h.at)] = Nobody] ELSE holder

\* The loop over the gates takes up the next candidate, or it is over: a batch
\* goes on with two locks, a single request with the one it tried for.
NextGate(r, rest, got) ==
  /\ todo' = [todo EXCEPT ![r] = rest]
  /\ gates' = [gates EXCEPT ![r] = got]
  /\ LET n == Cardinality(got)
     IN Goto(r, CASE mode[r] = "one" -> IF n = 1 THEN "submit" ELSE "release"
                  [] mode[r] = "many" /\ rest # <<>> /\ n < Images -> "try"
                  [] OTHER -> IF n >= 2 THEN "submit" ELSE "retreat")

\* acquireLock.
TakeLock(r) ==
  /\ pc[r] \in {"try", "asleep"}
  /\ LET b == Head(todo[r])
     IN /\ ~Busy(b)
        /\ holder' = [holder EXCEPT ![Key(b)] = Handle(r, b)]
        /\ NextGate(r, Tail(todo[r]), gates[r] \union {b})
  /\ UNCHANGED <<handedOff, lost, mode, work, watch>>

\* It sleeps on releaseCh and the 100 ms timer, and tries again.
FallAsleep(r) ==
  /\ pc[r] = "try" /\ Busy(Head(todo[r]))
  /\ Goto(r, "asleep")
  /\ UNCHANGED <<holder, handedOff, lost, mode, todo, gates, work, watch>>

Refuse(r) ==
  /\ NextGate(r, Tail(todo[r]), gates[r])
  /\ UNCHANGED <<holder, handedOff, lost, mode, work, watch>>

\* A mutant in which a batch that has a lock waits without a deadline.
TimeOutEmptyHanded(r) ==
  pc[r] \in {"try", "asleep"} /\ gates[r] = {} /\ Busy(Head(todo[r])) /\ Refuse(r)

\* queueWait is over, which is looked at after a try that failed.
TimeOut(r) == pc[r] \in {"try", "asleep"} /\ Busy(Head(todo[r])) /\ Refuse(r)

SeeCancelled(r) == r \in Hasty /\ pc[r] = "asleep" /\ Refuse(r)

\* forceRelease, when the operator has armed the fuse.
ForceRelease(h) ==
  /\ Fuse /\ Holds(h)
  /\ Release(h)
  /\ UNCHANGED <<handedOff, lost, locals, work, watch>>

-----------------------------------------------------------------------------
(* The requests.                                                           *)

\* A batch tries every candidate, a single request the selected backend.
Begin(r, m) ==
  /\ mode' = [mode EXCEPT ![r] = m]
  /\ IF m = "many" THEN todo' = [todo EXCEPT ![r] = Candidates]
                   ELSE \E b \in Backends : todo' = [todo EXCEPT ![r] = <<b>>]
  /\ Goto(r, "try")
  /\ UNCHANGED <<holder, handedOff, lost, gates, work, watch>>

\* A request arrives under a name that no earlier generation still uses.
Arrive(r) ==
  /\ pc[r] = "idle"
  /\ \A b \in Backends :
       LET h == Handle(r, b) IN ~Holds(h) /\ work[h] = "none" /\ ~watch[h].on
  /\ Begin(r, IF Kind[r] = "batch" /\ Images > 1 /\ Cardinality(Backends) > 1
                THEN "many" ELSE "one")

\* The request is sent to every locked backend, and some of them take it: an
\* asynchronous one as a job, any other to work on it at once.
Submit(r) ==
  /\ pc[r] = "submit"
  /\ \E taken \in SUBSET {Handle(r, b) : b \in gates[r]} :
       /\ work' = [h \in Handles |-> IF h \notin taken THEN work[h]
                                    ELSE IF Kind[r] = "async" THEN "accepted" ELSE "running"]
       /\ Goto(r, IF taken = {} THEN "release" ELSE "generating")
  /\ UNCHANGED <<holder, handedOff, lost, mode, todo, gates, watch>>

\* The 202 of an asynchronous generation arrives, which may be on its way or
\* over by then. The lock of the request is handed to a watcher.
Accepted(r) ==
  /\ Kind[r] = "async" /\ pc[r] = "generating"
  /\ \E b \in Backends :
       LET h == Handle(r, b)
       IN /\ gates[r] = {b} /\ h \notin lost
          /\ watch' = [watch EXCEPT ![h] = [NoWatch EXCEPT !.on = TRUE]]
          /\ handedOff' = handedOff \union {h}
  /\ Goto(r, "release")
  /\ UNCHANGED <<holder, lost, mode, todo, gates, work>>

\* proxyRequestToBackend fails after the backend took the request: the
\* connection breaks, imageRequestTimeout is over, or the client has gone. The
\* worker generates on (SdJobs: the context of the request is dropped).
LosePart(h) ==
  /\ pc[h.req] = "generating" /\ h.at \in gates[h.req]
  /\ lost' = lost \union {h}
  /\ UNCHANGED <<holder, handedOff, locals, work, watch>>

\* From every backend there is an answer or an error.
Answer(r) ==
  /\ pc[r] = "generating"
  /\ \A b \in gates[r] :
       Handle(r, b) \in lost \/ (Kind[r] # "async" /\ work[Handle(r, b)] = "none")
  /\ Goto(r, "release")
  /\ UNCHANGED <<holder, handedOff, lost, mode, todo, gates, work, watch>>

\* A mutant that releases what it handed over, and one in which a batch that
\* falls back keeps its lock.
ReleaseGateHandedOff(r) ==
  /\ pc[r] \in {"release", "retreat"}
  /\ \E b \in gates[r] :
       /\ gates' = [gates EXCEPT ![r] = @ \ {b}]
       /\ lost' = lost \ {Handle(r, b)}
       /\ Release(Handle(r, b))
  /\ UNCHANGED <<handedOff, pc, mode, todo, work, watch>>

ReleaseGateOfAnswered(r) ==
  /\ pc[r] \in {"release", "retreat"}
  /\ \E b \in gates[r] :
       /\ gates' = [gates EXCEPT ![r] = @ \ {b}]
       /\ handedOff' = handedOff \ {Handle(r, b)}
       /\ lost' = lost \ {Handle(r, b)}
       /\ IF Handle(r, b) \in handedOff \/ pc[r] = "retreat"
            THEN UNCHANGED holder ELSE Release(Handle(r, b))
  /\ UNCHANGED <<pc, mode, todo, work, watch>>

\* The deferred releaseFromRequest of one gate.
ReleaseGate(r) ==
  /\ pc[r] \in {"release", "retreat"}
  /\ \E b \in gates[r] :
       /\ gates' = [gates EXCEPT ![r] = @ \ {b}]
       /\ handedOff' = handedOff \ {Handle(r, b)}
       /\ lost' = lost \ {Handle(r, b)}
       /\ IF Handle(r, b) \in handedOff THEN UNCHANGED holder ELSE Release(Handle(r, b))
  /\ UNCHANGED <<pc, mode, todo, work, watch>>

\* A batch that got fewer than two locks becomes a single request.
FallBack(r) ==
  /\ pc[r] = "retreat" /\ gates[r] = {}
  /\ Begin(r, "one")

Leave(r) ==
  /\ pc[r] = "release" /\ gates[r] = {}
  /\ Goto(r, "idle")
  /\ UNCHANGED <<holder, handedOff, lost, mode, todo, gates, work, watch>>

-----------------------------------------------------------------------------
(* The worker and the watcher of an asynchronous generation.               *)

StartWork(h) ==
  /\ work[h] = "accepted"
  /\ work' = [work EXCEPT ![h] = "running"]
  /\ UNCHANGED <<holder, handedOff, lost, locals, watch>>

FinishWork(h) ==
  /\ work[h] = "running"
  /\ work' = [work EXCEPT ![h] = "none"]
  /\ UNCHANGED <<holder, handedOff, lost, locals, watch>>

Work(h) == StartWork(h) \/ FinishWork(h)

\* active_queries of the backend counts every generation on it.
Active(b) == \E h \in Handles : h.at = b /\ work[h] = "running"

\* The watcher takes note of a poll, or releases the lock and ends.
Poll(h, noted, ends) ==
  /\ watch[h].on /\ Holds(h)
  /\ watch' = [watch EXCEPT ![h] = IF ends THEN NoWatch ELSE noted]
  /\ IF ends THEN Release(h) ELSE UNCHANGED holder
  /\ UNCHANGED <<handedOff, lost, locals, work>>

PollFails(h) ==
  LET n == watch[h].failures + 1
  IN Poll(h, [watch[h] EXCEPT !.failures = n], n >= MaxErrors)

PollActive(h) ==
  /\ Active(h.at)
  /\ Poll(h, [watch[h] EXCEPT !.failures = 0, !.seen = TRUE, !.idle = 0], FALSE)

\* A mutant that waits for the start of a job without a limit.
PollIdleNoGrace(h) ==
  LET w == [watch[h] EXCEPT !.failures = 0]
  IN /\ ~Active(h.at)
     /\ IF w.seen THEN Poll(h, [w EXCEPT !.idle = w.idle + 1], w.idle + 1 >= IdlePolls)
                  ELSE Poll(h, w, FALSE)

\* Without any activity the watcher gives up, whether the job is over or has
\* not started yet.
PollIdle(h) ==
  LET w == [watch[h] EXCEPT !.failures = 0]
      idle == w.idle + 1
      pending == w.pending + 1
  IN /\ ~Active(h.at)
     /\ IF w.seen THEN Poll(h, [w EXCEPT !.idle = idle], idle >= IdlePolls)
                  ELSE Poll(h, [w EXCEPT !.pending = pending], pending >= GracePolls)

\* The fuse has closed h.done.
WatchDone(h) ==
  /\ watch[h].on /\ ~Holds(h)
  /\ watch' = [watch EXCEPT ![h] = NoWatch]
  /\ UNCHANGED <<holder, handedOff, lost, locals, work>>

-----------------------------------------------------------------------------

Proceed(r) ==
  \/ TakeLock(r) \/ FallAsleep(r) \/ Submit(r) \/ Accepted(r) \/ Answer(r)
  \/ ReleaseGate(r) \/ FallBack(r) \/ Leave(r)

\* A poll that is answered, or the end of the watcher.
Watch(h) == PollActive(h) \/ PollIdle(h) \/ WatchDone(h)

Next ==
  \/ \E r \in Requests :
       Arrive(r) \/ Proceed(r) \/ TimeOut(r) \/ SeeCancelled(r)
  \/ \E h \in Handles :
       LosePart(h) \/ ForceRelease(h) \/ Work(h) \/ Watch(h) \/ PollFails(h)

Spec == Init /\ [][Next]_vars

\* Goroutines and workers make progress, watchers poll (MaxErrors polls may
\* fail in a row, and end it), and the queue wait, measured on the wall clock,
\* runs out.  The fuse need not fire.
LiveSpec ==
  /\ Spec
  /\ \A r \in Requests : WF_vars(Proceed(r)) /\ SF_vars(TimeOut(r))
  /\ \A h \in Handles : WF_vars(Work(h)) /\ WF_vars(Watch(h))

-----------------------------------------------------------------------------
(* Properties.                                                             *)

\* Every variable has its type; the polls of a watcher stay below the limits
\* at which watchAsyncGeneration ends.
TypeOK ==
  /\ holder \in [Keys -> Handles \union {Nobody}]
  /\ handedOff \subseteq Handles /\ lost \subseteq Handles
  /\ pc \in [Requests -> {"idle", "try", "asleep", "submit", "generating", "release", "retreat"}]
  /\ mode \in [Requests -> {"one", "many"}]
  /\ todo \in [Requests -> Seq(Backends)]
  /\ gates \in [Requests -> SUBSET Backends]
  /\ work \in [Handles -> {"none", "accepted", "running"}]
  /\ watch \in [Handles -> Watches]

\* Whichever came first, the lock of a whole host (its card is unknown) is
\* never held together with another lock of that host (image_resources.go:375).
LocksExclude ==
  \A k, l \in Keys :
    k.gpu = -1 /\ l.host = k.host /\ l # k => holder[k] = Nobody \/ holder[l] = Nobody

\* A held lock has exactly one to release it: the request that has it among
\* its gates, or the watcher it was handed to.
LockHasOwner ==
  \A k \in Keys : holder[k] # Nobody =>
    LET h == holder[k]
    IN /\ Key(h.at) = k
       /\ watch[h].on # (h.at \in gates[h.req] /\ h \notin handedOff)

\* The end of a request, a batch that falls back, or a watcher that counts idle
\* polls never takes the lock from a generation that runs, with the exceptions
\* the code has: the fuse, a watcher that cannot reach the worker, and a request
\* that got an error instead of its answer, whose deferred release does not ask
\* whether the worker generates on. From one that has been accepted, and has not
\* started in time, the watcher takes it as well.
LockOutlivesWork ==
  [][\A h \in Handles :
       Holds(h) /\ ~Holds(h)' /\ work[h] # "none" =>
         \/ ForceRelease(h) \/ PollFails(h) \/ h \in lost
         \/ work[h] = "accepted" /\ PollIdle(h)]_vars

\* No request waits for a lock for ever, although batches hold locks while
\* they wait for others, or for one they hold themselves.
WaitEnds ==
  \A r \in Requests : pc[r] \in {"try", "asleep"} ~> pc[r] \notin {"try", "asleep"}

\* Every lock is released, also when a job ends before the first poll or its
\* watcher never reaches the worker.
LockReturned == \A h \in Handles : Holds(h) ~> ~Holds(h)

=============================================================================

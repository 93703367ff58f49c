# Verification of OllamaLegion in TLA+

OllamaLegion is a cluster for LLM and image inference: a **balancer** (Go) accepts
Ollama/OpenAI requests and chooses a backend; **cppworker** processes load GGUF
models through a C bridge to llama.cpp and generate text; **sdworker** processes
supervise a stable-diffusion server; **agents** report the state of a machine; an
**RPC coordinator** runs one model over several workers. This directory holds TLA+
models of the parts whose correctness depends on the order in which goroutines,
requests, timers and failures meet, the TLC runs that check them on small
instances, and TLAPS proofs for every value of the constants.

## 1. Inventory

For each part: the state it keeps (S), its operations (O), whom it talks to (I),
what is hard about it (H) and what makes it correct (C).

### cppworker

* **Slot manager** (`internal/cppbackend/slot_manager.go`). S: `inUse`, a FIFO of
  waiter channels. O: `Acquire` (fast path, wait, cancel), `releaseInternal`. I:
  `Generate*` in `backend.go` hold a slot around `inst.mu`. H: a grant races a
  cancellation; two arms of a `select` are ready. C: a seq_id has one owner, none is
  lost, none is idle while somebody waits, grants are FIFO, everybody is answered.
* **In-flight counter** (`inflight.go`). S: an atomic counter and an age per model.
  O: `Inc`, `Dec`, `Reset`, `WaitZero`, `AgesR303`. I: every handler; reload and unload
  refuse while it is not zero. H: it is read before an unload that comes later; the
  counter and the age are updated in two steps. C: what runs keeps its model.
* **Load claims and instance registry** (`backend.go`, `load_claims_r303.go`,
  `handlers_model.go`). S: `loading` (claim channels) and `loadClaims`, `models`, the mutex
  of an instance, the single load flight of the worker. O: load, reload (in the
  background or waiting), unload (plain or forced), lazy load of a chat, idle unload; claim,
  wait, reclaim of a stale claim. I: the slot manager and the batched scheduler run on an
  instance; the C bridge fills and frees its memory. H: every check is in one critical
  section and the act in another; a claim is judged stale outside the lock that removes
  it; a failing load cleans up after another load. C: a claim has an owner that
  releases it, memory is always in somebody's hands, a generation keeps its model, every
  call ends.
* **Batched scheduler** (`batched_scheduler.go`). S: sessions by SeqID, each with a token
  channel, a done channel, its position and its part of the KV cache. O: register,
  unregister; a tick collects the sessions, decodes one batch, samples, sends,
  finishes; stop by an unload that waits 10 s and then detaches the loop by force. I:
  `batchedInferStream` reads the tokens; `unloadModel` frees the model after the stop. H:
  sessions leave while a batch decodes; a reader hangs up while its token is being sent;
  a decode fails. C: tokens in order, the cache agrees with the position, a session
  ends although others do not read, nobody waits for a stream that is over.
* **HF downloader, model manager, idle unload, RPC server child, config, memory
  fit** (`hf_downloader.go`, `model_manager.go`, `rpc_server_child.go`, ...).
* **HTTP handlers, lazy load, registration** (`cmd/cppworker`).

### balancer

* **Admission** (`admission_queue.go`, `slot_manager.go`, `unified_queue_r73.go`).
  S: active requests and a limit per backend, a queue of waiters per key, in-flight
  count and last service time per session, a broadcast channel. O: try, enqueue,
  wait, grant, release, time out, cancel, zombie preemption. H: barging, lost
  wake-ups, a preempted stream that still releases. C: never more leases than slots,
  every lease returns its slot once, waiters are served in priority order.
* **Sessions** (`session_manager.go`). S: session table, active stream marks. H:
  stale sessions are collected under one lock and removed under another.
* **Reload coordination** (`nctx_reload_dedup.go`, `nctx_reload*.go`, `preflight_nctx.go`,
  `autotune.go`, `llamacpp_backend_helpers.go`). S: a registry of reloads under way by
  backend, model and target window, with a TTL of 5 minutes; a single flight per
  backend. O: start unless pending, mark an external reload, wait until it is over;
  `DoReload`. I: the requests of the proxy, AutoTune and the operator start reloads; a
  lazy load waits for them; the worker carries them out (load claims). H: three kinds
  of callers with keys of their own, check and act apart, entries that expire under a
  running reload. C: one reload of a model at a time, who waits is woken, who joins a
  reload gets its result.
* **Backend registry and health checks** (`backend_registry.go`, `slot_manager.go`,
  `health.go`, `agent_manager.go`, `ghost_backend_reaper.go`, `api/handlers_agents.go`,
  `api/handlers_backends.go`). S: a record per ID with status, active count, agent
  contact and role; check results. O: add, check, registration check, heartbeat (copy and
  write back), evacuate, delete or detach with a drain time-out, reap ghosts. I: admission
  takes and returns slots by ID. H: everybody works by ID while records are replaced and
  copies written back. C: counts are right, a drained record is idle, a dead node stays
  out, a live one comes back, ghosts go.
* **Image GPU lock** (`image_resources.go`). S: lock table by host and GPU, holders,
  fuses (timers). O: take, hand off, release, forced release, asynchronous watch. H:
  a fuse races a release and a new holder. C: no two conflicting locks.
* **Auto-pull** (`auto_pull.go`), **unload scheduler** (`unload_scheduler.go`),
  **RPC layout guard**, **stream stall watch**, **autotune**, **proxy, selection and
  translation** (the bulk of `internal/balancer`).

### sdworker

* **Supervisor** (`internal/sdbackend/supervisor.go`). S: process, state, generation
  number, loading flag. O: load, unload, reload, watch. H: unload during load, a
  watcher of an old generation. C: state Loaded means a live process.
* **Queue and jobs** (`queue.go`, `jobs.go`). S: slots, job table. O: submit, run,
  cancel, wait, collect. C: a slot per live job, finished jobs are collected.
* **HTTP and HF download** (`cmd/sdworker`, `sdbackend/hf*.go`).

### Distributed inference

* **RPC coordinator** (`internal/rpccoordinator`). S: workers, distributed models,
  jobs. O: register, infer over a pipeline with retries and failover, stream, cancel.
  Only tests register a distributed model, cancel a job or start a heartbeat loop
  (`RegisterDistributedModel`, `CancelJob`, `NewHeartbeatLoop`), so no program of this
  repository reaches its pipeline.
* **Heartbeats** (`heartbeat.go`): failure thresholds per worker, as unreachable.
* **RPC worker** (`internal/rpcworker`), **tensor RPC** (`internal/rptensor`).

### The rest

* **Model replication groups** (`internal/modelreplication`), **virtual models,
  composition, backend groups** (`internal/virtualmodel`, `composition`,
  `backendgroup`), **API, sessions, sharing** (`internal/api`), **agent**
  (`internal/agent`), **settings, configuration, memory fit, i18n**
  (`internal/settings`, `config`, `memfit`, `i18n`, `pkg`), **C bridge**
  (`c/bridge`), **web UI** (`webui`), **scripts and deployments**.

## 2. Modules

| module | models | role |
|---|---|---|
| `SlotPool` | what the worker slot manager promises: a first-come first-served pool | abstract specification |
| `WorkerSlots` | `internal/cppbackend/slot_manager.go` and the inference call around it | implements `SlotPool` |
| `ModelLoads` | load claims, instance registry and in-flight gates of `internal/cppbackend` with the handlers of `cmd/cppworker` | |
| `BatchedScheduler` | `internal/cppbackend/batched_scheduler.go` with its readers and the unload | |
| `LeasePool` | what admission promises to requests: bounded leases, returned once, in order within a session | abstract specification |
| `Admission` | `internal/balancer/slot_manager.go`, `admission_queue.go`, `unified_queue_r73.go` | implements `LeasePool` |
| `BackendRegistry` | `internal/balancer/backend_registry.go`, `health.go`, `agent_manager.go`, `ghost_backend_reaper.go` with their handlers of `internal/api` | |
| `ReloadGate` | `internal/balancer/nctx_reload_dedup.go`, `DoReload` of `nctx_reload.go` and their callers | |
| `ImageGpuLock` | the lock of `internal/balancer/image_resources.go` with `image_router.go` and `image_batch_r99.go` | |
| `SdSupervisor` | `internal/sdbackend/supervisor.go` with its callers | |
| `JobBoard` | what the image worker promises to the clients of its jobs | abstract specification |
| `SdJobs` | `internal/sdbackend/queue.go`, `jobs.go` | implements `JobBoard` |
| `GoSlices` | removal of an element of a slice (`Without`) | helper |
| `QueueFacts` | | lemmas about queues and `Without` |
| `WorkerSlotsProofs`, `AdmissionProofs`, `BackendRegistryProofs`, `ReloadGateProofs`, `ImageGpuLockProofs` | | proofs about the module they name |
| `CppBackendProofs` | | proofs about `ModelLoads` and `BatchedScheduler` |
| `SdWorkerProofs` | | proofs about `SdSupervisor` and `SdJobs` |
| `MC*` | | constants of the instances TLC checks |

The variables carry the names of the fields they stand for, with a comment at the
declaration where the name differs. A goroutine is a constant's element with a
program counter `pc`; one action is one region under the component's mutex, one
arm of a `select`, or one call that may block. Actions are named for the code
(`releaseInternal` is `ReleaseInternal`). Next to some definitions stand *mutants*:
the same definition with a plausible bug, which make a property of a run fail and
so show that the run would notice the bug. Nothing else uses them.

### WorkerSlots

`Acquire` is `AcquireFast` or `AcquireSlow`, then the select (`ReceiveSlot` or
`SeeCancelled`), and on cancellation `LeaveQueue`, `Drain` and `GiveBack`: the slot
may have been put into the caller's channel (`box`) between the two. `StartDecode`,
`EndDecode` and `Release` are the call that uses the slot; a caller is cancelled at
any moment by `Cancel`. `ImplementsPool` maps this to `SlotPool` with the slots
whose owner holds or will receive them.

### ModelLoads

A caller is a handler, or the goroutine it leaves behind, and calls one operation after
another: `load`, `reload`, `syncReload`, `unload`, `forceUnload`, `chat`, `idle`. The guards
of the handlers are `ReloadGate`, `TryLockReload`, `UnloadGate`, `UnloadIfLoading`,
`IdleGate`, `Look`; the claim is `TryLockLoad`, `DedupByPath`, `Exists`, `Reclaim` with
`RemoveStale` (the check and the removal), `UnlockLoad`; `LoadModelWithOpts` is
`AcquireFlight` (or `FlightTimeout`), `Register` (or `Refuse`), `EnterC`, `Loaded` or
`LoadFails`; `unloadModel` is `RemoveEntry` and `FreeModel`; a chat is `Lookup`, `LockInst`,
`Generated`. `Age` lets a claim pass the age at which it may be reclaimed. An instance
records whether its memory is there, gone, or freed under the C call that fills it.

### BatchedScheduler

`RegisterSession`, `Read`, `ReadClosed`, `UnregisterSession` are a client; `Tick`,
`LockModel`, `DecodeOk` or a failure, `Sample`, `Send` or `AbandonTick`, `CloseChannels` are
one pass of the loop `Run`; `StopRun` its end; `Unload`, `RunEnded` or `ForceDetach`, and
`FreeContext` the unload. The i-th token of a session is the number i, so that order and
loss can be seen. A panic of the loop (a send on a closed channel) is `crashed`.

### Admission

A request tries the backends it may use (`TryAcquire`, `TryFails`: both fast paths and the
scan of the unified queue), passes the watermark, is enqueued and loops: take the
broadcast channel, check its turn (`bestLocked`), try, look at the deadline, sleep
(`FallAsleep`; woken by the broadcast, the 250 ms poll, the deadline or
cancellation). `MarkInflight` ... `Broadcast` are the lease and its end, in the order
of the deferred calls. `FallSilent` and `SlotTaken` are the preemption of zombie
sessions, `WindowPasses` the end of the fairness window, `ChangeHealth` the health
checks. `ImplementsLeases` maps this to `LeasePool`: a request has the lease of a slot
from the step that counts it (`TryAcquire`) to `ReleaseSlot`, waits while it is in a queue
without one, and has ahead of it the waiters of its session that stand before it; a try, a
poll, a wake-up and the bookkeeping around a lease are stutters. Not modelled: waiting switched off, requests without a session key, removal
of a backend, the shorter wait under an image lock, the 10-second keep-alive.

### BackendRegistry

One ID, whose record may be removed and registered again (records of different IDs
never meet). Requests work by ID across such a change: `Find`, `Acquire`, then `Finish` or
`Fail`, `FindAgain` and `Decrement` look the record up again. The rest are the actors
around it: `AddBackend` with the registration's check (`ProbeNode`, one step), the checker
(`PerformCheck`, then `CheckPassed` or `CheckFailed`), the agent's handler (`Contact` or
`Reregister`, and `CopyRecord` with `BeginUpdate` and `EndUpdate`), `Evacuate` and `SetRole`, the
removers (`BeginDelete`, `BeginDetach`, `Detach`, `Mark`, `Drained` or `DrainTimeout`,
`Delete`), and the reaper (`TimeOutAgent`, `ScanGhosts`, `IsStillGhost`). `UpdateBackend` is
two steps: it holds `p.mu` throughout, which keeps out everybody who takes it (`Unlocked`), but
reads the count at `backend_registry.go:426` and writes it at 464 without `state.mu`, under
which a request that has looked the record up before changes it in between (`Tear`). Simplified: the
states `unhealthy` and `ollama_unavailable` are one; the agent time-out and the ghost TTL
pass together (`gone`); an ID is registered again only when the earlier
registration's check is over; failures are counted up to the threshold; every record
counts as auto-registered.

### ReloadGate

A caller is one of six kinds. `CheckPending` is the guard in front of a request's reload,
`StartReloadIfNotPending` the start of a preflight, an overflow or a window,
`BeginExternalReload` the mark of AutoTune or of a plan an operator applies; `FindEntry` and `EntryDone`
are `WaitReloadDone`. `Deregister` and `Close` are the end of an entry (in this order, two steps),
`Expire` its TTL. The reload is `BeginLoad`, `EndLoad` for those that load the model
directly, and `PostReload`, `JoinReload`, `ReloadDone`, `JoinerWakes` for `DoReload`.
`Postpone` and `LoseMarker` are the ways out of an AutoTune plan before it loads,
`RemoveBackend` the operator. A reload may be over for the balancer while the worker loads on
(`loads`, until `FinishLoad`): `executeAsyncReload` returns on a 202 without polling
(`nctx_reload_handlers.go:1960-1965`); `DoReload` and `executeLlamaCppLoad` poll after a 202, but
may give up before the worker does. The retries and the fall-back after 404 are part of
the call that `ReloadDone` ends. Not modelled: `triggerStreamGrowthR385`
(`stream_growth_r385.go:156`), which calls `executeAsyncReload` without asking the gate,
how a window is computed and whether a reload is worth while, the synchronous legacy
modes, opt-in time-outs (by default a wait has no limit), and the polling for the new
window.

### SdSupervisor

The single flight of `Load` (`JoinLoad`, `BeginLoad`, `StopPrev`, `PortFree`, `Spawn`, `ProbeOk` or
one of the failures, `Install`, `EndLoad`; `waitPortFree` looks at the port in one step, and the
start, a step later, looks at nothing), `Unload`, the watch goroutine (`Watch`),
`ensureLoaded` and `runGeneration`, and `Die`, the crash of a process at any time.
A process is named by the generation number of its load. Not modelled: the command
line, side-car files and progress tracker.

### SdJobs

`Submit`, `Register`, `StartJob`, `Finalize`, `CloseDone`, `Release` are one job's path through
`runAsync` and its deferred calls; `Cancel` meets it at any point of it; `Collect` is the
timer of the registry; `BeginSync`, `EndSync` are `GenerateSync`, which shares the slots. `ImplementsBoard` maps this to
`JobBoard`: the status of a job is what a client is told that asks for it (nothing before it is
registered, "gone" after it was collected), the line is `inQueue`, and a job is answered when
its channel is closed; slots and synchronous calls are hidden.

### ImageGpuLock

A backend's lock has the key host#gpu, or host when the card is unknown.
`TakeLock`, `FallAsleep`, `TimeOut` and `SeeCancelled` are the loop of `acquireLock`; `NextGate`
is the loop of a batch over its candidates, `FallBack` its return to the single path;
`Submit` sends the request, which some of the backends take; `Answer` is the end of the call,
with an answer or an error from each of them, and `Accepted` the 202 of an asynchronous one,
which hands the lock to a watcher. `LosePart` is the call that fails after the backend took the
request (transport error, time-out, client gone): the worker generates on. `ReleaseGate` is
the deferred release; `ForceRelease` the fuse; `Poll*` and `WatchDone` the watcher, which gives
up at its limits whether the job is over or still queued. The worker appears as `StartWork`
and `FinishWork` (`runAsync`), with no limit to the time a job is queued. Not modelled: the metrics poller, the VRAM and model
gates (which only refuse before the lock), the text side that asks `gpuLockHeldFor`.

## 3. What the runs check

All runs are exhaustive over the instance named. Deadlock is checked except where noted.

| run | instance | shows |
|---|---|---|
| `worker_slots` | 4 calls, 2 slots, cancellation anywhere | exclusive seq_ids, no lost slot, refinement of `SlotPool` (which also gives FIFO grants and no idle slot with a waiter), queued and cancelled calls return |
| `admission` | 3 requests of 2 users, one slot | refinement of `LeasePool` (never more leases than slots, a lease returned once, order within a session), no request let through to the slots early, a free slot finds a taker |
| `admission_any` | 2 backends, one flapping, 3 requests in two queues, one silent stream, watermark 2 | no missed release, no slot counted without a holder |
| `backend_registry` | one ID, 2 records, one request, one operator, the reaper; limit 1, threshold 2 | counts right but for changes within an `UpdateBackend` and leases of removed records, a drained record idle, dead nodes out, live ones back, ghosts reaped |
| `reload_gate` | 3 of 6 callers of all kinds on one model, entries expire, the backend may be removed | one reload of a model at a time behind the gate (but for expired entries and loads left to the worker), every wait ends but that for a lost marker |
| `reload_gate_join` | two preflights of two models and an overflow on one backend | **violation**: who joins a reload does not get its result |
| `model_loads` | 2 callers of every operation, one model, 3 instances, stale claims | claims have owners, no copy is lost, a generation keeps its model, no lock is left behind, every call ends |
| `batched_scheduler` | a client that reads to the end and one that may hang up or stop reading, 3 sessions, 2 at a time | tokens in order, cache and position agree, only a hang-up panics, the model outlives its use, sessions finish, streams end |
| `batched_scheduler_failed` | one client | **violation**: a client of a failed session waits for ever |
| `sd_supervisor` | 4 callers (one of each kind), 2 models, 3 loads and unloads | one server, no orphan, intended exits are no errors, deaths noticed |
| `sd_jobs` | 3 jobs, 2 synchronous handlers, 2 slots | slots held, refinement of `JobBoard` (never more jobs than slots, positions do not grow, final states final, waiters answered when final), every job ends |
| `image_gpu_lock` | an asynchronous request and a batch; two cards and a backend with an unknown card; fuse armed, answers get lost, worker may be unreachable | locks exclude each other, one owner each, a lock outlives the work (with the exceptions of section 4), no wait and no lock for ever |

Type invariants and the weaker facts (`QueueIsQueued`, `DoneIsFinal`, `InflightMatches`,
`LoadedHasProcess`, `WorkConserving`, ...) are conjuncts of the inductive invariants of section 5,
and were checked by TLC on these instances before they were proved.

**Bounds.** Two slots are the least with which a slot can be handed to the wrong
waiter; four calls then give two waiters behind two holders. Three requests of two
users are the least in which a repeat request competes with a user not yet served.
Three generations (`MaxGen`) allow a load, an unload during it and the next load, which is
as far as the generation number is compared. The poll limits are 2 idle polls (as in the code: one below, one at the limit), one poll of
startup grace (5 in the code) and one failed poll in a row (3 in the code): the longer limits
only let the same steps come later, and the proofs hold for all of them.
Two records of an ID are the one a late request knows and the one that is
registered now; a third would only be known to somebody who is as late, and the
request's limit of one slot is where a wrong count blocks the node. Parts of the
registry that have nothing to do with each other are not run together: `Parts` names
the five sets that are, and each behaviour keeps the set it starts with. Failures are
counted up to the threshold, beyond which the code does not tell them apart. Two callers of
every operation meet in all pairs, and each leaves an instance behind at most while it
runs, so three instances are enough. In `ReloadGate` a call is made once, and three calls are
enough for the longest story known: an entry expires, a second reload replaces it, the
first one ends while a third caller waits. At most one load is left to the worker and at
most two entries have expired or loads are left, which is what two reloads that meet can
do, and the operator removes the backend only when a plan of AutoTune has begun, the only
caller that is lost by it (`ThreeCalls`). `MaxTokens`, `PromptLen`, `Buf` and `NParallel` are 2:
a first token, a last one, a full channel, a full batch. `MaxSeq`, `MaxGen` and
one call per caller stop behaviours, so `BatchedScheduler`, `SdSupervisor` and `ReloadGate`
run with `CHECK_DEADLOCK FALSE`; other counters are bounded by the number of actors.

**Fairness.** Steps of a goroutine that cannot be kept from running are weakly fair.
What the code does not guarantee is not assumed: clients arrive, cancel and
disconnect when they like; a decode of the slot manager may take for ever, so
`WaiterAnswered` names as antecedent that holders let go; requests in `Admission` hold
their lease as long as they run (the wait has a deadline of its own, whose firing is not
needed for `FreeSlotTaken`: the poll is enough). A stopped process dies (it is
killed after the grace period); a running one need not. In `ImageGpuLock` the time-out is
strongly fair, because it is a wall-clock deadline looked at after each failed try; a
poll that fails is not fair by itself, since `imageAsyncMaxPollErrors` of them in a row
end the watcher; the fuse never has to fire. In `BackendRegistry` the tickers (checker,
registration check, reaper), time (`Age`), the removers and the agent handler's own
steps are fair; requests, agents that report, operators and the node are not. The checker and
the reaper are strongly fair, because they wait for `p.mu`, which heartbeats take again and
again and a Go mutex hands over. In
`ModelLoads` every step of a caller is strongly fair: C calls and generations end, and a
waiter for the mutex of an instance or the flight is not passed over for ever (Go hands
a mutex over after 1 ms of waiting). In `ReloadGate` goroutines go on and every call to
the worker ends, by an answer or a time-out; a load left to the worker need not. In `BatchedScheduler` the loop and the clients that are not `Slow`
go on; the stop is strongly fair, because a `select` picks among ready arms at random.

## 4. Disagreements met while modelling

Checked (section 3): a failed session against `backend.go:2407` and `:3208`
(`batched_scheduler.go:414`, `FailedStreamEnds`); the result of a joined reload against
`preflight_nctx.go:1361` (`nctx_reload.go:1101`, `JoinerGetsResult`).

Met with a run or a proof, where the property names the exception:

* A server installed after an unload dies unnoticed, against `supervisor.go:544-546`
  (`CurrentDeathNoticed` speaks of the current generation only).
* A health check takes a record out of draining (`backend_registry.go:552` against the
  comments at 143 and 280), so a drain may end with requests on the record
  (`DrainedIsIdle` excepts `undone`).
* `UpdateBackend` means to keep the count of the record (`backend_registry.go:426`, 464) but
  reads and writes it under `p.mu` only, while `tryAcquireSlot` and `releaseSlot` change it under
  `state.mu` (`slot_manager.go:73`, 87-91): a request that comes or goes in between is
  lost from the count or stays on it (`NoPhantomLoad`, `RunningIsCounted` and `DrainedIsIdle`
  except `torn`).
* A request of a removed record is released on the newer record of the same ID
  (`RunningIsCounted` excepts `shorted`).
* A preempted zombie's late release frees a slot that was already given away
  (`slot_manager.go:49`, `:79`); more than the limit are then let in, so the
  refinement of `LeasePool` is checked and proved, and `NoOverAdmission` proved, for
  `Streams = {}`.
* The marker of an AutoTune plan whose backend was removed is never taken away:
  `executeAutoTuneReload` returns at `autotune.go:1130-1135`, before the `defer` at 1155,
  although the comment there (1151-1154) says that it goes on any path, "backend not found"
  included. A lazy load then waits for ever (`WaitReloadDone` without a limit,
  `llamacpp_backend_helpers.go:887`); `WaitsEnd` excepts it.
* The gate opens on a 202 (`nctx_reload_handlers.go:1960-1965`) or when the polling fails, while
  the worker still loads, and the next request may start a second load of the model, against the
  "single gate for all triggers" (`nctx_reload.go:458-466`); `OneReloadThroughGate` excepts `loads`.
* A call for an image that fails after the worker took it (transport error, time-out, a client
  that left: `image_router.go:151-165`, `image_batch_r99.go:400-423`, `proxy_helpers.go:497`)
  frees the card while the worker generates (`jobs.go:289`), against `image_policy.go:26`; so
  does a watcher whose job has not started within its limits (`image_resources.go:1835-1851`).
  `LockOutlivesWork` excepts both.
* `handleLoadModel` returns with its claim when the file is loaded already
  (`handlers_model.go:373-383`): nobody releases it until it is reclaimed
  (`ClaimHasOwner` excepts it).
* A model may be unloaded before or while the C call that loads it runs: the copy is
  lost (`NoCopyLost` excepts `early`) or torn (`DecodesLive` excepts `torn`).
* A client that hangs up may make the scheduler send on a closed channel
  (`batched_scheduler.go:590` and 339-344); `OnlyHangUpPanics` says nothing else does.

Read, not checked by a run. Admission, sd and image:

* A repeated request overtakes a user never served on the fast path
  (`admission_queue.go:594`, `:617` against 29-32).
* `ensureLoaded` refuses a generation because its own model is being loaded
  (`jobs.go:546` against 531).
* Cancelled jobs are never collected (`jobs.go:391` against 52, `handlers_generate.go:230`).
* `jobs.go:348-349` closes `done` before it releases the slot (deferred calls run in
  reverse), so a client that saw its job end may find the queue still full;
  the comment at 449 reads as if the order were the other.
* The goroutines of queued jobs take the lock in any order, while positions are shown as a
  queue (`jobs.go:71`).
* `supervisor.go:538` installs a process without comparing the generation that
  `supervisor.go:264` increments on unload, so an unload during a load does not cancel it.
* A waiter of the single flight returns the result of the latest load
  (`supervisor.go:443`), which may be of another model than it asked for (422, 432).
* Unload checks `InFlight()` and stops later (`handlers_model.go:329`, `idle.go:112`): a
  generation may start in between.
* `image_policy.go:86` says 0 means 600 s for `exclusiveLockTimeoutSec`; the default
  since is 0, no fuse (`image_policy.go:146`, `image_resources.go:595`).

* The watermark of the unified queue is checked in one critical section and the request
  queued in another (`unified_queue_r73.go:154`); a generation of another model with more than one
  slot stops the server under a running one (`supervisor.go:467`); stale sessions are
  collected under one lock and removed under another (`session_manager.go:278`).

Worker:

* A reload in the background takes no claim (`handlers_model.go:2744`), and `IsLoading`
  (`backend.go:2696`) says no meanwhile, against the comment at 2809.
* A claim may be reclaimed while its owner waits for the load flight (300 s against
  `loadFlightWait` of 600 s); a model found gone is loaded without a claim
  (`handlers_model.go:349-350`); `UnlockLoad` releases by name, also the claim of another; the
  roll-back of a reload may find the model "already loaded"; the reload's in-flight check
  comes before its unload (about 2790).
* The age of a request may be missing for a moment (`inflight.go:91-98`).
* `UnregisterSession` tests for a closed `TokenCh` by receiving and may swallow a token
  (`batched_scheduler.go:341`); a first token that ends the generation is never sent; a
  session registered after `Run` has ended is never served; a cancelled tick leaves
  channels open; the SeqID grows without a bound (221) although the bridge
  has `n_parallel` sequences (`bridge.c:1754`).

Registry and reloads:

* `RemoveBackend` deletes by ID (`backend_registry.go:311`), also a newer registration.
* A role set between the reaper's scan and its removal is ignored
  (`ghost_backend_reaper.go:143-153` against 207-222); the comment of `isStillGhost` says
  that a heartbeat is noticed, but `MarkAgentContact` and `TouchAgentContact` do not set `HasAgent`.
* `MarkUnhealthy` (`health.go:319-325`) touches the results only, not the record.
* The heartbeat's copy and write-back may lose an operator's role
  (`handlers_agents.go:638`); a re-registration leaves `LastAgentContact` zero with `HasAgent`
  set, so that the next tick drops the agent; the comment of the detach says that the
  silence counts from now, but `ghostSilentSince` prefers the last contact.
* The periodic snapshot may overwrite the state flushed by a removal (`state.go:317-341`,
  `backend_registry.go:353`); a removal by the reaper leaves the backend in the
  configuration; the migration in `LoadState` moves `p.config.Backends` under pointers into it
  (`state.go:226`).
* The "single gate for all triggers, preflight included" (`nctx_reload.go:458-466`): a preflight
  has a key of its own (`preflight_nctx.go:1375`), and the gate looks at 476 and acts at 479, so a
  preflight and another reload may load one model at once.
* "`WaitReloadDone` waits for exactly this one" (`preflight_nctx.go:1427-1430`): it takes
  any entry of the model in map order (`nctx_reload_dedup.go:191-200`).
* An expired entry still blocks `StartReloadIfNotPending` (`nctx_reload_dedup.go:78`) but is not
  pending for `IsReloadPending` (118), and `BeginExternalReload` overwrites it.
* A lazy load looks at the registry (`llamacpp_backend_helpers.go:881`) before it loads, and
  may still come between the unload and the load of AutoTune.
* A preflight whose reload panics is not refused, as its log says
  (`preflight_nctx.go:1482-1487`), but served.

## 5. Proofs

Checked by TLAPS for any set of callers, requests, jobs and backends (finite where the code
counts them), and from the named assumptions on the constants only.

* **`WorkerSlotsProofs`.** `SlotsInv` is inductive: besides the types it says that
  `inUse` is exact, that a caller is queued only while it waits and its box is empty,
  that a box is filled only for a caller off the queue, that boxes and held slots are
  pairwise distinct, and that nobody queues while a slot is free. None of
  `SeqIdExclusive`, `NoLostSlot`, `WorkConserving`, `DrainFindsSlot` is inductive alone: a
  hand-over needs that the receiver's box is empty, a cancellation that a caller no
  longer queued has a filled one. `WorkerSlotsImplementPool` maps each step to a step
  of `SlotPool` or a stutter.
* **`AdmissionProofs`.** `AdmissionInv` has a part for each kind of state: `LeaseInv`
  (where a request may be while it has a lease), `HealthInv`, `CountInv` (what a backend counts),
  `NoPhantomLoad`, `InflightMatches`, `WakeInv` (a backend that a
  waiter found full is full, or the release of a slot of it is about to wake the waiter), `QueueInv` (queue entries are the waiters, in the queue of
  their key) and `FifoInv` (the order within a session). `NeverOverAdmitted` has the
  assumption `Streams = {}`, which section 4 explains; the other invariants have none.
  `AdmissionImplementsLeases`, under the same assumption, maps each step to a step of
  `LeasePool` or a stutter. A slot is granted in the step that finds the backend below its
  limit, and the limit bounds the leases because the counter is exact (`CountInv`); that
  nobody is ahead of the request comes from `FifoInv`, since the turn was checked in
  an earlier step. The queue side is `WithoutKeepsOrder`: who leaves a queue changes the order
  of nobody else.
* **`BackendRegistryProofs`.** `RegistryInv` is the type, `RequestInv` (which records a
  request holds in which state), `HistoryInv`, `DrainInv` (the record of a remover that waits is
  draining, and empty once seen empty, unless it is `undone`), `NoPhantomLoad` and
  `RunningIsCounted`, and for the copy of an `UpdateBackend` that is about to write, that its count
  is that of the record unless the record is `torn`. A count alone is not inductive: a release by ID decrements
  what it finds, so the invariant must say whose slots are counted where.
* **`ReloadGateProofs`.** `EntryInv`: an entry is the entry of a reload that runs, and a reload
  that runs has its entry unless it has expired. `OneReloadThroughGate` is then a
  consequence of the registry being a function of the key; a load that was left to the worker
  has no entry, and is its other exception. `DoneIsDeregistered` rests on the
  order of the last two steps of a reload.
* **`SdWorkerProofs`, jobs.** `JobsInv`: the type, `JobInv` (the state of a job against the place of its
  goroutine), `QueueIsQueued`, `SlotsAreHeld`; `FinalIsFinal` and `PositionNeverGrows` are
  step properties that follow from it. `SdJobsImplementBoard` adds `BoardInv` (the registry
  knows a job until it is collected, and only one that has run is), and maps each step
  to a step of `JobBoard` or a stutter. The bound on the jobs a client sees comes from the
  semaphore: each of them has a slot, and so has the one about to be registered.
* **`SdWorkerProofs`, supervisor.** `SupervisorInv`: one load at a time, and no current process while
  it opens one (`FlightInv`); a call that loads has a model (`WantInv`); the process a load has
  started was told to stop by nobody, and nobody is about to (`FreshInv`), and the same for the
  current process (`CurrentInv`); at most one process is alive (`Alone`), with `NoOrphan` and
  `LoadedHasProcess`. `OneServer` alone is not inductive: the spawn itself asks nothing, it
  relies on the port found free a step earlier, and on nobody else starting a process
  between the two (`Alone` says of the step in between that no process is alive).
* **`ImageGpuLockProofs`.** `LocksExcludeAlways` needs only that `holder` is a function on the
  keys: a lock is taken in the same critical section that finds no conflict.
  `LockHasOwnerAlways` needs `OwnerInv`: where a request may be while it has gates, a
  watcher or a handed-over lock. A watcher is on only after its request began to
  release, a handed-over lock is still among the gates, and an idle request has none;
  so a request that begins again cannot meet its own old lock.
  `TypeCorrect` also gives that no counter of a watcher passes its limit.
  `LockOutlivesWork` needs `WorkInv` besides: a request has no generation on a worker before it
  submits, and when it comes to its release none is left but those handed to a watcher and those
  whose answer was lost. So the deferred release of a request that got its answer never frees a
  card at work, and what remains are the fuse, an unreachable worker, a job that starts too
  late and a request that got an error.
* **`CppBackendProofs`, loads.** `LoadsInv`: the type; who loads has the flight (`FlightInv`); a
  caller has an instance in its hands exactly at the steps that use it (`HandInv`); where the
  owner of a claim may be (`ClaimInv`), with the part that only a reload begins an unload
  under a claim, without which the claim could stay behind `FreeModel`; what a C call
  fills is not decoded on, nor made ready by another (`FillInv`); whose hands a copy is in
  (`CopyInv`). `NoCopyLost` is not inductive because the C call that is about to create the
  memory must already have its entry, its unloader or the mark `early`. `DecodesLive` needs
  `FillInv` for a load that fails while others generate. `NoLockLeftBehind` is inductive
  on top of these, and `NoCircularWaitAlways` follows from it:
  callers wait for a claim, the flight or the mutex of an instance, and such a chain has at
  most two links and ends at a load or a generation, which need no lock.
* **`CppBackendProofs`, scheduler.** `SchedulerInv`: the type; what position, tokens and
  `finished` of a session say of each other (`SessionInv`); a SeqID not given out is known
  to nobody (`FreshInv`); the session the loop has in hand (`CurInv`); who may have closed a
  token channel (`ClosedInv`); the tokens of a session are the first ones, all sent but the
  one in the loop's hands, or but a first token that ended the generation (`OrderInv`);
  cache and position, with the tokens of the running batch for those whose turn is to
  come (`CacheInv`). `CacheMatchesPosition` speaks of the time between two ticks; the
  invariant has to follow a batch while sessions join and leave it. `OnlyHangUpPanicsAlways`
  rests on `ClosedInv`, `NeverBlocksAlways` on `CurInv` and `SessionInv`.
* **`QueueFacts`** holds the lemmas about appending to a queue, taking its head and removing
  an element, which three of these modules cite.

Only model-checked, because liveness under fairness is out of this prover's reach:
`WaiterAnswered`, `FreeSlotTaken`, `CallsEnd`, `SessionFinishes`, `StreamEnds`, `DeadStaysOut`,
`LiveComesBack`, `GhostIsReaped`, `WaitsEnd`, `WaitEnds`, `LockReturned`, `CurrentDeathNoticed` and
`JobEnds`. Every safety property of a passing run is also a theorem. Some theorems have no
run of their own, as their statements are parts of an invariant or follow from a checked
property: `NeverOverAdmitted`, `FinalStaysFinal` and `PositionsNeverGrow` (from the
refinements), `NoCircularWaitAlways`, `NeverBlocksAlways` and
the type invariants; TLC agreed with each before it was proved.

## 6. Plan

What is left, in this order:

1. Composition: `ImageGpuLock` over `SdJobs`, to replace its worker by the queue that delays
   a job; `ReloadGate` over `ModelLoads`, to show what a second load does to one that was left
   to the worker.
2. Further abstract specifications to refine: a single server for `SdSupervisor`, and the
   stream of a client for `BatchedScheduler`.
3. `AutoPull` (a pull shared by several requests), session cleanup, and the leases and rollouts
   of the replication groups.

## 7. Not modelled, and why

Parsing, translation and streaming of protocols, selection heuristics, autotune's plans and
memory estimates are sequential functions over measurements; downloads, the agent, the
HTTP surfaces and the web UI are I/O; the C bridge and llama.cpp are foreign code,
represented by a call that ends or fails. The pipeline of the RPC coordinator and its
heartbeats are reached by tests only (section 1). Configuration objects (virtual
models, composition, backend groups, settings) have no interleavings of interest.
These make up most of the repository, so the models stand for a small share of its
lines: those in which several goroutines meet. `PROJECT.json` lists every component with
its state and every hazard with the properties that cover it.

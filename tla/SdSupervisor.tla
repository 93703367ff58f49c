---------------------------- MODULE SdSupervisor ----------------------------
(***************************************************************************)
(* internal/sdbackend/supervisor.go: the supervisor of the one sd-server   *)
(* process, with the callers of cmd/sdworker and jobs.go that use it:      *)
(* generations, load, unload and reload requests.                          *)
(*                                                                         *)
(* One step is one region under Supervisor.mu or one call that may block.  *)
(* A process has the name of the generation of the load that spawns it.    *)
(***************************************************************************)
EXTENDS Naturals, FiniteSets, FiniteSetsExt

CONSTANTS Callers,  \* goroutines of the worker
          Role,     \* Role[c]: "generate", "load", "unload" or "reload"
          Models,
          NoModel,
          MaxGen    \* bound of the model: loads and unloads of a behaviour

Roles == {"generate", "load", "unload", "reload"}

ASSUME SdSupervisorAssumption ==
  /\ Role \in [Callers -> Roles]
  /\ NoModel \notin Models
  /\ MaxGen \in Nat

VARIABLES state,        \* Supervisor.state
          proc,         \* Supervisor.proc, 0 is nil
          loaded,       \* Supervisor.loaded
          loadErr,      \* Supervisor.loadErr # nil
          loading,      \* Supervisor.loading
          loadingModel, \* Supervisor.loadingModel
          gen,          \* Supervisor.gen
          inFlight,     \* Supervisor.inFlight
          alive,        \* processes that run, with the port theirs until they die
          stopped,      \* processes Stop was called on
          watched,      \* processes with a running watch goroutine
          pc,           \* where the call of c is
          want,         \* want[c]: the model c asks for
          mine,         \* mine[c]: the generation of the load c runs
          target        \* target[c]: the process c has to stop, or generates on

shared == <<state, proc, loaded, loadErr>>
flight == <<loading, loadingModel>>
procs == <<alive, stopped, watched>>
locals == <<want, mine, target>>
vars == <<shared, flight, gen, inFlight, procs, pc, locals>>

Init ==
  /\ state = "not_loaded" /\ proc = 0 /\ loaded = NoModel /\ loadErr = FALSE
  /\ loading = FALSE /\ loadingModel = NoModel
  /\ gen = 0 /\ inFlight = 0
  /\ alive = {} /\ stopped = {} /\ watched = {}
  /\ pc = [c \in Callers |-> "idle"]
  /\ want = [c \in Callers |-> NoModel]
  /\ mine = [c \in Callers |-> 0]
  /\ target = [c \in Callers |-> 0]

Goto(c, l) == pc' = [pc EXCEPT ![c] = l]

\* s.proc, s.client, s.caps, s.loaded, s.prof = nil, nil, nil, "", nil
DropProcess == proc' = 0 /\ loaded' = NoModel

\* The bound of the model: requests start only while the generations they
\* may need are left, so no call is ever stopped by the bound.
Pending(c) ==
  CASE pc[c] \in {"load", "ensure", "ensureState", "ensureNotLoading"} -> 1
    [] pc[c] = "unload" -> IF Role[c] = "reload" THEN 2 ELSE 1
    [] pc[c] = "stop"   -> IF Role[c] = "reload" THEN 1 ELSE 0
    [] OTHER -> 0

Room(n) == gen + n + MapThenSumSet(Pending, Callers) <= MaxGen

-----------------------------------------------------------------------------
(* Load.                                                                   *)

\* Where a call goes when its Load returns.
LoadOk(c) == Goto(c, IF Role[c] = "generate" THEN "client" ELSE "idle")
LoadFails(c) == Goto(c, IF Role[c] = "generate" THEN "end" ELSE "idle")

\* The model is loaded and this is no forced load.
HasModel(c) == Role[c] # "reload" /\ state = "loaded" /\ loaded = want[c] /\ proc # 0

AlreadyLoaded(c) ==
  /\ pc[c] = "load" /\ HasModel(c)
  /\ LoadOk(c)
  /\ UNCHANGED <<shared, flight, gen, inFlight, procs, locals>>

\* Another call loads: wait for it if it loads the same model.
JoinLoad(c) ==
  /\ pc[c] = "load" /\ ~HasModel(c) /\ loading
  /\ IF loadingModel = want[c] THEN Goto(c, "waiting") ELSE LoadFails(c)
  /\ UNCHANGED <<shared, flight, gen, inFlight, procs, locals>>

\* Mutants: a load beside another one, and one that forgets the old process.
BeginLoadBeside(c) ==
  /\ pc[c] = "load" /\ ~HasModel(c)
  /\ gen' = gen + 1 /\ mine' = [mine EXCEPT ![c] = gen + 1]
  /\ loading' = TRUE /\ loadingModel' = want[c]
  /\ state' = "loading" /\ loadErr' = FALSE /\ DropProcess
  /\ target' = [target EXCEPT ![c] = proc]
  /\ Goto(c, "stopPrev")
  /\ UNCHANGED <<inFlight, procs, want>>

BeginLoadForgetsPrev(c) ==
  /\ pc[c] = "load" /\ ~HasModel(c) /\ ~loading
  /\ gen' = gen + 1 /\ mine' = [mine EXCEPT ![c] = gen + 1]
  /\ loading' = TRUE /\ loadingModel' = want[c]
  /\ state' = "loading" /\ loadErr' = FALSE /\ DropProcess
  /\ target' = [target EXCEPT ![c] = 0]
  /\ Goto(c, "stopPrev")
  /\ UNCHANGED <<inFlight, procs, want>>

BeginLoad(c) ==
  /\ pc[c] = "load" /\ ~HasModel(c) /\ ~loading
  /\ gen' = gen + 1 /\ mine' = [mine EXCEPT ![c] = gen + 1]
  /\ loading' = TRUE /\ loadingModel' = want[c]
  /\ state' = "loading" /\ loadErr' = FALSE /\ DropProcess
  /\ target' = [target EXCEPT ![c] = proc]
  /\ Goto(c, "stopPrev")
  /\ UNCHANGED <<inFlight, procs, want>>

\* prev.Stop: the process dies in its own time, Stop waits for the grace.
StopPrev(c) ==
  /\ pc[c] = "stopPrev"
  /\ stopped' = stopped \union ({target[c]} \ {0})
  /\ target' = [target EXCEPT ![c] = 0]
  /\ Goto(c, "prepare")
  /\ UNCHANGED <<shared, flight, gen, inFlight, alive, watched, want, mine>>

\* No profile, a disabled profile, a port that stays busy or a failed spawn.
PrepareFails(c) ==
  /\ pc[c] \in {"prepare", "start"}
  /\ Goto(c, "fail")
  /\ UNCHANGED <<shared, flight, gen, inFlight, procs, locals>>

PortFreeUnasked(c) ==
  /\ pc[c] = "prepare"
  /\ Goto(c, "start")
  /\ UNCHANGED <<shared, flight, gen, inFlight, procs, locals>>

\* waitPortFree: the port could be listened on, and is let go again.
PortFree(c) ==
  /\ pc[c] = "prepare" /\ alive = {}
  /\ Goto(c, "start")
  /\ UNCHANGED <<shared, flight, gen, inFlight, procs, locals>>

\* runner.Start, which asks nobody: no step of the code keeps the port free
\* since waitPortFree.
Spawn(c) ==
  /\ pc[c] = "start"
  /\ alive' = alive \union {mine[c]}
  /\ Goto(c, "probe")
  /\ UNCHANGED <<shared, flight, gen, inFlight, stopped, watched, locals>>

\* waitReady: the server answers, or it has died, is too slow or cancelled.
ProbeOk(c) ==
  /\ pc[c] = "probe" /\ mine[c] \in alive
  /\ Goto(c, "install")
  /\ UNCHANGED <<shared, flight, gen, inFlight, procs, locals>>

ProbeFails(c) ==
  /\ pc[c] = "probe"
  /\ stopped' = stopped \union {mine[c]}
  /\ Goto(c, "reap")
  /\ UNCHANGED <<shared, flight, gen, inFlight, alive, watched, locals>>

Reap(c) ==
  /\ pc[c] = "reap" /\ mine[c] \notin alive
  /\ Goto(c, "fail")
  /\ UNCHANGED <<shared, flight, gen, inFlight, procs, locals>>

\* The process becomes the current one, whatever happened to gen meanwhile,
\* and its watch goroutine starts.
InstallUnwatched(c) ==
  /\ pc[c] = "install"
  /\ proc' = mine[c] /\ loaded' = want[c] /\ state' = "loaded"
  /\ Goto(c, "loadedOk")
  /\ UNCHANGED <<loadErr, flight, gen, inFlight, alive, stopped, watched, locals>>

Install(c) ==
  /\ pc[c] = "install"
  /\ proc' = mine[c] /\ loaded' = want[c] /\ state' = "loaded"
  /\ watched' = watched \union {mine[c]}
  /\ Goto(c, "loadedOk")
  /\ UNCHANGED <<loadErr, flight, gen, inFlight, alive, stopped, locals>>

FailLoad(c) ==
  /\ pc[c] = "fail"
  /\ state' = "error" /\ loadErr' = TRUE
  /\ Goto(c, "loadedErr")
  /\ UNCHANGED <<proc, loaded, flight, gen, inFlight, procs, locals>>

\* The deferred reset of the flag, a region of its own.
EndLoad(c) ==
  /\ pc[c] \in {"loadedOk", "loadedErr"}
  /\ loading' = FALSE /\ loadingModel' = NoModel
  /\ IF pc[c] = "loadedOk" THEN LoadOk(c) ELSE LoadFails(c)
  /\ UNCHANGED <<shared, gen, inFlight, procs, locals>>

\* waitLoading: polls the flag every 100 ms.
SeeLoadEnded(c) ==
  /\ pc[c] = "waiting" /\ ~loading
  /\ Goto(c, "waited")
  /\ UNCHANGED <<shared, flight, gen, inFlight, procs, locals>>

\* return s.caps, s.loadErr under a new lock.
ReturnOther(c) ==
  /\ pc[c] = "waited"
  /\ IF loadErr THEN LoadFails(c) ELSE LoadOk(c)
  /\ UNCHANGED <<shared, flight, gen, inFlight, procs, locals>>

-----------------------------------------------------------------------------
(* Requests.                                                               *)

\* runGeneration: BeginRequest, then ensureLoaded reads the state twice.
BeginGenerate(c) ==
  /\ pc[c] = "idle" /\ Role[c] = "generate" /\ Room(1)
  /\ inFlight' = inFlight + 1
  /\ \E m \in Models : want' = [want EXCEPT ![c] = m]
  /\ Goto(c, "ensure")
  /\ UNCHANGED <<shared, flight, gen, procs, mine, target>>

EnsureLoaded(c) ==
  /\ pc[c] = "ensure"
  /\ Goto(c, IF loaded = want[c] THEN "ensureState" ELSE "ensureNotLoading")
  /\ UNCHANGED <<shared, flight, gen, inFlight, procs, locals>>

EnsureState(c) ==
  /\ pc[c] = "ensureState"
  /\ Goto(c, IF state = "loaded" THEN "client" ELSE "ensureNotLoading")
  /\ UNCHANGED <<shared, flight, gen, inFlight, procs, locals>>

EnsureNotLoading(c) ==
  /\ pc[c] = "ensureNotLoading"
  /\ Goto(c, IF state = "loading" THEN "end" ELSE "load")
  /\ UNCHANGED <<shared, flight, gen, inFlight, procs, locals>>

\* Client() of the current process, which the generation then uses.
GetClient(c) ==
  /\ pc[c] = "client"
  /\ target' = [target EXCEPT ![c] = proc]
  /\ Goto(c, IF proc = 0 THEN "end" ELSE "generating")
  /\ UNCHANGED <<shared, flight, gen, inFlight, procs, want, mine>>

FinishGenerate(c) ==
  /\ pc[c] = "generating"
  /\ Goto(c, "end")
  /\ UNCHANGED <<shared, flight, gen, inFlight, procs, locals>>

EndRequest(c) ==
  /\ pc[c] = "end"
  /\ inFlight' = IF inFlight > 0 THEN inFlight - 1 ELSE 0
  /\ target' = [target EXCEPT ![c] = 0]
  /\ Goto(c, "idle")
  /\ UNCHANGED <<shared, flight, gen, procs, want, mine>>

\* handleLoadModel, or the preload of Service.Start.
RequestLoad(c) ==
  /\ pc[c] = "idle" /\ Role[c] \in {"load", "reload"} /\ Room(IF Role[c] = "load" THEN 1 ELSE 2)
  /\ \E m \in Models : want' = [want EXCEPT ![c] = m]
  /\ Goto(c, IF Role[c] = "load" THEN "load" ELSE "unload")
  /\ UNCHANGED <<shared, flight, gen, inFlight, procs, mine, target>>

\* handleUnloadModel refuses while a generation is in flight.
RequestUnload(c) ==
  /\ pc[c] = "idle" /\ Role[c] = "unload" /\ Room(1)
  /\ inFlight = 0
  /\ Goto(c, "unload")
  /\ UNCHANGED <<shared, flight, gen, inFlight, procs, locals>>

\* Unload.
Unload(c) ==
  /\ pc[c] = "unload"
  /\ gen' = gen + 1
  /\ DropProcess
  /\ state' = "not_loaded" /\ loadErr' = FALSE
  /\ target' = [target EXCEPT ![c] = proc]
  /\ Goto(c, "stop")
  /\ UNCHANGED <<flight, inFlight, procs, want, mine>>

\* proc.Stop outside the lock; a reload goes on with a forced load.
StopUnloaded(c) ==
  /\ pc[c] = "stop"
  /\ stopped' = stopped \union ({target[c]} \ {0})
  /\ target' = [target EXCEPT ![c] = 0]
  /\ Goto(c, IF Role[c] = "reload" THEN "load" ELSE "idle")
  /\ UNCHANGED <<shared, flight, gen, inFlight, alive, watched, want, mine>>

-----------------------------------------------------------------------------
(* The processes and their watch goroutines.                               *)

\* A process dies: Stop makes it, or it crashes by itself.
Die(p) ==
  /\ p \in alive
  /\ alive' = alive \ {p}
  /\ UNCHANGED <<shared, flight, gen, inFlight, stopped, watched, pc, locals>>

WatchAnyExit(p) ==
  /\ p \in watched \ alive
  /\ watched' = watched \ {p}
  /\ DropProcess
  /\ state' = "error" /\ loadErr' = TRUE
  /\ UNCHANGED <<flight, gen, inFlight, alive, stopped, pc, locals>>

Watch(p) ==
  /\ p \in watched \ alive
  /\ watched' = watched \ {p}
  /\ IF gen = p /\ proc = p
       THEN DropProcess /\ state' = "error" /\ loadErr' = TRUE
       ELSE UNCHANGED shared
  /\ UNCHANGED <<flight, gen, inFlight, alive, stopped, pc, locals>>

-----------------------------------------------------------------------------

Proceed(c) ==
  \/ AlreadyLoaded(c) \/ JoinLoad(c) \/ BeginLoad(c) \/ StopPrev(c) \/ PortFree(c) \/ Spawn(c)
  \/ PrepareFails(c) \/ ProbeOk(c) \/ ProbeFails(c) \/ Reap(c) \/ Install(c) \/ FailLoad(c)
  \/ EndLoad(c) \/ SeeLoadEnded(c) \/ ReturnOther(c)
  \/ EnsureLoaded(c) \/ EnsureState(c) \/ EnsureNotLoading(c) \/ GetClient(c) \/ EndRequest(c)
  \/ Unload(c) \/ StopUnloaded(c)

Start(c) == BeginGenerate(c) \/ RequestLoad(c) \/ RequestUnload(c) \/ FinishGenerate(c)

Next ==
  \/ \E c \in Callers : Proceed(c) \/ Start(c)
  \/ \E p \in 1 .. MaxGen : Die(p) \/ Watch(p)

Spec == Init /\ [][Next]_vars

\* Goroutines run on, and a process that was told to stop does so.
LiveSpec ==
  /\ Spec
  /\ \A c \in Callers : WF_vars(Proceed(c))
  /\ \A p \in 1 .. MaxGen : WF_vars(Watch(p)) /\ WF_vars(p \in stopped /\ Die(p))

-----------------------------------------------------------------------------
(* Properties.                                                             *)

Pcs ==
  {"idle", "load", "waiting", "waited", "stopPrev", "prepare", "start", "probe", "reap", "install", "fail",
   "loadedOk", "loadedErr", "ensure", "ensureState", "ensureNotLoading", "client", "generating",
   "end", "unload", "stop"}

TypeOK ==
  /\ state \in {"not_loaded", "loading", "loaded", "error"}
  /\ gen \in Nat /\ proc \in 0 .. gen
  /\ loaded \in Models \union {NoModel} /\ loadingModel \in Models \union {NoModel}
  /\ loadErr \in BOOLEAN /\ loading \in BOOLEAN
  /\ inFlight \in Nat
  /\ alive \subseteq 1 .. gen /\ stopped \subseteq 1 .. gen /\ watched \subseteq 1 .. gen
  /\ pc \in [Callers -> Pcs]
  /\ want \in [Callers -> Models \union {NoModel}]
  /\ mine \in [Callers -> 0 .. gen] /\ target \in [Callers -> 0 .. gen]

\* supervisor.go:423: never two sd-servers on one port.  The port is looked at
\* and the server started in two steps: that nobody else starts one in between
\* is the single flight's doing, that the one an unload or a failed load still
\* stops is gone is waitPortFree's.
OneServer == Cardinality(alive) <= 1

\* A server nobody has told to stop is the current one or belongs to a call
\* that will install or stop it: no server keeps the GPU with no way to
\* unload it.
NoOrphan ==
  \A p \in alive \ stopped :
    \/ proc = p
    \/ \E c \in Callers : mine[c] = p /\ pc[c] \in {"probe", "install"}
    \/ \E c \in Callers : target[c] = p /\ pc[c] \in {"stopPrev", "stop"}

\* The state handlers report is loaded exactly while there is a process and
\* its model, through loads, failures, unloads and crashes in any order.
LoadedHasProcess ==
  /\ state = "loaded" <=> proc # 0
  /\ proc # 0 <=> loaded # NoModel

\* supervisor.go:605: a process that was stopped on purpose never turns the
\* state into an error, even if its exit is seen after the next load.
IntendedExitIsNoError ==
  [][state' = "error" /\ state # "error" =>
       \/ \E c \in Callers : pc[c] = "fail" /\ pc'[c] # "fail"
       \/ proc \notin stopped /\ proc \notin alive]_vars

\* The death of the server that the latest load or unload left in place is
\* noticed, however the exit races with the next load.
CurrentDeathNoticed ==
  \A p \in 1 .. MaxGen : (proc = p /\ gen = p /\ p \notin alive) ~> (proc # p)

=============================================================================

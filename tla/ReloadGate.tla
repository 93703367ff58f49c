----------------------------- MODULE ReloadGate -----------------------------
\* How the balancer keeps the reloads of a model apart
\* (internal/balancer/nctx_reload_dedup.go and its callers): the registry of
\* reloads under way, the single flight of DoReload per backend, and those who
\* wait for a reload to end.
EXTENDS Naturals, FiniteSets

CONSTANTS
  \* Calls that want a model reloaded, or that wait until a reload is over.
  Callers,
  Nobody,
  \* What a caller is:
  \*   "preflight"  a request whose prompt needs a larger window (RunPreflight)
  \*   "overflow"   the worker refused a request as too long (413)
  \*   "window"     a request asks for another num_ctx (executeAsyncReload)
  \*   "autotune"   AutoTune applies a plan by itself
  \*   "apply"      an operator applies a plan
  \*   "lazy"       a request for a model that is not loaded
  Kind,
  \* The backend and the model of a caller, and the window a preflight wants.
  On, Of, Target,
  \* Backends an operator may remove.
  Removable

Backends == {On[c] : c \in Callers}

\* Only a preflight puts its target in the key. The others use 0.
Key(c) == <<On[c], Of[c], IF Kind[c] = "preflight" THEN Target[c] ELSE 0>>
Keys == {Key(c) : c \in Callers}

ASSUME ReloadAssumption ==
  /\ Nobody \notin Callers
  /\ Kind \in [Callers ->
       {"preflight", "overflow", "window", "autotune", "apply", "lazy"}]
  /\ Target \in [Callers -> Nat \ {0}]

VARIABLES
  call,      \* where the caller is
  found,     \* the entry it waits for, named by the caller that made it
  run,       \* the reload a caller started
  entries,   \* the registry: whose reload is under way for a key
  loads,     \* whose load the worker still runs though the caller takes it for over
  expired,   \* whose entry is older than its TTL of 5 minutes
  inflight,  \* whose DoReload has the backend
  joined,    \* the DoReload a caller waits for in its own
  result,    \* what DoReload gave a caller
  removed,   \* backends removed by an operator
  up         \* the process has not crashed

vars == <<call, found, run, entries, expired, inflight, joined, result, loads, removed, up>>
registry == <<entries, expired>>
flight == <<inflight, joined, result>>
outside == <<loads, removed, up>>

Init ==
  /\ call = [c \in Callers |-> "idle"]
  /\ found = [c \in Callers |-> Nobody]
  /\ run = [c \in Callers |-> "none"]
  /\ entries = [k \in Keys |-> Nobody]
  /\ expired = {}
  /\ inflight = [b \in Backends |-> Nobody]
  /\ joined = [c \in Callers |-> Nobody]
  /\ result = [c \in Callers |-> "none"]
  /\ loads = {}
  /\ removed = {}
  /\ up = TRUE

-----------------------------------------------------------------------------
\* The registry

\* The entries of the caller's model, whatever their target.
EntriesFor(c) ==
  {entries[k] : k \in {l \in Keys : l[1] = On[c] /\ l[2] = Of[c]}} \ {Nobody}

IsReloadPending(c) == EntriesFor(c) \ expired # {}

Register(c) ==
  /\ entries' = [entries EXCEPT ![Key(c)] = c]
  /\ run' = [run EXCEPT ![c] = "begun"]

\* The guard in front of every path that reloads, and the first half of
\* StartModelReloadIfNotPending. A lazy load waits for the reload it sees; with
\* none it goes on to load the model.
CheckPending(c) ==
  /\ call[c] = "idle" /\ Kind[c] \notin {"autotune", "apply"}
  /\ \/ /\ IsReloadPending(c)
        /\ call' = [call EXCEPT ![c] = IF Kind[c] = "lazy" THEN "find" ELSE "answered"]
     \/ /\ ~IsReloadPending(c)
        /\ call' = [call EXCEPT ![c] = IF Kind[c] = "lazy" THEN "served" ELSE "checked"]
  /\ UNCHANGED <<found, run, registry, flight, outside>>

\* An entry under the same key stands in the way also when it has expired. The
\* preflight then waits, the others answer their clients at once.
StartReloadIfNotPending(c) ==
  /\ call[c] = "checked"
  /\ IF entries[Key(c)] = Nobody THEN Register(c) ELSE UNCHANGED <<entries, run>>
  /\ call' = [call EXCEPT ![c] = IF Kind[c] = "preflight" THEN "find" ELSE "answered"]
  /\ UNCHANGED <<found, expired, flight, outside>>

\* AutoTune and the operator look and register in one critical section.
BeginExternalReload(c) ==
  /\ call[c] = "idle" /\ Kind[c] \in {"autotune", "apply"} /\ On[c] \notin removed
  /\ call' = [call EXCEPT ![c] = "answered"]
  /\ IF IsReloadPending(c) THEN UNCHANGED <<entries, run>> ELSE Register(c)
  /\ UNCHANGED <<found, expired, flight, outside>>

\* Two mutants: one removes whatever entry is there now, the other returns
\* when it does not find its own.
DeregisterAny(c) ==
  /\ run[c] = "over"
  /\ run' = [run EXCEPT ![c] = "gone"]
  /\ entries' = [entries EXCEPT ![Key(c)] = Nobody]
  /\ expired' = expired \ {c}
  /\ UNCHANGED <<call, found, flight, outside>>

DeregisterOwn(c) ==
  /\ run[c] = "over" /\ entries[Key(c)] = c
  /\ run' = [run EXCEPT ![c] = "gone"]
  /\ entries' = [entries EXCEPT ![Key(c)] = Nobody]
  /\ expired' = expired \ {c}
  /\ UNCHANGED <<call, found, flight, outside>>

\* The reload is over: the entry goes first, unless another has taken its place,
Deregister(c) ==
  /\ run[c] = "over"
  /\ run' = [run EXCEPT ![c] = "gone"]
  /\ entries' = [k \in Keys |-> IF k = Key(c) /\ entries[k] = c THEN Nobody ELSE entries[k]]
  /\ expired' = expired \ {c}
  /\ UNCHANGED <<call, found, flight, outside>>

\* then its channel is closed. A callback that panics gets here as well if the
\* panic is recovered.
Close(c) ==
  /\ run[c] = "gone"
  /\ run' = [run EXCEPT ![c] = "closed"]
  /\ UNCHANGED <<call, found, registry, flight, outside>>

Expire(c) ==
  /\ entries[Key(c)] = c
  /\ expired' = expired \cup {c}
  /\ UNCHANGED <<call, found, run, entries, flight, outside>>

\* WaitReloadDone picks any entry of the model, expired or not. Without one the
\* reload is taken to be over.
FindEntry(c) ==
  /\ call[c] = "find"
  /\ \/ \E e \in EntriesFor(c) :
          /\ found' = [found EXCEPT ![c] = e]
          /\ call' = [call EXCEPT ![c] = "waiting"]
     \/ /\ EntriesFor(c) = {}
        /\ call' = [call EXCEPT ![c] = "served"]
        /\ UNCHANGED found
  /\ UNCHANGED <<run, registry, flight, outside>>

\* Only a preflight leaves the error of its reload in the entry, and only a
\* preflight that waits cares.
EntryDone(c) ==
  LET e == found[c]
  IN /\ call[c] = "waiting" /\ run[e] = "closed"
     /\ call' = [call EXCEPT ![c] =
          IF Kind[c] = Kind[e] /\ result[e] = "failed" THEN "answered" ELSE "served"]
     /\ found' = [found EXCEPT ![c] = Nobody]
     /\ UNCHANGED <<run, registry, flight, outside>>

-----------------------------------------------------------------------------
\* The reloads

Over(c) == run' = [run EXCEPT ![c] = "over"]

\* Streams are running on the backend: the reload is given up.
Postpone(c) ==
  /\ run[c] = "begun" /\ Kind[c] \in {"overflow", "window", "autotune"}
  /\ On[c] \notin removed
  /\ Over(c)
  /\ UNCHANGED <<call, found, registry, flight, outside>>

\* executeAutoTuneReload finds no such backend and returns before it defers the
\* call that would remove its entry.
LoseMarker(c) ==
  /\ run[c] = "begun" /\ Kind[c] = "autotune" /\ On[c] \in removed
  /\ run' = [run EXCEPT ![c] = "lost"]
  /\ UNCHANGED <<call, found, registry, flight, outside>>

\* executeAsyncReload and ApplyAutoTunePlan (executeLlamaCppLoad) talk to the worker directly.
BeginLoad(c) ==
  /\ run[c] = "begun" /\ Kind[c] \in {"window", "autotune", "apply"}
  /\ Kind[c] = "autotune" => On[c] \notin removed
  /\ run' = [run EXCEPT ![c] = "loading"]
  /\ UNCHANGED <<call, found, registry, flight, outside>>

\* executeAsyncReload is content with a 202: the worker has only begun to load.
\* The others poll until the model is there, or until they run out of patience.
EndLoad(c) ==
  /\ run[c] = "loading"
  /\ Over(c)
  /\ loads' \in {loads, loads \cup {c}}
  /\ UNCHANGED <<call, found, registry, flight, removed, up>>

\* The worker comes to the end of a load that nobody waits for.
FinishLoad(c) ==
  /\ c \in loads
  /\ loads' = loads \ {c}
  /\ UNCHANGED <<call, found, run, registry, flight, removed, up>>

\* DoReload: the first on a backend posts to the worker,
PostReload(c) ==
  /\ run[c] = "begun" /\ Kind[c] \in {"preflight", "overflow"}
  /\ inflight[On[c]] = Nobody
  /\ inflight' = [inflight EXCEPT ![On[c]] = c]
  /\ run' = [run EXCEPT ![c] = "posting"]
  /\ UNCHANGED <<call, found, registry, joined, result, outside>>

\* the others wait for it.
JoinReload(c) ==
  /\ run[c] = "begun" /\ Kind[c] \in {"preflight", "overflow"}
  /\ inflight[On[c]] # Nobody
  /\ joined' = [joined EXCEPT ![c] = inflight[On[c]]]
  /\ run' = [run EXCEPT ![c] = "joined"]
  /\ UNCHANGED <<call, found, registry, inflight, result, outside>>

\* The worker has loaded the model, or the call or the polling that follows a
\* 202 has failed, with or without a load under way. inflight is cleared and
\* done is closed.
ReloadDone(c) ==
  /\ run[c] = "posting"
  /\ \/ result' = [result EXCEPT ![c] = "ok"] /\ UNCHANGED loads
     \/ result' = [result EXCEPT ![c] = "failed"] /\ loads' \in {loads, loads \cup {c}}
  /\ inflight' = [inflight EXCEPT ![On[c]] = Nobody]
  /\ Over(c)
  /\ UNCHANGED <<call, found, registry, joined, removed, up>>

\* A joiner wakes and reads the error of whatever is in flight now: of a later
\* reload, at any point of it, or through a nil pointer. RunPreflight recovers
\* from the panic, the goroutine of an overflow does not.
JoinerWakes(c) ==
  /\ run[c] = "joined" /\ run[joined[c]] # "posting"
  /\ IF inflight[On[c]] = Nobody
     THEN /\ result' = [result EXCEPT ![c] = "panic"]
          /\ IF Kind[c] = "preflight" THEN Over(c) /\ UNCHANGED up
                                      ELSE up' = FALSE /\ UNCHANGED run
     ELSE /\ \E r \in {"ok", "failed"} : result' = [result EXCEPT ![c] = r]
          /\ Over(c) /\ UNCHANGED up
  /\ UNCHANGED <<call, found, registry, inflight, joined, loads, removed>>

RemoveBackend(b) ==
  /\ b \in Removable \ removed
  /\ removed' = removed \cup {b}
  /\ UNCHANGED <<call, found, run, registry, flight, loads, up>>

-----------------------------------------------------------------------------
CallStep(c) == StartReloadIfNotPending(c) \/ FindEntry(c) \/ EntryDone(c)

RunStep(c) ==
  \/ Postpone(c) \/ LoseMarker(c) \/ BeginLoad(c) \/ EndLoad(c)
  \/ PostReload(c) \/ JoinReload(c) \/ ReloadDone(c) \/ JoinerWakes(c)
  \/ Deregister(c) \/ Close(c)

Next ==
  /\ up
  /\ \/ \E c \in Callers :
          \/ CheckPending(c) \/ BeginExternalReload(c) \/ Expire(c)
          \/ CallStep(c) \/ RunStep(c) \/ FinishLoad(c)
     \/ \E b \in Backends : RemoveBackend(b)

\* Goroutines go on, and every call to the worker ends, by its answer or by its
\* time-out. Nothing makes a client call, an entry expire, an operator act or a
\* load end that nobody waits for.
Fairness == \A c \in Callers : WF_vars(up /\ CallStep(c)) /\ WF_vars(up /\ RunStep(c))

Spec == Init /\ [][Next]_vars /\ Fairness

-----------------------------------------------------------------------------
TypeOK ==
  /\ call \in [Callers -> {"idle", "checked", "find", "waiting", "served", "answered"}]
  /\ found \in [Callers -> Callers \cup {Nobody}]
  /\ run \in [Callers -> {"none", "begun", "loading", "joined", "posting", "over", "gone",
                          "closed", "lost"}]
  /\ entries \in [Keys -> Callers \cup {Nobody}]
  /\ expired \subseteq Callers
  /\ inflight \in [Backends -> Callers \cup {Nobody}]
  /\ joined \in [Callers -> Callers \cup {Nobody}]
  /\ result \in [Callers -> {"none", "ok", "failed", "panic"}]
  /\ loads \subseteq Callers
  /\ removed \subseteq Backends
  /\ up \in BOOLEAN

Running(c) == run[c] \in {"begun", "loading", "joined", "posting"}

UnderWay(c) == Running(c) \/ c \in loads

\* Of the reloads of a model that go through the gate or belong to AutoTune,
\* no two are under way at once: not even when an entry that expired was
\* replaced and its reload then ends. There are two exceptions. A reload may
\* outlive the TTL of its entry; and the gate opens while the worker still loads
\* when a request for another window got its 202, or when the balancer gave up
\* on the worker.
OneReloadThroughGate ==
  \A c, d \in Callers :
    c # d /\ Key(c) = Key(d) /\ UnderWay(c) /\ UnderWay(d) =>
      {c, d} \cap (expired \cup loads) # {}

\* Who wakes because a reload is over does not find it pending any more.
DoneIsDeregistered == \A k \in Keys : entries[k] # Nobody => run[entries[k]] # "closed"

\* Nobody waits for ever for a reload, with one exception: the entry of an
\* AutoTune plan whose backend was removed before the plan ran stays, and its
\* channel is never closed. A crash ends all calls.
WaitsEnd ==
  \A c \in Callers : call[c] \in {"find", "waiting"} ~>
    \/ call[c] \notin {"find", "waiting"} \/ ~up
    \/ found[c] \in Callers /\ run[found[c]] = "lost"

\* RunPreflight says that parallel reloads of a backend coalesce in DoReload:
\* who joins a reload gets the result of that reload.
JoinerGetsResult ==
  \A c \in Callers : joined[c] # Nobody /\ result[c] # "none" => result[c] = result[joined[c]]

=============================================================================

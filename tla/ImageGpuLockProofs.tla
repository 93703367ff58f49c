------------------------- MODULE ImageGpuLockProofs -------------------------
(***************************************************************************)
(* The locks of one host exclude each other, every held lock has one that  *)
(* releases it, and a lock outlives its generation: for any requests,      *)
(* backends, cards and poll limits.                                        *)
(***************************************************************************)
EXTENDS ImageGpuLock, FiniteSetTheorems, TLAPS

HolderType == holder = [k \in Keys |-> holder[k]]

\* A lock that is held by somebody has kept out every lock it conflicts with;
\* no other variable matters, as acquireLock looks at all locks of the host.
LockInv == HolderType /\ LocksExclude

\* A release only frees, so it cannot bring two locks together.
LEMMA ReleaseKeepsLockInv ==
  ASSUME LockInv, NEW h, Release(h)
  PROVE  LockInv'
BY DEF LockInv, HolderType, LocksExclude, Release, Holds, Keys, Handles

\* acquireLock takes a lock only when conflictLocked finds none.
LEMMA TakeLockKeepsLockInv ==
  ASSUME LockInv, NEW r \in Requests, TakeLock(r)
  PROVE  LockInv'
<1> DEFINE b == Head(todo[r])
<1>1. /\ \A k \in Keys : holder[k] # Nobody => ~Conflict(k, Key(b))
      /\ holder' = [holder EXCEPT ![Key(b)] = Handle(r, b)]
  BY DEF TakeLock, Busy
<1>2. CASE Key(b) \notin Keys
  <2>1. holder' = holder
    BY <1>1, <1>2 DEF LockInv, HolderType
  <2> QED
    BY <2>1 DEF LockInv, HolderType, LocksExclude
<1>3. CASE Key(b) \in Keys
  <2>1. \A k \in Keys : holder'[k] = IF k = Key(b) THEN Handle(r, b) ELSE holder[k]
    BY <1>1, <1>3 DEF LockInv, HolderType
  <2>2. LocksExclude'
    BY <1>1, <1>3, <2>1 DEF LockInv, LocksExclude, Conflict
  <2>3. HolderType'
    BY <1>1, <1>3 DEF LockInv, HolderType
  <2> QED
    BY <2>2, <2>3 DEF LockInv
<1> QED
  BY <1>2, <1>3

LEMMA NextKeepsLockInv == LockInv /\ [Next]_vars => LockInv'
<1> SUFFICES ASSUME LockInv, [Next]_vars PROVE LockInv'
  OBVIOUS
<1>1. ASSUME UNCHANGED holder PROVE LockInv'
  BY <1>1 DEF LockInv, HolderType, LocksExclude
<1>2. ASSUME NEW r \in Requests,
             Arrive(r) \/ Proceed(r) \/ TimeOut(r) \/ SeeCancelled(r)
      PROVE  LockInv'
  <2>1. CASE TakeLock(r)
    BY <2>1, TakeLockKeepsLockInv
  <2>2. CASE ReleaseGate(r)
    <3>1. PICK b \in gates[r] : UNCHANGED holder \/ Release(Handle(r, b))
      BY <2>2 DEF ReleaseGate
    <3> QED
      BY <3>1, <1>1, ReleaseKeepsLockInv
  <2>3. CASE UNCHANGED holder
    BY <2>3, <1>1
  <2>4. TakeLock(r) \/ ReleaseGate(r) \/ UNCHANGED holder
    BY <1>2 DEF Proceed, Arrive, Begin, FallAsleep, TimeOut, SeeCancelled, Refuse, Submit,
                Accepted, Answer, FallBack, Leave
  <2> QED
    BY <2>1, <2>2, <2>3, <2>4
<1>3. ASSUME NEW h \in Handles,
             LosePart(h) \/ ForceRelease(h) \/ Work(h) \/ Watch(h) \/ PollFails(h)
      PROVE  LockInv'
  <2>1. Release(h) \/ UNCHANGED holder
    BY <1>3 DEF LosePart, ForceRelease, Work, StartWork, FinishWork, Watch, PollFails, PollActive, PollIdle,
                Poll, WatchDone
  <2> QED
    BY <2>1, <1>1, ReleaseKeepsLockInv
<1>4. CASE UNCHANGED vars
  BY <1>4, <1>1 DEF vars
<1> QED
  BY <1>2, <1>3, <1>4 DEF Next

\* Spec => []LocksExclude: whatever the order of requests, time-outs, fuses and
\* watchers, the lock of a host and a lock of one of its cards are never held
\* together.
THEOREM LocksExcludeAlways == Spec => []LocksExclude
<1>1. Init => LockInv
  BY DEF Init, LockInv, HolderType, LocksExclude
<1>2. LockInv => LocksExclude
  BY DEF LockInv
<1> QED
  BY <1>1, <1>2, NextKeepsLockInv, PTL DEF Spec

-----------------------------------------------------------------------------

\* Where a request may be while it has gates, watchers or handed-over locks.
GateInv ==
  /\ \A r \in Requests : pc[r] \in {"try", "asleep"} => todo[r] # <<>>
  /\ \A r \in Requests : pc[r] = "idle" => gates[r] = {}
  /\ \A h \in Handles : watch[h].on => pc[h.req] \in {"idle", "release"}
  /\ \A h \in handedOff : pc[h.req] = "release" /\ h.at \in gates[h.req]

OwnerInv == TypeOK /\ GateInv /\ LockHasOwner

LEMMA HandleParts ==
  /\ \A r \in Requests, b \in Backends :
       Handle(r, b) \in Handles /\ Handle(r, b).req = r /\ Handle(r, b).at = b
  /\ \A h \in Handles : h.req \in Requests /\ h.at \in Backends /\ h = Handle(h.req, h.at)
BY DEF Handle, Handles

LEMMA Limits ==
  IdlePolls \in Nat \ {0} /\ GracePolls \in Nat \ {0} /\ MaxErrors \in Nat \ {0}
BY ImageGpuLockAssumption

LEMMA InitOwnerInv == Init => OwnerInv
<1> SUFFICES ASSUME Init PROVE OwnerInv
  OBVIOUS
<1>1. TypeOK
  BY Limits, ImageGpuLockAssumption DEF Init, TypeOK, NoWatch, Watches
<1>2. GateInv
  BY HandleParts DEF Init, GateInv, NoWatch
<1>3. LockHasOwner
  BY DEF Init, LockHasOwner
<1> QED
  BY <1>1, <1>2, <1>3 DEF OwnerInv

\* A request that begins, or falls back, has no gate and no watcher.
LEMMA BeginKeepsOwnerInv ==
  ASSUME OwnerInv, NEW r \in Requests, NEW m \in {"one", "many"}, Begin(r, m),
         m = "many" => Cardinality(Backends) > 1,
         gates[r] = {}, pc[r] \in {"idle", "retreat"},
         \A b \in Backends : ~watch[Handle(r, b)].on
  PROVE  OwnerInv'
<1>1. Candidates \in Seq(Backends) /\ (m = "many" => Candidates # <<>>)
  <2>1. Candidates = <<>> => Backends = {}
    BY DEF Backends
  <2> QED
    BY <2>1, FS_EmptySet, ImageGpuLockAssumption
<1>2. \E q \in Seq(Backends) : q # <<>> /\ todo' = [todo EXCEPT ![r] = q]
  <2>1. CASE m = "many"
    BY <2>1, <1>1 DEF Begin
  <2>2. CASE m = "one"
    <3>1. PICK b \in Backends : todo' = [todo EXCEPT ![r] = <<b>>]
      BY <2>2 DEF Begin
    <3>2. <<b>> \in Seq(Backends) /\ <<b>> # <<>>
      OBVIOUS
    <3> QED
      BY <3>1, <3>2
  <2> QED
    BY <2>1, <2>2
<1>3. PICK q \in Seq(Backends) : q # <<>> /\ todo' = [todo EXCEPT ![r] = q]
  BY <1>2
<1>4. TypeOK'
  BY <1>3 DEF OwnerInv, TypeOK, Begin, Goto
<1>5. GateInv'
  <2>1. \A h \in Handles : watch[h].on => h.req # r
    BY HandleParts
  <2>2. \A h \in handedOff : h.req # r
    BY DEF OwnerInv, TypeOK, GateInv
  <2>3. \A s \in Requests : pc'[s] = IF s = r THEN "try" ELSE pc[s]
    BY DEF OwnerInv, TypeOK, Begin, Goto
  <2>4. \A s \in Requests : todo'[s] = IF s = r THEN q ELSE todo[s]
    BY <1>3 DEF OwnerInv, TypeOK
  <2>5. UNCHANGED <<gates, watch, handedOff>>
    BY DEF Begin
  <2>6. \A h \in handedOff : h.req \in Requests
    BY HandleParts DEF OwnerInv, TypeOK
  <2>7. \A h \in Handles : h.req \in Requests
    BY HandleParts
  <2> QED
    BY <1>3, <2>1, <2>2, <2>3, <2>4, <2>5, <2>6, <2>7 DEF OwnerInv, GateInv
<1>6. LockHasOwner'
  BY DEF OwnerInv, LockHasOwner, Begin
<1> QED
  BY <1>4, <1>5, <1>6 DEF OwnerInv

\* The gates, the handed-over locks and the watchers of r while it tries.
LEMMA Trying ==
  ASSUME OwnerInv, NEW r \in Requests, pc[r] \in {"try", "asleep"}
  PROVE  /\ Head(todo[r]) \in Backends /\ Tail(todo[r]) \in Seq(Backends)
         /\ \A h \in Handles : h.req = r => ~watch[h].on
         /\ \A h \in handedOff : h.req # r
<1>1. todo[r] \in Seq(Backends) /\ todo[r] # <<>>
  BY DEF OwnerInv, TypeOK, GateInv
<1>2. Head(todo[r]) \in Backends /\ Tail(todo[r]) \in Seq(Backends)
  BY <1>1
<1> QED
  BY <1>2 DEF OwnerInv, GateInv

\* Going on to the next candidate, with the lock just taken or without it.
LEMMA NextGateKeeps ==
  ASSUME OwnerInv, NEW r \in Requests, pc[r] \in {"try", "asleep"},
         NEW got \in SUBSET Backends, NextGate(r, Tail(todo[r]), got),
         UNCHANGED <<handedOff, lost, mode, work, watch>>
  PROVE  /\ pc' \in [Requests -> {"idle", "try", "asleep", "submit", "generating", "release", "retreat"}]
         /\ todo' \in [Requests -> Seq(Backends)]
         /\ gates' = [gates EXCEPT ![r] = got] /\ gates' \in [Requests -> SUBSET Backends]
         /\ GateInv'
<1> DEFINE rest == Tail(todo[r])
<1>1. rest \in Seq(Backends)
  BY Trying
<1>2. /\ todo' = [todo EXCEPT ![r] = rest] /\ gates' = [gates EXCEPT ![r] = got]
      /\ todo' \in [Requests -> Seq(Backends)] /\ gates' \in [Requests -> SUBSET Backends]
  BY <1>1 DEF NextGate, OwnerInv, TypeOK
<1>3. \E l \in {"try", "submit", "release", "retreat"} :
         pc' = [pc EXCEPT ![r] = l] /\ (l = "try" => rest # <<>>)
  <2> DEFINE n == Cardinality(got)
  <2>1. CASE mode[r] = "one"
    BY <2>1 DEF NextGate, Goto
  <2>2. CASE mode[r] = "many" /\ rest # <<>> /\ n < Images
    BY <2>2 DEF NextGate, Goto
  <2>3. CASE mode[r] # "one" /\ ~(mode[r] = "many" /\ rest # <<>> /\ n < Images)
    BY <2>3 DEF NextGate, Goto
  <2> QED
    BY <2>1, <2>2, <2>3
<1>4. PICK l \in {"try", "submit", "release", "retreat"} :
         pc' = [pc EXCEPT ![r] = l] /\ (l = "try" => rest # <<>>)
  BY <1>3
<1>5. pc' \in [Requests -> {"idle", "try", "asleep", "submit", "generating", "release", "retreat"}]
  BY <1>4 DEF OwnerInv, TypeOK
<1>6. GateInv'
  <2>1. \A s \in Requests : pc'[s] = IF s = r THEN l ELSE pc[s]
    BY <1>4 DEF OwnerInv, TypeOK
  <2>2. \A s \in Requests : todo'[s] = IF s = r THEN rest ELSE todo[s]
    BY <1>2 DEF OwnerInv, TypeOK
  <2>3. \A s \in Requests : s # r => gates'[s] = gates[s]
    BY <1>2 DEF OwnerInv, TypeOK
  <2>4. \A h \in Handles : h.req \in Requests
    BY HandleParts
  <2>5. handedOff \subseteq Handles
    BY DEF OwnerInv, TypeOK
  <2>6. /\ \A h \in Handles : h.req = r => ~watch[h].on
        /\ \A h \in handedOff : h.req # r
    BY Trying
  <2>7. \A s \in Requests : pc'[s] \in {"try", "asleep"} => todo'[s] # <<>>
    BY <1>4, <2>1, <2>2 DEF OwnerInv, GateInv
  <2>8. \A s \in Requests : pc'[s] = "idle" => gates'[s] = {}
    BY <1>4, <2>1, <2>3 DEF OwnerInv, GateInv
  <2>9. \A h \in Handles : watch'[h].on => pc'[h.req] \in {"idle", "release"}
    BY <2>1, <2>4, <2>6 DEF OwnerInv, GateInv
  <2>10. \A h \in handedOff' : pc'[h.req] = "release" /\ h.at \in gates'[h.req]
    BY <2>1, <2>3, <2>4, <2>5, <2>6 DEF OwnerInv, GateInv
  <2> QED
    BY <2>7, <2>8, <2>9, <2>10 DEF GateInv
<1> QED
  BY <1>2, <1>5, <1>6

LEMMA TakeLockKeepsOwnerInv ==
  ASSUME OwnerInv, NEW r \in Requests, TakeLock(r)
  PROVE  OwnerInv'
<1> DEFINE b == Head(todo[r])
           got == gates[r] \union {b}
           h == Handle(r, b)
<1>1. /\ pc[r] \in {"try", "asleep"} /\ b \in Backends
      /\ \A k \in Keys : holder[k] # Nobody => ~Conflict(k, Key(b))
      /\ holder' = [holder EXCEPT ![Key(b)] = h]
      /\ NextGate(r, Tail(todo[r]), got)
      /\ UNCHANGED <<handedOff, lost, mode, work, watch>>
  BY Trying DEF TakeLock, Busy
<1>2. got \in SUBSET Backends
  BY <1>1 DEF OwnerInv, TypeOK
<1>3. h \in Handles /\ h.req = r /\ h.at = b /\ Key(b) \in Keys
  BY <1>1, HandleParts DEF Keys
<1>4. TypeOK' /\ GateInv' /\ gates' = [gates EXCEPT ![r] = got]
  BY <1>1, <1>2, <1>3, NextGateKeeps DEF OwnerInv, TypeOK
<1>5. LockHasOwner'
  <2> SUFFICES ASSUME NEW k \in Keys, holder'[k] # Nobody
               PROVE  /\ Key(holder'[k].at) = k
                      /\ watch[holder'[k]].on #
                           (holder'[k].at \in gates'[holder'[k].req] /\ holder'[k] \notin handedOff)
    BY <1>1 DEF LockHasOwner
  <2>1. CASE k = Key(b)
    <3>1. holder'[k] = h
      BY <1>1, <1>3, <2>1 DEF OwnerInv, TypeOK
    <3>2. ~watch[h].on /\ h \notin handedOff /\ b \in gates'[r]
      BY <1>1, <1>3, <1>4, Trying DEF OwnerInv, TypeOK
    <3> QED
      BY <1>3, <2>1, <3>1, <3>2
  <2>2. CASE k # Key(b)
    <3> DEFINE g == holder[k]
    <3>1. holder'[k] = g /\ g \in Handles /\ Key(g.at) = k
      BY <1>1, <2>2 DEF OwnerInv, TypeOK, LockHasOwner
    <3>2. g.req \in Requests /\ g.at # b
      BY <2>2, <3>1, HandleParts
    <3>3. g.at \in gates'[g.req] <=> g.at \in gates[g.req]
      BY <1>4, <3>2 DEF OwnerInv, TypeOK
    <3> QED
      BY <3>1, <3>3 DEF OwnerInv, LockHasOwner
  <2> QED
    BY <2>1, <2>2
<1> QED
  BY <1>4, <1>5 DEF OwnerInv

LEMMA RefuseKeepsOwnerInv ==
  ASSUME OwnerInv, NEW r \in Requests, pc[r] \in {"try", "asleep"}, Refuse(r)
  PROVE  OwnerInv'
<1>1. /\ NextGate(r, Tail(todo[r]), gates[r])
      /\ UNCHANGED <<holder, handedOff, lost, mode, work, watch>>
  BY DEF Refuse
<1>2. gates[r] \in SUBSET Backends
  BY DEF OwnerInv, TypeOK
<1>3. TypeOK' /\ GateInv' /\ gates' = [gates EXCEPT ![r] = gates[r]]
  BY <1>1, <1>2, NextGateKeeps DEF OwnerInv, TypeOK
<1>4. UNCHANGED gates
  BY <1>3 DEF OwnerInv, TypeOK
<1> QED
  BY <1>1, <1>3, <1>4 DEF OwnerInv, LockHasOwner

\* A request that neither waits nor leaves has no watcher and handed over nothing.
LEMMA OnItsOwn ==
  ASSUME OwnerInv, NEW r \in Requests, pc[r] \notin {"idle", "release"}
  PROVE  \A h \in Handles : h.req = r => ~watch[h].on /\ h \notin handedOff
BY DEF OwnerInv, GateInv

LEMMA SubmitKeepsOwnerInv ==
  ASSUME OwnerInv, NEW r \in Requests, Submit(r)
  PROVE  OwnerInv'
<1>1. /\ pc[r] = "submit" /\ UNCHANGED <<holder, handedOff, lost, mode, todo, gates, watch>>
      /\ work' \in [Handles -> {"none", "accepted", "running"}]
      /\ \E l \in {"release", "generating"} : pc' = [pc EXCEPT ![r] = l]
  BY DEF Submit, Goto, OwnerInv, TypeOK
<1>2. PICK l \in {"release", "generating"} : pc' = [pc EXCEPT ![r] = l]
  BY <1>1
<1>3. TypeOK'
  BY <1>1, <1>2 DEF OwnerInv, TypeOK
<1>4. GateInv'
  <2>1. \A s \in Requests : pc'[s] = IF s = r THEN l ELSE pc[s]
    BY <1>2 DEF OwnerInv, TypeOK
  <2>2. handedOff \subseteq Handles /\ \A h \in Handles : h.req \in Requests
    BY HandleParts DEF OwnerInv, TypeOK
  <2> QED
    BY <1>1, <2>1, <2>2, OnItsOwn DEF OwnerInv, GateInv
<1> QED
  BY <1>1, <1>3, <1>4 DEF OwnerInv, LockHasOwner

LEMMA AcceptedKeepsOwnerInv ==
  ASSUME OwnerInv, NEW r \in Requests, Accepted(r)
  PROVE  OwnerInv'
<1> DEFINE started == [NoWatch EXCEPT !.on = TRUE]
<1>1. PICK b \in Backends : /\ gates[r] = {b}
                            /\ watch' = [watch EXCEPT ![Handle(r, b)] = started]
                            /\ handedOff' = handedOff \union {Handle(r, b)}
  BY DEF Accepted
<1> DEFINE h == Handle(r, b)
<1>2. /\ pc[r] = "generating" /\ pc' = [pc EXCEPT ![r] = "release"]
      /\ UNCHANGED <<holder, lost, mode, todo, gates, work>>
  BY DEF Accepted, Goto
<1>3. b \in Backends /\ h \in Handles /\ h.req = r /\ h.at = b
  BY HandleParts DEF OwnerInv, TypeOK
<1>4. started \in Watches /\ started.on
  <2>1. 0 \in 0 .. IdlePolls - 1 /\ 0 \in 0 .. GracePolls - 1 /\ 0 \in 0 .. MaxErrors - 1
    BY Limits
  <2> QED
    BY <2>1 DEF NoWatch, Watches
<1> HIDE DEF started, h
<1>5. /\ \A s \in Requests : pc'[s] = IF s = r THEN "release" ELSE pc[s]
      /\ \A g \in Handles : watch'[g] = IF g = h THEN started ELSE watch[g]
  BY <1>1, <1>2 DEF OwnerInv, TypeOK, h
<1>6. /\ watch[h].on = FALSE /\ h \notin handedOff
      /\ \A g \in Handles : g.req = r => ~watch[g].on /\ g \notin handedOff
  <2>1. watch[h].on \in BOOLEAN
    BY <1>3 DEF OwnerInv, TypeOK, Watches
  <2> QED
    BY <1>2, <1>3, <2>1, OnItsOwn
<1>7. TypeOK'
  BY <1>1, <1>2, <1>3, <1>4 DEF OwnerInv, TypeOK, h
<1>8. handedOff' = handedOff \union {h}
  BY <1>1 DEF h
<1>9. GateInv'
  <2>1. handedOff \subseteq Handles /\ \A g \in Handles : g.req \in Requests
    BY HandleParts DEF OwnerInv, TypeOK
  <2>2. \A s \in Requests : pc'[s] \in {"try", "asleep"} => todo'[s] # <<>>
    BY <1>2, <1>5 DEF OwnerInv, GateInv
  <2>3. \A s \in Requests : pc'[s] = "idle" => gates'[s] = {}
    BY <1>2, <1>5 DEF OwnerInv, GateInv
  <2>4. \A g \in Handles : watch'[g].on => pc'[g.req] \in {"idle", "release"}
    BY <1>3, <1>5, <2>1 DEF OwnerInv, GateInv
  <2>5. \A g \in handedOff' : pc'[g.req] = "release" /\ g.at \in gates'[g.req]
    <3>1. h.at \in gates[r]
      BY <1>1, <1>3
    <3> QED
      BY <1>2, <1>3, <1>5, <1>8, <2>1, <3>1 DEF OwnerInv, GateInv
  <2> QED
    BY <2>2, <2>3, <2>4, <2>5 DEF GateInv
<1>10. LockHasOwner'
  <2> SUFFICES ASSUME NEW k \in Keys, holder[k] # Nobody
               PROVE  /\ Key(holder[k].at) = k
                      /\ watch'[holder[k]].on #
                           (holder[k].at \in gates[holder[k].req] /\ holder[k] \notin handedOff')
    BY <1>2 DEF LockHasOwner
  <2>1. holder[k] \in Handles
    BY DEF OwnerInv, TypeOK
  <2>2. started.on = TRUE
    BY <1>4 DEF Watches
  <2>3. CASE holder[k] = h
    BY <1>3, <1>5, <1>6, <1>8, <2>1, <2>2, <2>3 DEF OwnerInv, LockHasOwner
  <2>4. CASE holder[k] # h
    BY <1>5, <1>8, <2>1, <2>4 DEF OwnerInv, LockHasOwner
  <2> QED
    BY <2>3, <2>4
<1> QED
  BY <1>7, <1>9, <1>10 DEF OwnerInv

LEMMA ReleaseGateKeepsOwnerInv ==
  ASSUME OwnerInv, NEW r \in Requests, ReleaseGate(r)
  PROVE  OwnerInv'
<1>1. PICK b \in gates[r] :
        /\ gates' = [gates EXCEPT ![r] = @ \ {b}]
        /\ handedOff' = handedOff \ {Handle(r, b)}
        /\ IF Handle(r, b) \in handedOff THEN UNCHANGED holder ELSE Release(Handle(r, b))
  BY DEF ReleaseGate
<1> DEFINE h == Handle(r, b)
<1>2. pc[r] \in {"release", "retreat"} /\ UNCHANGED <<pc, mode, todo, work, watch>>
  BY DEF ReleaseGate
<1>3. b \in Backends /\ h \in Handles /\ h.req = r /\ h.at = b
  BY HandleParts DEF OwnerInv, TypeOK
<1>4. \A s \in Requests : gates'[s] = IF s = r THEN gates[r] \ {b} ELSE gates[s]
  BY <1>1 DEF OwnerInv, TypeOK
<1>5. \A k \in Keys : \/ holder'[k] = holder[k] /\ (h \in handedOff \/ holder[k] # h)
                      \/ holder'[k] = Nobody
  BY <1>1, <1>3 DEF Release, Holds, OwnerInv, TypeOK, LockHasOwner
<1>6. TypeOK'
  <2>0. lost' \subseteq Handles
    BY DEF ReleaseGate, OwnerInv, TypeOK
  <2>1. holder' \in [Keys -> Handles \union {Nobody}]
    BY <1>1 DEF Release, OwnerInv, TypeOK
  <2>2. gates' \in [Requests -> SUBSET Backends]
    BY <1>1 DEF OwnerInv, TypeOK
  <2> QED
    BY <1>1, <1>2, <2>0, <2>1, <2>2 DEF OwnerInv, TypeOK
<1>7. GateInv'
  <2>1. \A g \in handedOff' : g \in handedOff /\ g # h /\ g \in Handles
    BY <1>1 DEF OwnerInv, TypeOK
  <2>2. \A g \in handedOff' : g.req = r => g.at # b
    BY <2>1, HandleParts
  <2> QED
    BY <1>2, <1>4, <2>1, <2>2, HandleParts DEF OwnerInv, GateInv
<1>8. LockHasOwner'
  <2> SUFFICES ASSUME NEW k \in Keys, holder'[k] # Nobody
               PROVE  /\ Key(holder'[k].at) = k
                      /\ watch[holder'[k]].on #
                           (holder'[k].at \in gates'[holder'[k].req] /\ holder'[k] \notin handedOff')
    BY <1>2 DEF LockHasOwner
  <2> DEFINE g == holder[k]
  <2>1. holder'[k] = g /\ (h \in handedOff \/ g # h) /\ g \in Handles
    BY <1>5 DEF OwnerInv, TypeOK
  <2>2. g.req \in Requests /\ g = Handle(g.req, g.at)
    BY <2>1, HandleParts
  <2>3. /\ Key(g.at) = k
        /\ watch[g].on # (g.at \in gates[g.req] /\ g \notin handedOff)
    BY <2>1 DEF OwnerInv, LockHasOwner
  <2>4. CASE g = h
    BY <1>1, <1>3, <1>4, <2>1, <2>3, <2>4
  <2>5. CASE g # h
    <3>1. g.at \in gates'[g.req] <=> g.at \in gates[g.req]
      BY <1>4, <2>2, <2>5
    <3> QED
      BY <1>1, <2>1, <2>3, <2>5, <3>1
  <2> QED
    BY <2>4, <2>5
<1> QED
  BY <1>6, <1>7, <1>8 DEF OwnerInv

\* The watcher is still on after it noted a poll, or it has released the lock.
LEMMA PollKeepsOwnerInv ==
  ASSUME OwnerInv, NEW h \in Handles, NEW noted, NEW ends \in BOOLEAN,
         Poll(h, noted, ends), ~ends => noted \in Watches /\ noted.on
  PROVE  OwnerInv'
<1>1. watch[h].on /\ holder[Key(h.at)] = h /\ UNCHANGED <<handedOff, lost, pc, mode, todo, gates, work>>
  BY DEF Poll, Holds, locals
<1>2. h.req \in Requests /\ h.at \in Backends /\ Key(h.at) \in Keys
  BY HandleParts DEF Keys
<1>3. CASE ends
  <2>1. watch' = [watch EXCEPT ![h] = NoWatch] /\ holder' = [holder EXCEPT ![Key(h.at)] = Nobody]
    BY <1>1, <1>3 DEF Poll, Release, Holds
  <2>2. NoWatch \in Watches /\ ~NoWatch.on
    <3>1. 0 \in 0 .. IdlePolls - 1 /\ 0 \in 0 .. GracePolls - 1 /\ 0 \in 0 .. MaxErrors - 1
      BY Limits
    <3> QED
      BY <3>1 DEF NoWatch, Watches
  <2>3. TypeOK'
    BY <1>1, <2>1, <2>2 DEF OwnerInv, TypeOK
  <2>4. \A g \in Handles : watch'[g] = IF g = h THEN NoWatch ELSE watch[g]
    BY <2>1 DEF OwnerInv, TypeOK
  <2>5. GateInv'
    BY <1>1, <2>2, <2>4 DEF OwnerInv, GateInv
  <2>6. \A k \in Keys : holder'[k] # Nobody => holder'[k] = holder[k] /\ holder[k] \in Handles /\ holder[k] # h
    BY <1>1, <1>2, <2>1 DEF OwnerInv, TypeOK, LockHasOwner
  <2>7. LockHasOwner'
    BY <1>1, <2>4, <2>6 DEF OwnerInv, LockHasOwner
  <2> QED
    BY <2>3, <2>5, <2>7 DEF OwnerInv
<1>4. CASE ~ends
  <2>1. watch' = [watch EXCEPT ![h] = noted] /\ UNCHANGED holder
    BY <1>1, <1>4 DEF Poll
  <2>2. TypeOK'
    BY <1>1, <1>4, <2>1 DEF OwnerInv, TypeOK
  <2>3. \A g \in Handles : watch'[g].on = watch[g].on
    <3>1. \A g \in Handles : watch'[g] = IF g = h THEN noted ELSE watch[g]
      BY <2>1 DEF OwnerInv, TypeOK
    <3>2. \A g \in Handles : watch[g].on \in BOOLEAN
      BY DEF OwnerInv, TypeOK, Watches
    <3>3. noted.on = TRUE /\ watch[h].on = TRUE
      BY <1>1, <1>4, <3>2 DEF Watches
    <3> QED
      BY <3>1, <3>3
  <2>4. GateInv'
    BY <1>1, <2>1, <2>3 DEF OwnerInv, GateInv
  <2>5. LockHasOwner'
    BY <1>1, <2>1, <2>3 DEF OwnerInv, LockHasOwner, TypeOK
  <2> QED
    BY <2>2, <2>4, <2>5 DEF OwnerInv
<1> QED
  BY <1>3, <1>4

\* What a poll notes is again the state of a watcher that is on or off as before.
LEMMA NotedIsWatch ==
  ASSUME NEW w \in Watches
  PROVE  /\ \A n \in 0 .. MaxErrors - 1 :
              [w EXCEPT !.failures = n] \in Watches /\ [w EXCEPT !.failures = n].on = w.on
         /\ \A n \in 0 .. IdlePolls - 1 :
              [w EXCEPT !.idle = n] \in Watches /\ [w EXCEPT !.idle = n].on = w.on
         /\ \A n \in 0 .. GracePolls - 1 :
              [w EXCEPT !.pending = n] \in Watches /\ [w EXCEPT !.pending = n].on = w.on
         /\ [w EXCEPT !.failures = 0, !.seen = TRUE, !.idle = 0] \in Watches
         /\ [w EXCEPT !.failures = 0, !.seen = TRUE, !.idle = 0].on = w.on
<1>1. w = [on |-> w.on, seen |-> w.seen, idle |-> w.idle, pending |-> w.pending, failures |-> w.failures]
  BY DEF Watches
<1>2. 0 \in 0 .. IdlePolls - 1 /\ 0 \in 0 .. MaxErrors - 1
  BY Limits
<1> DEFINE v1 == [w EXCEPT !.failures = 0]
           v2 == [v1 EXCEPT !.seen = TRUE]
           v3 == [v2 EXCEPT !.idle = 0]
<1>3. v1 \in Watches /\ v1.on = w.on
  BY <1>1, <1>2 DEF Watches
<1>4. v2 \in Watches /\ v2.on = v1.on
  <2> HIDE DEF v1
  <2> QED
    BY <1>3 DEF Watches
<1>5. v3 \in Watches /\ v3.on = v2.on
  <2> HIDE DEF v2
  <2> QED
    BY <1>2, <1>4 DEF Watches
<1>6. [w EXCEPT !.failures = 0, !.seen = TRUE, !.idle = 0] = v3
  OBVIOUS
<1>7. /\ \A n \in 0 .. MaxErrors - 1 :
           [w EXCEPT !.failures = n] \in Watches /\ [w EXCEPT !.failures = n].on = w.on
      /\ \A n \in 0 .. IdlePolls - 1 :
           [w EXCEPT !.idle = n] \in Watches /\ [w EXCEPT !.idle = n].on = w.on
      /\ \A n \in 0 .. GracePolls - 1 :
           [w EXCEPT !.pending = n] \in Watches /\ [w EXCEPT !.pending = n].on = w.on
  BY DEF Watches
<1> HIDE DEF v1, v2, v3
<1> QED
  BY <1>3, <1>4, <1>5, <1>6, <1>7

LEMMA PollsKeepOwnerInv ==
  ASSUME OwnerInv, NEW h \in Handles, PollFails(h) \/ PollActive(h) \/ PollIdle(h)
  PROVE  OwnerInv'
<1> DEFINE w == [watch[h] EXCEPT !.failures = 0]
<1>1. watch[h] \in Watches
  BY DEF OwnerInv, TypeOK
<1>2. w \in Watches /\ w.on = watch[h].on
  <2>1. 0 \in 0 .. MaxErrors - 1
    BY Limits
  <2> QED
    BY <1>1, <2>1, NotedIsWatch
<1>3. CASE PollFails(h)
  <2> DEFINE n == watch[h].failures + 1
             noted == [watch[h] EXCEPT !.failures = n]
             ends == n >= MaxErrors
  <2>1. Poll(h, noted, ends) /\ watch[h].on
    BY <1>3 DEF PollFails, Poll
  <2>2. ~ends => n \in 0 .. MaxErrors - 1
    BY <1>1, Limits DEF Watches
  <2>3. ~ends => noted \in Watches /\ noted.on
    BY <1>1, <2>1, <2>2, NotedIsWatch
  <2>4. ends \in BOOLEAN
    OBVIOUS
  <2> HIDE DEF noted, ends
  <2> QED
    BY <2>1, <2>3, <2>4, PollKeepsOwnerInv
<1>4. CASE PollActive(h)
  <2> DEFINE noted == [watch[h] EXCEPT !.failures = 0, !.seen = TRUE, !.idle = 0]
  <2>1. Poll(h, noted, FALSE) /\ watch[h].on
    BY <1>4 DEF PollActive, Poll
  <2>2. noted \in Watches /\ noted.on
    BY <1>1, <2>1, NotedIsWatch
  <2> HIDE DEF noted
  <2> QED
    BY <2>1, <2>2, PollKeepsOwnerInv
<1>5. CASE PollIdle(h)
  <2> DEFINE idle == w.idle + 1
             pending == w.pending + 1
             notedIdle == [w EXCEPT !.idle = idle]
             notedPending == [w EXCEPT !.pending = pending]
             idleEnds == idle >= IdlePolls
             pendingEnds == pending >= GracePolls
  <2>1. Poll(h, notedIdle, idleEnds) \/ Poll(h, notedPending, pendingEnds)
    BY <1>5 DEF PollIdle
  <2>2. watch[h].on
    BY <2>1 DEF Poll
  <2>3. /\ ~idleEnds => idle \in 0 .. IdlePolls - 1
        /\ ~pendingEnds => pending \in 0 .. GracePolls - 1
    <3> HIDE DEF w
    <3> QED
      BY <1>2, Limits DEF Watches
  <2>4. /\ ~idleEnds => notedIdle \in Watches /\ notedIdle.on
        /\ ~pendingEnds => notedPending \in Watches /\ notedPending.on
    <3> HIDE DEF w, idleEnds, pendingEnds, idle, pending
    <3> QED
      BY <1>2, <2>2, <2>3, NotedIsWatch
  <2>5. idleEnds \in BOOLEAN /\ pendingEnds \in BOOLEAN
    OBVIOUS
  <2> HIDE DEF notedIdle, notedPending, idleEnds, pendingEnds
  <2> QED
    BY <2>1, <2>4, <2>5, PollKeepsOwnerInv
<1> QED
  BY <1>3, <1>4, <1>5

LEMMA NextKeepsOwnerInv == OwnerInv /\ [Next]_vars => OwnerInv'
<1> SUFFICES ASSUME OwnerInv, [Next]_vars PROVE OwnerInv'
  OBVIOUS
<1>1. ASSUME NEW r \in Requests, Arrive(r) PROVE OwnerInv'
  <2>1. \E m \in {"one", "many"} : Begin(r, m) /\ (m = "many" => Cardinality(Backends) > 1)
    BY <1>1 DEF Arrive
  <2>2. pc[r] = "idle" /\ \A b \in Backends : ~watch[Handle(r, b)].on
    BY <1>1 DEF Arrive
  <2> QED
    BY <2>1, <2>2, BeginKeepsOwnerInv DEF OwnerInv, GateInv
<1>2. ASSUME NEW r \in Requests, FallBack(r) PROVE OwnerInv'
  <2>1. pc[r] = "retreat" /\ gates[r] = {} /\ Begin(r, "one")
    BY <1>2 DEF FallBack
  <2>2. \A b \in Backends : ~watch[Handle(r, b)].on
    BY <2>1, HandleParts DEF OwnerInv, GateInv
  <2> QED
    BY <2>1, <2>2, BeginKeepsOwnerInv
<1>3. ASSUME NEW r \in Requests, TimeOut(r) \/ SeeCancelled(r) PROVE OwnerInv'
  BY <1>3, RefuseKeepsOwnerInv DEF TimeOut, SeeCancelled
<1>4. ASSUME NEW r \in Requests, FallAsleep(r) \/ Answer(r) \/ Leave(r) PROVE OwnerInv'
  <2>1. UNCHANGED <<holder, handedOff, lost, mode, todo, gates, work, watch>>
    BY <1>4 DEF FallAsleep, Answer, Leave
  <2>2. PICK l \in {"asleep", "release", "idle"} :
          /\ pc' = [pc EXCEPT ![r] = l]
          /\ l = "asleep" => pc[r] = "try"
          /\ l = "release" => pc[r] = "generating"
          /\ l = "idle" => pc[r] = "release" /\ gates[r] = {}
    BY <1>4 DEF FallAsleep, Answer, Leave, Goto
  <2>3. \A s \in Requests : pc'[s] = IF s = r THEN l ELSE pc[s]
    BY <2>2 DEF OwnerInv, TypeOK
  <2>4. TypeOK'
    BY <2>1, <2>2 DEF OwnerInv, TypeOK
  <2>5. \A h \in Handles : h.req \in Requests
    BY HandleParts
  <2>6. GateInv'
    BY <2>1, <2>2, <2>3, <2>5 DEF OwnerInv, GateInv, TypeOK
  <2> QED
    BY <2>1, <2>4, <2>6 DEF OwnerInv, LockHasOwner
<1>5. ASSUME NEW h \in Handles, ForceRelease(h) PROVE OwnerInv'
  <2>1. UNCHANGED <<handedOff, lost, locals, work, watch>> /\ holder' = [holder EXCEPT ![Key(h.at)] = Nobody]
    BY <1>5 DEF ForceRelease, Release
  <2>2. \A k \in Keys : holder'[k] # Nobody => holder'[k] = holder[k]
    BY <2>1 DEF OwnerInv, TypeOK
  <2> QED
    BY <2>1, <2>2 DEF OwnerInv, TypeOK, GateInv, LockHasOwner, locals
<1>6. ASSUME NEW h \in Handles, StartWork(h) \/ FinishWork(h) PROVE OwnerInv'
  <2>1. /\ UNCHANGED <<holder, handedOff, lost, locals, watch>>
        /\ \E s \in {"running", "none"} : work' = [work EXCEPT ![h] = s]
    BY <1>6 DEF StartWork, FinishWork
  <2> QED
    BY <2>1 DEF OwnerInv, TypeOK, GateInv, LockHasOwner, locals
<1>7. ASSUME NEW h \in Handles, WatchDone(h) PROVE OwnerInv'
  <2>1. /\ UNCHANGED <<holder, handedOff, lost, locals, work>> /\ holder[Key(h.at)] # h
        /\ watch' = [watch EXCEPT ![h] = NoWatch]
    BY <1>7 DEF WatchDone, Holds
  <2>2. NoWatch \in Watches /\ ~NoWatch.on
    <3>1. 0 \in 0 .. IdlePolls - 1 /\ 0 \in 0 .. GracePolls - 1 /\ 0 \in 0 .. MaxErrors - 1
      BY Limits
    <3> QED
      BY <3>1 DEF NoWatch, Watches
  <2>3. \A g \in Handles : watch'[g] = IF g = h THEN NoWatch ELSE watch[g]
    BY <2>1 DEF OwnerInv, TypeOK
  <2>4. TypeOK'
    BY <2>1, <2>2 DEF OwnerInv, TypeOK, locals
  <2>5. GateInv'
    BY <2>1, <2>2, <2>3 DEF OwnerInv, GateInv, locals
  <2>6. \A k \in Keys : holder[k] # Nobody => holder[k] # h /\ holder[k] \in Handles
    BY <2>1 DEF OwnerInv, TypeOK, LockHasOwner
  <2>7. LockHasOwner'
    BY <2>1, <2>3, <2>6 DEF OwnerInv, LockHasOwner, locals
  <2> QED
    BY <2>4, <2>5, <2>7 DEF OwnerInv
<1>8. CASE UNCHANGED vars
  BY <1>8 DEF vars, locals, OwnerInv, TypeOK, GateInv, LockHasOwner
<1>9. ASSUME NEW h \in Handles, LosePart(h) PROVE OwnerInv'
  BY <1>9 DEF LosePart, locals, OwnerInv, TypeOK, GateInv, LockHasOwner
<1> QED
  BY <1>1, <1>2, <1>3, <1>4, <1>5, <1>6, <1>7, <1>8, <1>9, TakeLockKeepsOwnerInv,
     SubmitKeepsOwnerInv, AcceptedKeepsOwnerInv, ReleaseGateKeepsOwnerInv, PollsKeepOwnerInv
  DEF Next, Proceed, Work, Watch

\* Spec => []TypeOK: the counters of a watcher never pass the limits at which
\* watchAsyncGeneration ends.
THEOREM TypeCorrect == Spec => []TypeOK
<1>1. OwnerInv => TypeOK
  BY DEF OwnerInv
<1> QED
  BY <1>1, InitOwnerInv, NextKeepsOwnerInv, PTL DEF Spec

\* Spec => []LockHasOwner: no step of a request, the fuse or a watcher leaves a
\* held lock without the one that has to release it, or with two.
THEOREM LockHasOwnerAlways == Spec => []LockHasOwner
<1>1. OwnerInv => LockHasOwner
  BY DEF OwnerInv
<1> QED
  BY <1>1, InitOwnerInv, NextKeepsOwnerInv, PTL DEF Spec

-----------------------------------------------------------------------------

\* A generation is on the worker only after its request was submitted, and when
\* the request comes to release a lock it is over, unless its answer was lost or
\* a watcher has the lock.
Before == {"try", "asleep", "submit", "retreat"}
WorkInv ==
  \A h \in Handles :
    /\ pc[h.req] \in Before => work[h] = "none"
    /\ pc[h.req] = "release" /\ h.at \in gates[h.req] /\ h \notin handedOff \union lost
         => work[h] = "none"

\* The steps of the worker, the fuse and the watchers start no generation, and
\* no answer is found again.
LEMMA WorkerKeepsWorkInv ==
  ASSUME OwnerInv, WorkInv, UNCHANGED <<pc, gates, handedOff>>, lost \subseteq lost',
         \A h \in Handles : work[h] = "none" => work'[h] = "none"
  PROVE  WorkInv'
BY DEF WorkInv

\* A request that moves while it has no generation.
LEMMA MoveKeepsWorkInv ==
  ASSUME OwnerInv, WorkInv, NEW r \in Requests, UNCHANGED <<handedOff, lost, work>>,
         \A s \in Requests : s # r => pc'[s] = pc[s] /\ gates'[s] = gates[s],
         \A h \in Handles : h.req = r => work[h] = "none"
  PROVE  WorkInv'
BY HandleParts DEF WorkInv

\* A request nobody took goes to release its locks, any other to generate.
LEMMA SubmitKeepsWorkInv ==
  ASSUME OwnerInv, WorkInv, NEW r \in Requests, Submit(r)
  PROVE  WorkInv'
<1>1. PICK taken \in SUBSET {Handle(r, b) : b \in gates[r]} :
        /\ \A h \in Handles \ taken : work'[h] = work[h]
        /\ pc' = [pc EXCEPT ![r] = IF taken = {} THEN "release" ELSE "generating"]
  BY DEF Submit, Goto
<1>2. pc[r] = "submit" /\ UNCHANGED <<handedOff, lost, gates>>
  BY DEF Submit
<1>3. \A h \in taken : h.req = r
  <2>1. gates[r] \subseteq Backends
    BY DEF OwnerInv, TypeOK
  <2> QED
    BY <2>1, HandleParts
<1>4. \A s \in Requests :
        pc'[s] = IF s # r THEN pc[s] ELSE IF taken = {} THEN "release" ELSE "generating"
  BY <1>1 DEF OwnerInv, TypeOK
<1> SUFFICES ASSUME NEW h \in Handles
             PROVE  /\ pc'[h.req] \in Before => work'[h] = "none"
                    /\ pc'[h.req] = "release" /\ h.at \in gates[h.req] /\ h \notin handedOff \union lost
                         => work'[h] = "none"
  BY <1>2 DEF WorkInv
<1>5. h.req \in Requests
  BY HandleParts
<1>6. CASE h \in taken
  BY <1>3, <1>4, <1>5, <1>6 DEF Before
<1>7. CASE h \notin taken
  BY <1>1, <1>2, <1>4, <1>5, <1>7 DEF WorkInv, Before
<1> QED
  BY <1>6, <1>7

\* The generation of an accepted request goes over to a watcher.
LEMMA AcceptedKeepsWorkInv ==
  ASSUME OwnerInv, WorkInv, NEW r \in Requests, Accepted(r)
  PROVE  WorkInv'
<1>1. PICK b \in Backends : gates[r] = {b} /\ handedOff' = handedOff \union {Handle(r, b)}
  BY DEF Accepted
<1>2. /\ pc[r] = "generating" /\ pc' = [pc EXCEPT ![r] = "release"]
      /\ UNCHANGED <<lost, gates, work>>
  BY DEF Accepted, Goto
<1>3. \A s \in Requests : pc'[s] = IF s = r THEN "release" ELSE pc[s]
  BY <1>2 DEF OwnerInv, TypeOK
<1>4. \A h \in Handles : h.req = r /\ h.at = b => h = Handle(r, b)
  BY HandleParts
<1>5. \A h \in Handles : h.req \in Requests
  BY HandleParts
<1> QED
  BY <1>1, <1>2, <1>3, <1>4, <1>5 DEF WorkInv, Before

LEMMA NextKeepsWorkInv == OwnerInv /\ WorkInv /\ [Next]_vars => WorkInv'
<1> SUFFICES ASSUME OwnerInv, WorkInv, [Next]_vars PROVE WorkInv'
  OBVIOUS
<1> USE DEF Before
<1>1. ASSUME NEW r \in Requests, Arrive(r) PROVE WorkInv'
  <2>1. \A h \in Handles : h.req = r => work[h] = "none"
    BY <1>1, HandleParts DEF Arrive
  <2>2. UNCHANGED <<gates, handedOff, lost, work>> /\ pc' = [pc EXCEPT ![r] = "try"]
    BY <1>1 DEF Arrive, Begin, Goto
  <2> QED
    BY <2>1, <2>2, MoveKeepsWorkInv DEF OwnerInv, TypeOK
<1>2. ASSUME NEW r \in Requests, FallBack(r) PROVE WorkInv'
  <2>1. \A h \in Handles : h.req = r => work[h] = "none"
    BY <1>2 DEF FallBack, WorkInv
  <2>2. UNCHANGED <<gates, handedOff, lost, work>> /\ pc' = [pc EXCEPT ![r] = "try"]
    BY <1>2 DEF FallBack, Begin, Goto
  <2> QED
    BY <2>1, <2>2, MoveKeepsWorkInv DEF OwnerInv, TypeOK
<1>3. ASSUME NEW r \in Requests, TakeLock(r) \/ TimeOut(r) \/ SeeCancelled(r) \/ FallAsleep(r)
      PROVE  WorkInv'
  <2>1. \A h \in Handles : h.req = r => work[h] = "none"
    BY <1>3 DEF TakeLock, TimeOut, SeeCancelled, FallAsleep, WorkInv
  <2>2. UNCHANGED <<handedOff, lost, work>>
    BY <1>3 DEF TakeLock, TimeOut, SeeCancelled, FallAsleep, Refuse
  <2>3. /\ \E l : pc' = [pc EXCEPT ![r] = l]
        /\ \E got : gates' = [gates EXCEPT ![r] = got]
    <3>1. CASE FallAsleep(r)
      BY <3>1 DEF FallAsleep, Goto, OwnerInv, TypeOK
    <3>2. CASE \E got : NextGate(r, Tail(todo[r]), got)
      BY <3>2 DEF NextGate, Goto
    <3> QED
      BY <1>3, <3>1, <3>2 DEF TakeLock, TimeOut, SeeCancelled, Refuse
  <2> QED
    BY <2>1, <2>2, <2>3, MoveKeepsWorkInv DEF OwnerInv, TypeOK
<1>4. ASSUME NEW r \in Requests, Answer(r) PROVE WorkInv'
  <2>1. /\ UNCHANGED <<gates, handedOff, lost, work>> /\ pc' = [pc EXCEPT ![r] = "release"]
        /\ \A b \in gates[r] : Handle(r, b) \in lost \/ work[Handle(r, b)] = "none"
    BY <1>4 DEF Answer, Goto
  <2>2. \A s \in Requests : pc'[s] = IF s = r THEN "release" ELSE pc[s]
    BY <2>1 DEF OwnerInv, TypeOK
  <2> QED
    BY <2>1, <2>2, HandleParts DEF WorkInv
<1>5. ASSUME NEW r \in Requests, ReleaseGate(r) PROVE WorkInv'
  <2>1. PICK b \in gates[r] : /\ gates' = [gates EXCEPT ![r] = @ \ {b}]
                              /\ handedOff' = handedOff \ {Handle(r, b)}
                              /\ lost' = lost \ {Handle(r, b)}
    BY <1>5 DEF ReleaseGate
  <2>2. UNCHANGED <<pc, work>> /\ pc[r] \in {"release", "retreat"}
    BY <1>5 DEF ReleaseGate
  <2>3. \A h \in Handles : h.at \in gates'[h.req] /\ h \notin handedOff' \union lost'
                             => h.at \in gates[h.req] /\ h \notin handedOff \union lost
    <3>1. \A s \in Requests : gates'[s] = IF s = r THEN gates[r] \ {b} ELSE gates[s]
      BY <2>1 DEF OwnerInv, TypeOK
    <3>2. b \in Backends
      BY <2>1 DEF OwnerInv, TypeOK
    <3> QED
      BY <2>1, <3>1, <3>2, HandleParts
  <2> QED
    BY <2>2, <2>3 DEF WorkInv
<1>6. ASSUME NEW r \in Requests, Leave(r) PROVE WorkInv'
  <2>1. \A s \in Requests : pc'[s] = IF s = r THEN "idle" ELSE pc[s]
    BY <1>6 DEF Leave, Goto, OwnerInv, TypeOK
  <2> QED
    BY <1>6, <2>1, HandleParts DEF Leave, WorkInv
<1>7. ASSUME NEW h \in Handles,
             LosePart(h) \/ ForceRelease(h) \/ Work(h) \/ Watch(h) \/ PollFails(h)
      PROVE  WorkInv'
  <2>1. UNCHANGED <<pc, gates, handedOff>> /\ lost \subseteq lost'
    BY <1>7 DEF LosePart, ForceRelease, Work, StartWork, FinishWork, Watch, PollFails, PollActive, PollIdle,
                Poll, WatchDone, locals
  <2>2. \A g \in Handles : work[g] = "none" => work'[g] = "none"
    <3>1. CASE StartWork(h)
      BY <3>1 DEF StartWork, OwnerInv, TypeOK
    <3>2. CASE FinishWork(h)
      BY <3>2 DEF FinishWork, OwnerInv, TypeOK
    <3>3. CASE UNCHANGED work
      BY <3>3
    <3> QED
      BY <1>7, <3>1, <3>2, <3>3 DEF LosePart, ForceRelease, Work, Watch, PollFails, PollActive, PollIdle, Poll, WatchDone
  <2> QED
    BY <2>1, <2>2, WorkerKeepsWorkInv
<1>8. CASE UNCHANGED vars
  BY <1>8, WorkerKeepsWorkInv DEF vars, locals
<1> QED
  BY <1>1, <1>2, <1>3, <1>4, <1>5, <1>6, <1>7, <1>8, SubmitKeepsWorkInv, AcceptedKeepsWorkInv
  DEF Next, Proceed

\* Of one step: the steps that release a lock, and what they know of its work.
LEMMA NextOutlives ==
  OwnerInv /\ WorkInv /\ [Next]_vars
    => [\A h \in Handles :
          Holds(h) /\ ~Holds(h)' /\ work[h] # "none" =>
            \/ ForceRelease(h) \/ PollFails(h) \/ h \in lost
            \/ work[h] = "accepted" /\ PollIdle(h)]_vars
<1> SUFFICES ASSUME OwnerInv, WorkInv, Next, NEW h \in Handles,
                    Holds(h), ~Holds(h)', work[h] # "none", h \notin lost
             PROVE  ForceRelease(h) \/ PollFails(h) \/ (work[h] = "accepted" /\ PollIdle(h))
  OBVIOUS
<1>1. Key(h.at) \in Keys /\ h \in Handles /\ h # Nobody /\ holder[Key(h.at)] = h /\ holder'[Key(h.at)] # h
  BY HandleParts, ImageGpuLockAssumption DEF Keys, Holds
<1>2. ASSUME NEW g, Release(g) PROVE g = h
  BY <1>1, <1>2 DEF Release, Holds, OwnerInv, TypeOK
<1>3. ASSUME NEW r \in Requests,
             Arrive(r) \/ Proceed(r) \/ TimeOut(r) \/ SeeCancelled(r)
      PROVE  FALSE
  <2>1. CASE TakeLock(r)
    <3> DEFINE b == Head(todo[r])
    <3>1. ~Conflict(Key(h.at), Key(b)) /\ holder' = [holder EXCEPT ![Key(b)] = Handle(r, b)]
      BY <1>1, <2>1 DEF TakeLock, Busy
    <3>2. Key(b) # Key(h.at)
      BY <3>1 DEF Conflict
    <3> QED
      BY <1>1, <3>1, <3>2 DEF OwnerInv, TypeOK
  <2>2. CASE ReleaseGate(r)
    <3>1. PICK b \in gates[r] :
            IF Handle(r, b) \in handedOff THEN UNCHANGED holder ELSE Release(Handle(r, b))
      BY <2>2 DEF ReleaseGate
    <3>2. Handle(r, b) = h /\ h \notin handedOff
      BY <1>1, <1>2, <3>1
    <3>3. b \in Backends
      BY <3>1 DEF OwnerInv, TypeOK
    <3>4. h.req = r /\ h.at = b
      BY <3>2, <3>3, HandleParts
    <3>5. pc[r] \in {"release", "retreat"}
      BY <2>2 DEF ReleaseGate
    <3> QED
      BY <3>1, <3>2, <3>4, <3>5 DEF WorkInv, Before
  <2>3. CASE UNCHANGED holder
    BY <1>1, <2>3
  <2>4. TakeLock(r) \/ ReleaseGate(r) \/ UNCHANGED holder
    BY <1>3 DEF Proceed, Arrive, Begin, FallAsleep, TimeOut, SeeCancelled, Refuse, Submit,
                Accepted, Answer, FallBack, Leave
  <2> QED
    BY <2>1, <2>2, <2>3, <2>4
<1>4. ASSUME NEW g \in Handles,
             LosePart(g) \/ ForceRelease(g) \/ Work(g) \/ Watch(g) \/ PollFails(g)
      PROVE  ForceRelease(h) \/ PollFails(h) \/ (work[h] = "accepted" /\ PollIdle(h))
  <2>1. CASE ForceRelease(g)
    BY <2>1, <1>2 DEF ForceRelease
  <2>2. CASE PollFails(g)
    BY <1>1, <1>2, <2>2 DEF PollFails, Poll
  <2>3. CASE PollIdle(g)
    <3>1. ~Active(g.at) /\ Release(g)
      BY <1>1, <2>3 DEF PollIdle, Poll
    <3>2. g = h
      BY <1>2, <3>1
    <3> QED
      BY <2>3, <3>1, <3>2 DEF Active, OwnerInv, TypeOK
  <2>4. CASE UNCHANGED holder
    BY <1>1, <2>4
  <2> QED
    BY <1>4, <2>1, <2>2, <2>3, <2>4 DEF LosePart, Work, StartWork, FinishWork, Watch, WatchDone, PollActive, Poll
<1> QED
  BY <1>3, <1>4 DEF Next

\* Spec => LockOutlivesWork: a request that got its answer releases its lock
\* only when the generation is over, a watcher that counts idle polls only when
\* it is over or has not started. The exceptions are the fuse, a watcher that
\* cannot poll, and a request that got an error in place of its answer.
THEOREM LockOutlivesWorkAlways == Spec => LockOutlivesWork
<1>1. Init => WorkInv
  BY DEF Init, WorkInv
<1> QED
  BY <1>1, InitOwnerInv, NextKeepsOwnerInv, NextKeepsWorkInv, NextOutlives, PTL DEF Spec, LockOutlivesWork

=============================================================================

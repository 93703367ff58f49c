--------------------------- MODULE AdmissionProofs ---------------------------
(***************************************************************************)
(* Proofs about Admission for any requests, sessions, backends and limits. *)
(***************************************************************************)
EXTENDS Admission, QueueFacts, SequenceTheorems, FiniteSetTheorems, TLAPS

\* From the grant of a slot to its release, and where a request in a queue can be.
Leased == {"granted", "counted", "dequeue", "running", "uncounted"}
InQueue ==
  {"loop", "check", "claim", "deadline", "asleep", "giveup", "granted", "counted", "dequeue"}

LeaseInv ==
  \A r \in Requests :
    /\ at[r] # NoBackend <=> pc[r] \in Leased \union {"freed"}
    /\ r \in silent => pc[r] = "running"

HealthInv == \A b \in Backends \ Flaky : healthy[b]

\* The counter of a backend stays within its limit; without preemption it is
\* the number of holders.
CountInv ==
  \A b \in Backends :
    /\ Limit[b] > 0 => active[b] <= Limit[b]
    /\ Streams = {} => active[b] = Cardinality(Holders(b))

\* A backend that r found full is full, or its release is about to wake r.
FullOrFreed(b) == Full(b) \/ \E q \in Requests : pc[q] = "freed" /\ at[q] = b

WakeInv ==
  \A r \in Requests :
    /\ pc[r] = "check" => tried[r] = {}
    /\ pc[r] \in {"check", "claim", "deadline", "asleep"} /\ r \notin woken =>
         \A b \in tried[r] \ Flaky : FullOrFreed(b)

QueueInv ==
  \A k \in Keys :
    /\ Once(queue[k])
    /\ \A i \in 1 .. Len(queue[k]) : KeyOf[queue[k][i]] = k /\ pc[queue[k][i]] \in InQueue

\* SameSessionFifo, with the positions as a range.
Past == {"claim", "granted", "counted", "dequeue"}
FifoInv ==
  \A k \in Keys : \A i, j \in 1 .. Len(queue[k]) :
    i < j /\ SessionOf[queue[k][i]] = SessionOf[queue[k][j]] => pc[queue[k][j]] \notin Past

AdmissionInv ==
  /\ TypeOK /\ LeaseInv /\ HealthInv /\ CountInv /\ NoPhantomLoad /\ InflightMatches
  /\ WakeInv /\ QueueInv /\ FifoInv

-----------------------------------------------------------------------------
(* Holders of slots and of leases.                                         *)

LEMMA SetsFinite ==
  /\ \A b : /\ IsFiniteSet(Holders(b)) /\ IsFiniteSet(Holders(b)')
            /\ Cardinality(Holders(b)) \in Nat /\ Cardinality(Holders(b)') \in Nat
  /\ \A s : /\ IsFiniteSet(Counted(s)) /\ IsFiniteSet(Counted(s)')
            /\ Cardinality(Counted(s)) \in Nat /\ Cardinality(Counted(s)') \in Nat
<1>1. ASSUME NEW b
      PROVE  /\ IsFiniteSet(Holders(b)) /\ IsFiniteSet(Holders(b)')
             /\ Cardinality(Holders(b)) \in Nat /\ Cardinality(Holders(b)') \in Nat
  <2>1. Holders(b) \subseteq Requests /\ Holders(b)' \subseteq Requests
    BY DEF Holders
  <2>2. IsFiniteSet(Holders(b)) /\ IsFiniteSet(Holders(b)')
    BY <2>1, FS_Subset, AdmissionAssumption
  <2> QED  BY <2>2, FS_CardinalityType
<1>2. ASSUME NEW s
      PROVE  /\ IsFiniteSet(Counted(s)) /\ IsFiniteSet(Counted(s)')
             /\ Cardinality(Counted(s)) \in Nat /\ Cardinality(Counted(s)') \in Nat
  <2>1. Counted(s) \subseteq Requests /\ Counted(s)' \subseteq Requests
    BY DEF Counted
  <2>2. IsFiniteSet(Counted(s)) /\ IsFiniteSet(Counted(s)')
    BY <2>1, FS_Subset, AdmissionAssumption
  <2> QED  BY <2>2, FS_CardinalityType
<1> QED  BY <1>1, <1>2

\* The queues are sequences of requests.
LEMMA QueueShape ==
  ASSUME TypeOK, NEW k \in Keys
  PROVE  /\ queue[k] \in Seq(Requests) /\ Len(queue[k]) \in Nat /\ DOMAIN queue[k] = 1 .. Len(queue[k])
         /\ \A i \in 1 .. Len(queue[k]) : queue[k][i] \in Requests
BY SeqDomain DEF TypeOK

LEMMA KeysOfRequests == \A r \in Requests : KeyOf[r] \in Keys /\ SessionOf[r] \in Sessions
BY AdmissionAssumption

-----------------------------------------------------------------------------
(* The steps.                                                              *)

LEMMA InitAdmissionInv == Init => AdmissionInv
<1> SUFFICES ASSUME Init  PROVE AdmissionInv
  OBVIOUS
<1>1. <<>> \in Seq(Requests) /\ Len(<<>>) = 0
  BY EmptySeq
<1>2. TypeOK
  BY <1>1 DEF Init, TypeOK, Pcs
<1>3. LeaseInv /\ HealthInv /\ WakeInv
  BY DEF Init, LeaseInv, HealthInv, WakeInv, Leased
<1>4. \A b : Holders(b) = {}
  BY DEF Init, Holders
<1>5. \A s : Counted(s) = {}
  BY DEF Init, Counted
<1>6. \A b \in Backends : active[b] = 0 /\ Limit[b] \in Nat
  BY AdmissionAssumption DEF Init
<1>7. CountInv /\ NoPhantomLoad
  BY <1>4, <1>6, FS_EmptySet DEF CountInv, NoPhantomLoad
<1>8. InflightMatches
  BY <1>5, FS_EmptySet DEF Init, InflightMatches
<1>9. \A k \in Keys : queue[k] = <<>> /\ Len(queue[k]) = 0
  BY <1>1 DEF Init
<1>10. QueueInv /\ FifoInv
  BY <1>9 DEF QueueInv, FifoInv, Once
<1> QED  BY <1>2, <1>3, <1>7, <1>8, <1>10 DEF AdmissionInv

\* A step of a request that has no lease and stays in its queue, or out of it.
LEMMA MoveStep ==
  ASSUME AdmissionInv, UNCHANGED <<healthy, active, queue, inflight, served, at, silent>>,
         NEW r \in Requests, NEW l \in Pcs, pc' = [pc EXCEPT ![r] = l],
         pc[r] \notin Leased \union {"freed"}, l \notin Leased \union {"freed"},
         pc[r] \in InQueue => l \in InQueue,
         tried' \in [Requests -> SUBSET Backends],
         \A q \in Requests : q # r => tried'[q] = tried[q],
         woken' \subseteq Requests, \A q \in Requests : q # r => (q \in woken' <=> q \in woken),
         l = "check" => tried'[r] = {},
         l \in {"check", "claim", "deadline", "asleep"} /\ r \notin woken' =>
           \A b \in tried'[r] \ Flaky : FullOrFreed(b),
         l = "claim" => pc[r] = "claim" \/ Best(KeyOf[r], r)
  PROVE  AdmissionInv'
<1> USE DEF AdmissionInv
<1>1. pc'[r] = l /\ \A q \in Requests : q # r => pc'[q] = pc[q]
  BY DEF TypeOK
<1>2. TypeOK'
  BY DEF TypeOK
<1>3. LeaseInv' /\ HealthInv'
  BY <1>1 DEF LeaseInv, HealthInv, Leased
<1>4. /\ \A b : Holders(b)' = Holders(b)
      /\ \A s : Counted(s)' = Counted(s)
  BY <1>1 DEF Holders, Counted, Leased
<1>5. CountInv' /\ NoPhantomLoad' /\ InflightMatches'
  BY <1>4 DEF CountInv, NoPhantomLoad, InflightMatches
<1>6. \A b : FullOrFreed(b)' <=> FullOrFreed(b)
  BY <1>1 DEF FullOrFreed, Full
<1>7. WakeInv'
  BY <1>1, <1>6 DEF WakeInv
<1>8. QueueInv'
  <2>1. ASSUME NEW k \in Keys, NEW i \in 1 .. Len(queue[k])
        PROVE  KeyOf[queue[k][i]] = k /\ pc'[queue[k][i]] \in InQueue
    BY <1>1, <2>1, QueueShape DEF QueueInv
  <2> QED  BY <2>1 DEF QueueInv
<1>9. FifoInv'
  <2> SUFFICES ASSUME NEW k \in Keys, NEW i \in 1 .. Len(queue[k]), NEW j \in 1 .. Len(queue[k]),
                      i < j, SessionOf[queue[k][i]] = SessionOf[queue[k][j]]
               PROVE  pc'[queue[k][j]] \notin Past
    BY DEF FifoInv
  <2>1. pc[queue[k][j]] \notin Past
    BY DEF FifoInv
  <2>2. CASE queue[k][j] # r \/ l # "claim"
    BY <1>1, <2>1, <2>2, QueueShape DEF Past, Leased
  <2>3. CASE queue[k][j] = r /\ l = "claim"
    <3>1. KeyOf[r] = k /\ pc[r] # "claim"
      BY <2>1, <2>3 DEF QueueInv, Past
    <3>2. PICK n \in DOMAIN queue[k] :
            /\ queue[k][n] = r
            /\ \A m \in DOMAIN queue[k] \ {n} :
                 \/ Priority(r) < Priority(queue[k][m])
                 \/ Priority(r) = Priority(queue[k][m]) /\ n < m
      BY <2>3, <3>1 DEF Best
    <3>3. n = j
      BY <2>3, <3>2, QueueShape DEF QueueInv, Once
    <3>4. Priority(queue[k][i]) = Priority(r) /\ Priority(r) \in 0 .. 2
      BY <2>3 DEF Priority
    <3>5. i \in DOMAIN queue[k] \ {n} /\ ~(n < i)
      BY <3>3, QueueShape
    <3> QED  BY <3>2, <3>4, <3>5
  <2> QED  BY <2>2, <2>3
<1> QED  BY <1>2, <1>3, <1>5, <1>7, <1>8, <1>9

LEMMA MoveSteps ==
  ASSUME AdmissionInv, NEW r \in Requests,
         \/ Arrive(r) \/ CheckWatermark(r) \/ TakeChannel(r) \/ CheckTurn(r) \/ FallAsleep(r)
         \/ TimeOut(r) \/ Wake(r) \/ SeeCancelled(r)
  PROVE  AdmissionInv'
<1> USE DEF Goto, queueVars, Leased, InQueue, Pcs, Trying
<1>1. TypeOK /\ WakeInv
  BY DEF AdmissionInv
<1>2. CASE Arrive(r) \/ CheckWatermark(r) \/ TimeOut(r) \/ Wake(r) \/ SeeCancelled(r)
  <2>1. PICK l \in {"first", "now", "idle", "enqueue", "giveup", "loop"} :
          /\ pc' = [pc EXCEPT ![r] = l]
          /\ pc[r] \in {"deadline", "asleep"} <=> l \in {"giveup", "loop"}
          /\ pc[r] \in {"idle", "watermark", "deadline", "asleep"}
    BY <1>2 DEF Arrive, CheckWatermark, TimeOut, Wake, SeeCancelled
  <2>2. UNCHANGED <<healthy, active, queue, inflight, served, at, silent, tried, woken>>
    BY <1>2 DEF Arrive, CheckWatermark, TimeOut, Wake, SeeCancelled
  <2> QED  BY <1>1, <2>1, <2>2, MoveStep DEF TypeOK
<1>3. CASE TakeChannel(r)
  <2>1. /\ UNCHANGED <<healthy, active, queue, inflight, served, at, silent>>
        /\ pc[r] = "loop" /\ pc' = [pc EXCEPT ![r] = "check"]
        /\ tried' = [tried EXCEPT ![r] = {}] /\ woken' = woken \ {r}
    BY <1>3 DEF TakeChannel
  <2>2. tried'[r] = {} /\ tried' \in [Requests -> SUBSET Backends] /\ woken' \subseteq Requests
    BY <1>1, <2>1 DEF TypeOK
  <2> QED  BY <1>1, <2>1, <2>2, MoveStep DEF TypeOK
<1>4. CASE CheckTurn(r)
  <2>1. PICK l \in {"claim", "deadline"} :
          pc' = [pc EXCEPT ![r] = l] /\ (l = "claim" => Best(KeyOf[r], r))
    BY <1>4 DEF CheckTurn
  <2>2. /\ UNCHANGED <<healthy, active, queue, inflight, served, at, silent, tried, woken>>
        /\ pc[r] = "check" /\ tried[r] = {}
    BY <1>1, <1>4 DEF CheckTurn, WakeInv
  <2> QED  BY <1>1, <2>1, <2>2, MoveStep DEF TypeOK
<1>5. CASE FallAsleep(r)
  <2>1. /\ UNCHANGED <<healthy, active, queue, inflight, served, at, silent, tried, woken>>
        /\ pc[r] = "deadline" /\ pc' = [pc EXCEPT ![r] = "asleep"]
    BY <1>5 DEF FallAsleep
  <2>2. r \notin woken' => \A b \in tried'[r] \ Flaky : FullOrFreed(b)
    BY <1>1, <2>1 DEF WakeInv
  <2> QED  BY <1>1, <2>1, <2>2, MoveStep DEF TypeOK
<1> QED  BY <1>2, <1>3, <1>4, <1>5

\* A try that fails notes only backends that are full, the flaky ones apart.
LEMMA TryFailsStep ==
  ASSUME AdmissionInv, NEW r \in Requests, TryFails(r)
  PROVE  AdmissionInv'
<1>1. TypeOK /\ WakeInv /\ HealthInv
  BY DEF AdmissionInv
<1>2. PICK b \in Candidates(r) \ tried[r] :
        /\ NoSlot(b)
        /\ LET seen == tried[r] \union {b}
               over == seen = Candidates(r)
           IN /\ Goto(r, IF over THEN AfterScan(r) ELSE pc[r])
              /\ tried' = [tried EXCEPT ![r] = IF over /\ pc[r] # "claim" THEN {} ELSE seen]
  BY DEF TryFails
<1>3. /\ UNCHANGED <<healthy, active, queue, inflight, served, at, silent, woken>>
      /\ pc[r] \in Trying
  BY DEF TryFails, queueVars
<1>4. b \in Backends
  BY KeysOfRequests DEF Candidates, Keys
<1>5. PICK l \in {"now", "first", "watermark", "enqueue", "claim", "deadline"} :
        /\ pc' = [pc EXCEPT ![r] = l]
        /\ pc[r] = "claim" <=> l \in {"claim", "deadline"}
  <2>1. CASE tried[r] \union {b} = Candidates(r)
    BY <1>2, <1>3, <2>1 DEF Goto, AfterScan, Trying
  <2>2. CASE tried[r] \union {b} # Candidates(r)
    BY <1>2, <1>3, <2>2 DEF Goto, Trying
  <2> QED  BY <2>1, <2>2
<1>6. PICK t \in SUBSET Backends :
        tried' = [tried EXCEPT ![r] = t] /\ t \subseteq tried[r] \union {b}
  <2>1. tried[r] \union {b} \in SUBSET Backends /\ {} \in SUBSET Backends
    BY <1>1, <1>4 DEF TypeOK
  <2>2. \/ tried' = [tried EXCEPT ![r] = tried[r] \union {b}]
        \/ tried' = [tried EXCEPT ![r] = {}]
    BY <1>2
  <2>3. CASE tried' = [tried EXCEPT ![r] = tried[r] \union {b}]
    BY <2>1, <2>3
  <2>4. CASE tried' = [tried EXCEPT ![r] = {}]
    BY <2>1, <2>4
  <2> QED  BY <2>2, <2>3, <2>4
<1>7. b \notin Flaky => Full(b)
  <2>1. ~healthy[b] \/ Full(b)
    BY <1>2 DEF NoSlot
  <2>2. b \notin Flaky => healthy[b]
    BY <1>1, <1>4 DEF HealthInv
  <2> QED  BY <2>1, <2>2
<1>8. tried' \in [Requests -> SUBSET Backends] /\ tried'[r] = t
      /\ \A q \in Requests : q # r => tried'[q] = tried[q]
  BY <1>1, <1>6 DEF TypeOK
<1>9. ASSUME pc[r] = "claim", r \notin woken  PROVE \A c \in tried'[r] \ Flaky : FullOrFreed(c)
  BY <1>1, <1>6, <1>7, <1>8, <1>9 DEF WakeInv, FullOrFreed
<1> QED  BY <1>1, <1>3, <1>5, <1>8, <1>9, MoveStep DEF TypeOK, Leased, InQueue, Pcs, Trying

\* A request gets a slot, free or of a zombie.
LEMMA GrantStep ==
  ASSUME AdmissionInv, NEW r \in Requests, TryAcquire(r)
  PROVE  AdmissionInv'
<1> USE DEF AdmissionInv
<1>1. PICK b \in Candidates(r) : SlotTaken(b) /\ at' = [at EXCEPT ![r] = b]
  BY DEF TryAcquire
<1>2. b \in Backends
  BY KeysOfRequests DEF Candidates, Keys
<1>3. /\ UNCHANGED <<healthy, queue, inflight, served, woken>>
      /\ pc[r] \in Trying /\ pc' = [pc EXCEPT ![r] = "granted"] /\ tried' = [tried EXCEPT ![r] = {}]
  BY DEF TryAcquire, Goto, queueVars
<1>4. /\ pc'[r] = "granted" /\ at'[r] = b /\ tried'[r] = {}
      /\ \A q \in Requests : q # r => pc'[q] = pc[q] /\ at'[q] = at[q] /\ tried'[q] = tried[q]
  BY <1>1, <1>3 DEF TypeOK
<1>5. /\ silent' \subseteq silent /\ active[b] \in Nat /\ Limit[b] \in Nat
      /\ \/ ~Full(b) /\ active' = [active EXCEPT ![b] = @ + 1]
         \/ Streams # {} /\ active' = active
  <2>1. active[b] \in Nat /\ Limit[b] \in Nat
    BY <1>2, AdmissionAssumption DEF TypeOK
  <2>2. CASE ~Full(b) /\ active' = [active EXCEPT ![b] = @ + 1] /\ silent' = silent
    BY <2>1, <2>2
  <2>3. CASE active' = active /\ \E z \in Zombies(b) : silent' = silent \ {z}
    BY <2>1, <2>3 DEF Zombies, TypeOK
  <2> QED  BY <1>1, <2>2, <2>3 DEF SlotTaken
<1>6. /\ \A c \in Backends : c # b => active'[c] = active[c]
      /\ active'[b] \in Nat /\ active'[b] >= active[b] /\ active'[b] <= active[b] + 1
      /\ Streams = {} => active'[b] = active[b] + 1
      /\ Limit[b] > 0 => active'[b] <= Limit[b]
      /\ active' \in [Backends -> Nat]
  <2>1. CASE ~Full(b) /\ active' = [active EXCEPT ![b] = @ + 1]
    BY <1>2, <1>5, <2>1 DEF TypeOK, Full
  <2>2. CASE Streams # {} /\ active' = active
    BY <1>2, <1>5, <2>2 DEF TypeOK, CountInv
  <2> QED  BY <1>5, <2>1, <2>2
<1>7. TypeOK'
  BY <1>1, <1>2, <1>3, <1>5, <1>6 DEF TypeOK, Pcs
<1>8. r \notin silent /\ at[r] = NoBackend
  BY <1>3 DEF LeaseInv, Leased, Trying, TypeOK
<1>9. LeaseInv' /\ HealthInv'
  BY <1>2, <1>3, <1>4, <1>5, <1>8, AdmissionAssumption DEF LeaseInv, HealthInv, Leased
<1>10. /\ r \notin Holders(b) /\ Holders(b)' = Holders(b) \union {r}
       /\ \A c \in Backends : c # b => Holders(c)' = Holders(c)
       /\ \A s : Counted(s)' = Counted(s)
  BY <1>3, <1>4, <1>8, <1>2, AdmissionAssumption DEF Holders, Counted, Trying
<1>11. Cardinality(Holders(b)') = Cardinality(Holders(b)) + 1
  BY <1>10, SetsFinite, FS_AddElement
<1>12. NoPhantomLoad' /\ CountInv'
  <2> SUFFICES ASSUME NEW c \in Backends
               PROVE  /\ active'[c] \in 0 .. Cardinality(Holders(c)')
                      /\ Limit[c] > 0 => active'[c] <= Limit[c]
                      /\ Streams = {} => active'[c] = Cardinality(Holders(c)')
    BY DEF NoPhantomLoad, CountInv
  <2>1. CASE c = b
    <3>1. active[b] <= Cardinality(Holders(b)) /\ (Streams = {} => active[b] = Cardinality(Holders(b)))
      BY <1>2 DEF NoPhantomLoad, CountInv
    <3> QED  BY <1>5, <1>6, <1>11, <2>1, <3>1, SetsFinite
  <2>2. CASE c # b
    BY <1>6, <1>10, <2>2 DEF NoPhantomLoad, CountInv
  <2> QED  BY <2>1, <2>2
<1>13. InflightMatches'
  BY <1>3, <1>10 DEF InflightMatches
<1>14. WakeInv'
  <2>1. \A c \in Backends : FullOrFreed(c) => FullOrFreed(c)'
    <3> SUFFICES ASSUME NEW c \in Backends, FullOrFreed(c)  PROVE FullOrFreed(c)'
      OBVIOUS
    <3>1. Full(c) => Full(c)'
      BY <1>5, <1>6, AdmissionAssumption DEF Full, TypeOK
    <3>2. \A q \in Requests : pc[q] = "freed" => pc'[q] = "freed" /\ at'[q] = at[q]
      BY <1>3, <1>4 DEF Trying
    <3> QED  BY <3>1, <3>2 DEF FullOrFreed
  <2> QED  BY <1>3, <1>4, <2>1 DEF WakeInv, TypeOK
<1>15. QueueInv'
  <2>1. ASSUME NEW k \in Keys, NEW i \in 1 .. Len(queue[k])
        PROVE  KeyOf[queue[k][i]] = k /\ pc'[queue[k][i]] \in InQueue
    BY <1>4, <2>1, QueueShape DEF QueueInv, InQueue
  <2> QED  BY <1>3, <2>1 DEF QueueInv
<1>16. FifoInv'
  <2>1. ASSUME NEW k \in Keys, NEW j \in 1 .. Len(queue[k]), pc[queue[k][j]] \notin Past
        PROVE  pc'[queue[k][j]] \notin Past
    <3>1. queue[k][j] \in Requests /\ pc[queue[k][j]] \in InQueue
      BY QueueShape DEF QueueInv
    <3>2. queue[k][j] # r
      BY <1>3, <2>1, <3>1 DEF Trying, InQueue, Past
    <3> QED  BY <1>4, <2>1, <3>1, <3>2
  <2> QED  BY <1>3, <2>1 DEF FifoInv
<1> QED  BY <1>7, <1>9, <1>12, <1>13, <1>14, <1>15, <1>16

LEMMA EnqueueStep ==
  ASSUME AdmissionInv, NEW r \in Requests, Enqueue(r)
  PROVE  AdmissionInv'
<1> USE DEF AdmissionInv
<1>1. PICK k \in Keys : k = KeyOf[r]
  BY KeysOfRequests
<1>2. /\ UNCHANGED <<healthy, active, inflight, served, at, tried, woken, silent>>
      /\ pc[r] = "enqueue" /\ pc' = [pc EXCEPT ![r] = "loop"]
      /\ queue' = [queue EXCEPT ![k] = Append(queue[k], r)]
  BY <1>1 DEF Enqueue, Goto
<1>3. pc'[r] = "loop" /\ \A q \in Requests : q # r => pc'[q] = pc[q]
  BY <1>2 DEF TypeOK
<1>4. /\ queue'[k] = Append(queue[k], r) /\ \A m \in Keys : m # k => queue'[m] = queue[m]
      /\ queue'[k] \in Seq(Requests) /\ Len(queue'[k]) = Len(queue[k]) + 1 /\ Len(queue[k]) \in Nat
      /\ \A i \in 1 .. Len(queue[k]) : queue'[k][i] = queue[k][i]
      /\ queue'[k][Len(queue[k]) + 1] = r
  BY <1>2, QueueShape, AppendProperties DEF TypeOK
<1>5. TypeOK'
  BY <1>2, <1>4 DEF TypeOK, Pcs
<1>6. LeaseInv' /\ HealthInv'
  BY <1>2, <1>3 DEF LeaseInv, HealthInv, Leased
<1>7. /\ \A b : Holders(b)' = Holders(b)
      /\ \A s : Counted(s)' = Counted(s)
  BY <1>2, <1>3 DEF Holders, Counted
<1>8. CountInv' /\ NoPhantomLoad' /\ InflightMatches'
  BY <1>2, <1>7 DEF CountInv, NoPhantomLoad, InflightMatches
<1>9. \A b : FullOrFreed(b)' <=> FullOrFreed(b)
  BY <1>2, <1>3 DEF FullOrFreed, Full
<1>10. WakeInv'
  BY <1>2, <1>3, <1>9 DEF WakeInv
<1>11. \A i \in 1 .. Len(queue[k]) : queue[k][i] \in Requests /\ queue[k][i] # r
  BY <1>2, QueueShape DEF QueueInv, InQueue
<1>12. QueueInv'
  <2>1. ASSUME NEW m \in Keys, m # k  PROVE
          /\ Once(queue'[m])
          /\ \A i \in 1 .. Len(queue'[m]) : KeyOf[queue'[m][i]] = m /\ pc'[queue'[m][i]] \in InQueue
    <3>1. queue'[m] = queue[m] /\ Once(queue[m])
      BY <1>4, <2>1 DEF QueueInv
    <3>2. ASSUME NEW i \in 1 .. Len(queue[m])
          PROVE  KeyOf[queue[m][i]] = m /\ pc'[queue[m][i]] \in InQueue
      BY <1>2, <1>3, <3>2, QueueShape DEF QueueInv, InQueue
    <3> QED  BY <3>1, <3>2
  <2>2. Once(queue'[k])
    BY <1>4, <1>11 DEF QueueInv, Once
  <2>3. ASSUME NEW i \in 1 .. Len(queue'[k])
        PROVE  KeyOf[queue'[k][i]] = k /\ pc'[queue'[k][i]] \in InQueue
    <3>1. CASE i \in 1 .. Len(queue[k])
      BY <1>3, <1>4, <1>11, <3>1 DEF QueueInv
    <3>2. CASE i = Len(queue[k]) + 1
      BY <1>1, <1>3, <1>4, <3>2 DEF InQueue
    <3> QED  BY <1>4, <3>1, <3>2
  <2> QED  BY <2>1, <2>2, <2>3 DEF QueueInv
<1>13. FifoInv'
  <2> SUFFICES ASSUME NEW m \in Keys, NEW i \in 1 .. Len(queue'[m]), NEW j \in 1 .. Len(queue'[m]),
                      i < j, SessionOf[queue'[m][i]] = SessionOf[queue'[m][j]]
               PROVE  pc'[queue'[m][j]] \notin Past
    BY DEF FifoInv
  <2>1. CASE m # k
    <3>1. queue'[m] = queue[m]
      BY <1>4, <2>1
    <3>2. queue[m][j] \in Requests /\ pc[queue[m][j]] \notin Past
      BY <3>1, QueueShape DEF FifoInv
    <3> QED  BY <1>3, <3>1, <3>2 DEF Past
  <2>2. CASE m = k /\ j = Len(queue[k]) + 1
    BY <1>3, <1>4, <2>2 DEF Past
  <2>3. CASE m = k /\ j # Len(queue[k]) + 1
    <3>1. i \in 1 .. Len(queue[k]) /\ j \in 1 .. Len(queue[k])
      BY <1>4, <2>3
    <3>2. pc[queue[k][j]] \notin Past
      BY <1>4, <2>3, <3>1 DEF FifoInv
    <3> QED  BY <1>3, <1>4, <1>11, <2>3, <3>1, <3>2
  <2> QED  BY <2>1, <2>2, <2>3
<1> QED  BY <1>5, <1>6, <1>8, <1>10, <1>12, <1>13

LEMMA LeaveQueueStep ==
  ASSUME AdmissionInv, NEW r \in Requests, LeaveQueue(r)
  PROVE  AdmissionInv'
<1> USE DEF AdmissionInv
<1>1. PICK k \in Keys : k = KeyOf[r]
  BY KeysOfRequests
<1>2. PICK rest : rest = Without(queue[k], r)
  OBVIOUS
<1>3. PICK l \in {"idle", "running"} :
        /\ UNCHANGED <<healthy, active, inflight, served, at, woken, silent>>
        /\ pc[r] = (IF l = "idle" THEN "giveup" ELSE "dequeue") /\ pc' = [pc EXCEPT ![r] = l]
        /\ queue' = [queue EXCEPT ![k] = rest] /\ tried' = [tried EXCEPT ![r] = {}]
  BY <1>1, <1>2 DEF LeaveQueue, Goto
<1>4. /\ pc'[r] = l /\ \A q \in Requests : q # r => pc'[q] = pc[q]
      /\ tried'[r] = {} /\ \A q \in Requests : q # r => tried'[q] = tried[q]
  BY <1>3 DEF TypeOK
<1>5. rest \in Seq(Requests) /\ LeftOf(rest, queue[k], r)
  <2>1. queue[k] \in Seq(Requests) /\ Once(queue[k])
    BY QueueShape DEF QueueInv
  <2> QED  BY <1>2, <2>1, WithoutLemma
<1>6. queue'[k] = rest /\ \A m \in Keys : m # k => queue'[m] = queue[m]
  BY <1>3 DEF TypeOK
<1>7. TypeOK'
  <2>1. queue' \in [Keys -> Seq(Requests)]
    BY <1>3, <1>5 DEF TypeOK
  <2>2. tried' \in [Requests -> SUBSET Backends] /\ pc' \in [Requests -> Pcs]
    BY <1>3 DEF TypeOK, Pcs
  <2> QED  BY <1>3, <2>1, <2>2 DEF TypeOK
<1>8. LeaseInv' /\ HealthInv'
  BY <1>3, <1>4 DEF LeaseInv, HealthInv, Leased
<1>9. /\ \A b : Holders(b)' = Holders(b)
      /\ \A s : Counted(s)' = Counted(s)
  BY <1>3, <1>4 DEF Holders, Counted
<1>10. CountInv' /\ NoPhantomLoad' /\ InflightMatches'
  BY <1>3, <1>9 DEF CountInv, NoPhantomLoad, InflightMatches
<1>11. \A b : FullOrFreed(b)' <=> FullOrFreed(b)
  BY <1>3, <1>4 DEF FullOrFreed, Full
<1>12. WakeInv'
  BY <1>3, <1>4, <1>11 DEF WakeInv
<1>13. ASSUME NEW m \in Keys, m # k
       PROVE  \A i \in 1 .. Len(queue[m]) : queue[m][i] \in Requests /\ pc'[queue[m][i]] = pc[queue[m][i]]
  BY <1>1, <1>4, <1>13, QueueShape DEF QueueInv
<1>14. \A i \in 1 .. Len(rest) :
         /\ rest[i] \in Requests /\ pc'[rest[i]] = pc[rest[i]]
         /\ KeyOf[rest[i]] = k /\ pc[rest[i]] \in InQueue
  <2> TAKE i \in 1 .. Len(rest)
  <2>1. rest[i] # r /\ \E n \in 1 .. Len(queue[k]) : queue[k][n] = rest[i]
    BY <1>5 DEF LeftOf
  <2> QED  BY <1>4, <2>1, QueueShape DEF QueueInv
<1>15. QueueInv'
  <2>1. ASSUME NEW m \in Keys, m # k
        PROVE  /\ Once(queue'[m])
               /\ \A i \in 1 .. Len(queue'[m]) : KeyOf[queue'[m][i]] = m /\ pc'[queue'[m][i]] \in InQueue
    <3>1. queue'[m] = queue[m] /\ Once(queue[m])
      BY <1>6, <2>1 DEF QueueInv
    <3> QED  BY <1>13, <2>1, <3>1 DEF QueueInv
  <2>2. Once(rest)
    BY <1>5 DEF LeftOf
  <2> QED  BY <1>6, <1>14, <2>1, <2>2 DEF QueueInv
<1>16. FifoInv'
  <2> SUFFICES ASSUME NEW m \in Keys, NEW i \in 1 .. Len(queue'[m]), NEW j \in 1 .. Len(queue'[m]),
                      i < j, SessionOf[queue'[m][i]] = SessionOf[queue'[m][j]]
               PROVE  pc'[queue'[m][j]] \notin Past
    BY DEF FifoInv
  <2>1. CASE m # k
    <3>1. queue'[m] = queue[m]
      BY <1>6, <2>1
    <3>2. pc[queue[m][j]] \notin Past
      BY <3>1 DEF FifoInv
    <3> QED  BY <1>13, <2>1, <3>1, <3>2
  <2>2. CASE m = k
    <3>1. PICK a \in 1 .. Len(queue[k]), b \in 1 .. Len(queue[k]) :
            a < b /\ queue[k][a] = rest[i] /\ queue[k][b] = rest[j]
      <4>1. i \in 1 .. Len(rest) /\ j \in 1 .. Len(rest) /\ i < j
        BY <1>6, <2>2
      <4> QED  BY <1>5, <4>1 DEF LeftOf
    <3>2. pc[queue[k][b]] \notin Past
      BY <1>6, <2>2, <3>1 DEF FifoInv
    <3> QED  BY <1>6, <1>14, <2>2, <3>1, <3>2
  <2> QED  BY <2>1, <2>2
<1> QED  BY <1>7, <1>8, <1>10, <1>12, <1>15, <1>16

-----------------------------------------------------------------------------
(* The lease and its release.                                              *)

LEMMA CountedStep ==
  ASSUME AdmissionInv, NEW r \in Requests, MarkInflight(r) \/ MarkServed(r) \/ Uncount(r)
  PROVE  AdmissionInv'
<1> USE DEF AdmissionInv
<1>1. PICK s \in Sessions : s = SessionOf[r]
  BY KeysOfRequests
<1>2. /\ UNCHANGED <<healthy, active, queue, at, tried, woken>>
      /\ silent' \subseteq silent /\ (pc[r] = "running" => r \notin silent')
      /\ pc[r] \in {"granted", "counted", "running"}
  BY DEF MarkInflight, MarkServed, Uncount
<1>3. \A k \in Keys : \A i \in 1 .. Len(queue[k]) : queue[k][i] = r => pc[r] # "running" /\ Queued(r)
  <2> TAKE k \in Keys
  <2> TAKE i \in 1 .. Len(queue[k])
  <2> HAVE queue[k][i] = r
  <2>1. KeyOf[r] = k /\ pc[r] \in InQueue
    BY DEF QueueInv
  <2> QED  BY <2>1 DEF InQueue, Queued, Contains
<1>4. PICK l \in {"counted", "dequeue", "running", "uncounted"} :
        /\ pc' = [pc EXCEPT ![r] = l]
        /\ pc[r] = "granted" <=> l = "counted"
        /\ pc[r] = "counted" <=> l \in {"dequeue", "running"}
        /\ pc[r] = "running" <=> l = "uncounted"
        /\ l = "running" => ~Queued(r)
  <2>1. CASE MarkInflight(r)
    BY <2>1 DEF MarkInflight, Goto
  <2>2. CASE MarkServed(r)
    BY <2>2 DEF MarkServed, Goto
  <2>3. CASE Uncount(r)
    BY <2>3 DEF Uncount, Goto
  <2> QED  BY <2>1, <2>2, <2>3
<1>5. pc'[r] = l /\ \A q \in Requests : q # r => pc'[q] = pc[q]
  BY <1>4 DEF TypeOK
<1>6. inflight \in [Sessions -> Nat] /\ inflight[s] = Cardinality(Counted(s))
  BY DEF TypeOK, InflightMatches
<1>7. /\ inflight' \in [Sessions -> Nat] /\ served' \in [Sessions -> BOOLEAN]
      /\ \A t \in Sessions : t # s => inflight'[t] = inflight[t]
      /\ l = "counted" => inflight'[s] = inflight[s] + 1
      /\ l \in {"dequeue", "running"} => inflight'[s] = inflight[s]
      /\ l = "uncounted" => inflight'[s] = IF inflight[s] > 0 THEN inflight[s] - 1 ELSE 0
  <2>1. CASE MarkInflight(r)
    BY <1>1, <1>4, <1>6, <2>1 DEF MarkInflight, TypeOK
  <2>2. CASE MarkServed(r)
    BY <1>1, <1>4, <1>6, <2>2 DEF MarkServed, TypeOK
  <2>3. CASE Uncount(r)
    BY <1>1, <1>4, <1>6, <2>3 DEF Uncount, TypeOK
  <2> QED  BY <2>1, <2>2, <2>3
<1>8. TypeOK'
  BY <1>2, <1>4, <1>7 DEF TypeOK, Pcs
<1>9. LeaseInv' /\ HealthInv'
  BY <1>2, <1>4, <1>5 DEF LeaseInv, HealthInv, Leased
<1>10. /\ \A b : Holders(b)' = Holders(b)
       /\ \A t \in Sessions : t # s => Counted(t)' = Counted(t)
       /\ l = "counted" => r \notin Counted(s) /\ Counted(s)' = Counted(s) \union {r}
       /\ l \in {"dequeue", "running"} => Counted(s)' = Counted(s)
       /\ l = "uncounted" => r \in Counted(s) /\ Counted(s)' = Counted(s) \ {r}
  BY <1>1, <1>2, <1>4, <1>5 DEF Holders, Counted
<1>11. NoPhantomLoad' /\ CountInv'
  BY <1>2, <1>10 DEF NoPhantomLoad, CountInv
<1>12. inflight'[s] = Cardinality(Counted(s)')
  <2>1. CASE l = "counted"
    BY <1>6, <1>7, <1>10, <2>1, SetsFinite, FS_AddElement
  <2>2. CASE l \in {"dequeue", "running"}
    BY <1>6, <1>7, <1>10, <2>2
  <2>3. CASE l = "uncounted"
    <3>1. Cardinality(Counted(s)') = Cardinality(Counted(s)) - 1
      BY <1>10, <2>3, SetsFinite, FS_RemoveElement
    <3> QED  BY <1>6, <1>7, <2>3, <3>1, SetsFinite
  <2> QED  BY <2>1, <2>2, <2>3
<1>13. InflightMatches'
  BY <1>7, <1>10, <1>12 DEF InflightMatches
<1>14. \A b : FullOrFreed(b)' <=> FullOrFreed(b)
  BY <1>2, <1>4, <1>5 DEF FullOrFreed, Full
<1>15. WakeInv'
  BY <1>2, <1>4, <1>5, <1>14 DEF WakeInv
<1>16. ASSUME NEW k \in Keys, NEW i \in 1 .. Len(queue[k])
       PROVE  /\ queue[k][i] \in Requests
              /\ pc[queue[k][i]] \in InQueue => pc'[queue[k][i]] \in InQueue
              /\ pc[queue[k][i]] \notin Past => pc'[queue[k][i]] \notin Past
  <2>1. CASE queue[k][i] # r
    BY <1>5, <2>1, QueueShape
  <2>2. CASE queue[k][i] = r
    <3>1. l \in {"counted", "dequeue"} /\ pc[r] \in {"granted", "counted"}
      BY <1>2, <1>3, <1>4, <2>2
    <3> QED  BY <1>5, <2>2, <3>1 DEF InQueue, Past
  <2> QED  BY <2>1, <2>2
<1>17. QueueInv' /\ FifoInv'
  BY <1>2, <1>16 DEF QueueInv, FifoInv
<1> QED  BY <1>8, <1>9, <1>11, <1>13, <1>15, <1>17

LEMMA ReleaseSlotStep ==
  ASSUME AdmissionInv, NEW r \in Requests, ReleaseSlot(r)
  PROVE  AdmissionInv'
<1> USE DEF AdmissionInv
<1>1. PICK b \in Backends : b = at[r]
  BY DEF ReleaseSlot, LeaseInv, Leased, TypeOK
<1>2. /\ UNCHANGED <<healthy, queue, inflight, served, at, tried, woken, silent>>
      /\ pc[r] = "uncounted" /\ pc' = [pc EXCEPT ![r] = "freed"]
      /\ active' = [active EXCEPT ![b] = IF active[b] > 0 THEN active[b] - 1 ELSE 0]
  BY <1>1 DEF ReleaseSlot, Goto, queueVars
<1>3. pc'[r] = "freed" /\ \A q \in Requests : q # r => pc'[q] = pc[q]
  BY <1>2 DEF TypeOK
<1>4. /\ active[b] \in Nat /\ Limit[b] \in Nat /\ active' \in [Backends -> Nat]
      /\ active'[b] = IF active[b] > 0 THEN active[b] - 1 ELSE 0
      /\ \A c \in Backends : c # b => active'[c] = active[c]
  <2>1. active \in [Backends -> Nat] /\ Limit[b] \in Nat
    BY AdmissionAssumption DEF TypeOK
  <2>2. PICK n \in Nat : n = IF active[b] > 0 THEN active[b] - 1 ELSE 0
    BY <2>1
  <2>3. active' = [active EXCEPT ![b] = n]
    BY <1>2, <2>2
  <2> QED  BY <2>1, <2>2, <2>3
<1>5. TypeOK'
  BY <1>2, <1>4 DEF TypeOK, Pcs
<1>6. LeaseInv' /\ HealthInv'
  BY <1>2, <1>3 DEF LeaseInv, HealthInv, Leased
<1>7. /\ r \in Holders(b) /\ Holders(b)' = Holders(b) \ {r}
      /\ \A c \in Backends : c # b => Holders(c)' = Holders(c)
      /\ \A s : Counted(s)' = Counted(s)
  BY <1>1, <1>2, <1>3 DEF Holders, Counted
<1>8. Cardinality(Holders(b)') = Cardinality(Holders(b)) - 1
  BY <1>7, SetsFinite, FS_RemoveElement
<1>9. NoPhantomLoad' /\ CountInv'
  <2> SUFFICES ASSUME NEW c \in Backends
               PROVE  /\ active'[c] \in 0 .. Cardinality(Holders(c)')
                      /\ Limit[c] > 0 => active'[c] <= Limit[c]
                      /\ Streams = {} => active'[c] = Cardinality(Holders(c)')
    BY DEF NoPhantomLoad, CountInv
  <2>1. CASE c = b
    <3>1. /\ active[b] <= Cardinality(Holders(b)) /\ (Streams = {} => active[b] = Cardinality(Holders(b)))
          /\ Limit[b] > 0 => active[b] <= Limit[b]
          /\ Cardinality(Holders(b)') \in Nat /\ Cardinality(Holders(b)) \in Nat
      BY SetsFinite DEF NoPhantomLoad, CountInv
    <3> QED  BY <1>4, <1>8, <2>1, <3>1
  <2>2. CASE c # b
    BY <1>4, <1>7, <2>2 DEF NoPhantomLoad, CountInv
  <2> QED  BY <2>1, <2>2
<1>10. InflightMatches'
  BY <1>2, <1>7 DEF InflightMatches
<1>11. \A c \in Backends : FullOrFreed(c) => FullOrFreed(c)'
  <2> SUFFICES ASSUME NEW c \in Backends, FullOrFreed(c)  PROVE FullOrFreed(c)'
    OBVIOUS
  <2>1. CASE c = b
    BY <1>1, <1>2, <1>3, <2>1 DEF FullOrFreed
  <2>2. CASE c # b
    BY <1>2, <1>3, <1>4, <2>2 DEF FullOrFreed, Full
  <2> QED  BY <2>1, <2>2
<1>12. WakeInv'
  BY <1>2, <1>3, <1>11 DEF WakeInv, TypeOK
<1>13. \A k \in Keys : \A i \in 1 .. Len(queue[k]) :
         queue[k][i] \in Requests /\ pc'[queue[k][i]] = pc[queue[k][i]]
  BY <1>2, <1>3, QueueShape DEF QueueInv, InQueue
<1>14. QueueInv' /\ FifoInv'
  BY <1>2, <1>13 DEF QueueInv, FifoInv
<1> QED  BY <1>5, <1>6, <1>9, <1>10, <1>12, <1>14

LEMMA BroadcastStep ==
  ASSUME AdmissionInv, NEW r \in Requests, Broadcast(r)
  PROVE  AdmissionInv'
<1> USE DEF AdmissionInv
<1>1. /\ UNCHANGED <<healthy, active, queue, inflight, served, tried, silent>>
      /\ pc[r] = "freed" /\ pc' = [pc EXCEPT ![r] = "idle"]
      /\ woken' = Requests /\ at' = [at EXCEPT ![r] = NoBackend]
  BY DEF Broadcast, Goto, queueVars
<1>2. /\ pc'[r] = "idle" /\ at'[r] = NoBackend
      /\ \A q \in Requests : q # r => pc'[q] = pc[q] /\ at'[q] = at[q]
  BY <1>1 DEF TypeOK
<1>3. TypeOK'
  BY <1>1 DEF TypeOK, Pcs
<1>4. LeaseInv' /\ HealthInv'
  BY <1>1, <1>2 DEF LeaseInv, HealthInv, Leased
<1>5. /\ \A b : Holders(b)' = Holders(b)
      /\ \A s : Counted(s)' = Counted(s)
  BY <1>1, <1>2 DEF Holders, Counted
<1>6. CountInv' /\ NoPhantomLoad' /\ InflightMatches'
  BY <1>1, <1>5 DEF CountInv, NoPhantomLoad, InflightMatches
<1>7. WakeInv'
  BY <1>1, <1>2 DEF WakeInv
<1>8. \A k \in Keys : \A i \in 1 .. Len(queue[k]) :
        queue[k][i] \in Requests /\ pc'[queue[k][i]] = pc[queue[k][i]]
  BY <1>1, <1>2, QueueShape DEF QueueInv, InQueue
<1>9. QueueInv' /\ FifoInv'
  BY <1>1, <1>8 DEF QueueInv, FifoInv
<1> QED  BY <1>3, <1>4, <1>6, <1>7, <1>9

LEMMA EnvironmentStep ==
  ASSUME AdmissionInv,
         \/ \E b \in Backends : ChangeHealth(b)
         \/ \E s \in Sessions : WindowPasses(s)
         \/ \E r \in Requests : FallSilent(r)
         \/ UNCHANGED vars
  PROVE  AdmissionInv'
<1> USE DEF AdmissionInv, queueVars
<1>1. /\ UNCHANGED <<active, queue, inflight, pc, at, tried, woken>>
      /\ silent' \subseteq Streams /\ \A r \in silent' : r \in silent \/ pc[r] = "running"
      /\ healthy' \in [Backends -> BOOLEAN] /\ \A b \in Backends \ Flaky : healthy'[b] = healthy[b]
      /\ served' \in [Sessions -> BOOLEAN]
  <2>1. ASSUME NEW b \in Backends, ChangeHealth(b)  PROVE <1>1!:
    BY <2>1 DEF ChangeHealth, TypeOK
  <2>2. ASSUME NEW s \in Sessions, WindowPasses(s)  PROVE <1>1!:
    BY <2>2 DEF WindowPasses, TypeOK
  <2>3. ASSUME NEW r \in Requests, FallSilent(r)  PROVE <1>1!:
    BY <2>3 DEF FallSilent, TypeOK
  <2>4. CASE UNCHANGED vars
    BY <2>4 DEF vars, TypeOK
  <2> QED  BY <2>1, <2>2, <2>3, <2>4
<1>2. TypeOK' /\ LeaseInv' /\ HealthInv'
  BY <1>1 DEF TypeOK, LeaseInv, HealthInv
<1>3. /\ \A b : Holders(b)' = Holders(b)
      /\ \A s : Counted(s)' = Counted(s)
  BY <1>1 DEF Holders, Counted
<1>4. CountInv' /\ NoPhantomLoad' /\ InflightMatches'
  BY <1>1, <1>3 DEF CountInv, NoPhantomLoad, InflightMatches
<1>5. WakeInv' /\ QueueInv' /\ FifoInv'
  BY <1>1 DEF WakeInv, FullOrFreed, Full, QueueInv, FifoInv
<1> QED  BY <1>2, <1>4, <1>5

LEMMA StepAdmissionInv == AdmissionInv /\ [Next]_vars => AdmissionInv'
<1> SUFFICES ASSUME AdmissionInv, [Next]_vars  PROVE AdmissionInv'
  OBVIOUS
<1>1. ASSUME NEW r \in Requests,
             Arrive(r) \/ Proceed(r) \/ TimeOut(r) \/ SeeCancelled(r) \/ Uncount(r)
      PROVE  AdmissionInv'
  BY <1>1, MoveSteps, TryFailsStep, GrantStep, EnqueueStep, LeaveQueueStep, CountedStep,
     ReleaseSlotStep, BroadcastStep
  DEF Proceed
<1> QED  BY <1>1, EnvironmentStep DEF Next

-----------------------------------------------------------------------------
(* The theorems.                                                           *)

THEOREM AdmissionInvariant == Spec => []AdmissionInv
<1> QED  BY InitAdmissionInv, StepAdmissionInv, PTL DEF Spec

\* Type correctness of admission.
THEOREM TypeCorrect == Spec => []TypeOK
<1>1. AdmissionInv => TypeOK  BY DEF AdmissionInv
<1> QED  BY <1>1, AdmissionInvariant, PTL

\* While no stream falls silent no backend runs more requests than it has slots.
THEOREM NeverOverAdmitted == Streams = {} => (Spec => []NoOverAdmission)
<1> SUFFICES ASSUME Streams = {}  PROVE Spec => []NoOverAdmission
  OBVIOUS
<1>1. AdmissionInv => NoOverAdmission
  BY DEF AdmissionInv, CountInv, NoOverAdmission
<1> QED  BY <1>1, AdmissionInvariant, PTL

\* The counter of a backend never exceeds the requests that will release it,
\* preempted zombies included.
THEOREM NoPhantomLoadEver == Spec => []NoPhantomLoad
<1>1. AdmissionInv => NoPhantomLoad  BY DEF AdmissionInv
<1> QED  BY <1>1, AdmissionInvariant, PTL

\* The counter that decides the priority of a session is exact.
THEOREM InflightAlwaysMatches == Spec => []InflightMatches
<1>1. AdmissionInv => InflightMatches  BY DEF AdmissionInv
<1> QED  BY <1>1, AdmissionInvariant, PTL

\* Requests of one session are let through to the slots in the order they came.
THEOREM SessionsAlwaysFifo == Spec => []SameSessionFifo
<1>1. AdmissionInv => SameSessionFifo
  <2> SUFFICES ASSUME AdmissionInv, NEW k \in Keys, NEW i \in DOMAIN queue[k], NEW j \in DOMAIN queue[k],
                      i < j, SessionOf[queue[k][i]] = SessionOf[queue[k][j]]
               PROVE  pc[queue[k][j]] \notin Past
    BY DEF SameSessionFifo, Past
  <2>1. i \in 1 .. Len(queue[k]) /\ j \in 1 .. Len(queue[k])
    BY QueueShape DEF AdmissionInv
  <2> QED  BY <2>1 DEF AdmissionInv, FifoInv
<1> QED  BY <1>1, AdmissionInvariant, PTL

\* No release falls between the try of a waiter and its sleep unnoticed.
THEOREM ReleaseNeverMissed == Spec => []NoMissedRelease
<1>1. AdmissionInv => NoMissedRelease
  BY DEF AdmissionInv, WakeInv, FullOrFreed, NoMissedRelease
<1> QED  BY <1>1, AdmissionInvariant, PTL

-----------------------------------------------------------------------------
(* Admission implements LeasePool.                                         *)

\* A request has a lease from the grant to the release of its slot.
LEMMA LeaseIs ==
  /\ AdmissionInv => Lease = [r \in Requests |-> IF pc[r] \in Leased THEN at[r] ELSE NoBackend]
  /\ AdmissionInv' => Lease' = [r \in Requests |-> IF pc'[r] \in Leased THEN at'[r] ELSE NoBackend]
<1>1. ASSUME AdmissionInv, NEW r \in Requests
      PROVE  (\E b \in Backends : r \in Holders(b)) <=> pc[r] \in Leased
  BY <1>1 DEF AdmissionInv, TypeOK, LeaseInv, Holders, Leased
<1>2. ASSUME AdmissionInv', NEW r \in Requests
      PROVE  (\E b \in Backends : r \in Holders(b)') <=> pc'[r] \in Leased
  BY <1>2 DEF AdmissionInv, TypeOK, LeaseInv, Holders, Leased
<1> QED  BY <1>1, <1>2 DEF Lease

\* Who waits is in its queue, has no lease and is ahead of itself nowhere.
LEMMA WaitingFacts ==
  ASSUME AdmissionInv, NEW r \in Waiting
  PROVE  /\ r \in Requests /\ at[r] = NoBackend /\ Lease[r] = NoBackend
         /\ \E i \in 1 .. Len(queue[KeyOf[r]]) : queue[KeyOf[r]][i] = r
         /\ pc[r] \in InQueue
<1>1. PICK i \in 1 .. Len(queue[KeyOf[r]]) : queue[KeyOf[r]][i] = r
  BY DEF Waiting, Queued, Contains
<1>2. r \in Requests /\ at[r] = NoBackend /\ pc[r] \notin Leased
  BY DEF Waiting, AdmissionInv, LeaseInv
<1>3. pc[r] \in InQueue
  BY <1>1, <1>2, KeysOfRequests DEF AdmissionInv, QueueInv
<1> QED  BY <1>1, <1>2, <1>3, LeaseIs

\* A step that moves no request into, out of or within a queue or a lease.
LEMMA LeasesStutter ==
  ASSUME AdmissionInv, AdmissionInv', UNCHANGED queue,
         \A q \in Requests : pc'[q] \in Leased <=> pc[q] \in Leased,
         \A q \in Requests : pc[q] \in Leased \/ Queued(q) => at'[q] = at[q]
  PROVE  UNCHANGED Leases!leaseVars
<1>1. Lease' = Lease
  BY LeaseIs
<1>2. ASSUME NEW q \in Requests, Queued(q)  PROVE at'[q] = at[q]
  BY <1>2
<1>3. Waiting' = Waiting
  BY <1>2 DEF Waiting, Queued
<1>4. Ahead' = Ahead
  BY <1>3 DEF Ahead, InFrontOf
<1> QED  BY <1>1, <1>3, <1>4 DEF Leases!leaseVars

\* r does not wait any more, and nobody else changes its place.
LEMMA LeaveLine ==
  ASSUME NEW r \in Requests, Waiting' = Waiting \ {r},
         \A p, q \in Waiting \ {r} : InFrontOf(p, q)' <=> InFrontOf(p, q)
  PROVE  Leases!NoLongerWaits(r)
<1>1. Ahead' = [q \in Requests |-> IF q = r THEN {} ELSE Ahead[q] \ {r}]
  <2> SUFFICES ASSUME NEW q \in Requests
               PROVE  Ahead'[q] = IF q = r THEN {} ELSE Ahead[q] \ {r}
    BY DEF Ahead
  <2>1. Ahead'[q] = {p \in Waiting' : q \in Waiting' /\ SessionOf[p] = SessionOf[q] /\ InFrontOf(p, q)'}
    BY DEF Ahead
  <2>2. Ahead[q] = {p \in Waiting : q \in Waiting /\ SessionOf[p] = SessionOf[q] /\ InFrontOf(p, q)}
    BY DEF Ahead
  <2>3. CASE q \notin Waiting \ {r}
    BY <2>1, <2>2, <2>3
  <2>4. CASE q \in Waiting \ {r}
    BY <2>1, <2>2, <2>4
  <2> QED  BY <2>3, <2>4
<1> QED  BY <1>1 DEF Leases!NoLongerWaits

\* A request is granted a slot: it is the first of its session in its queue, or
\* has never been in the queue.
LEMMA GrantsLease ==
  ASSUME Streams = {}, AdmissionInv, AdmissionInv', NEW r \in Requests, TryAcquire(r)
  PROVE  \E b \in Backends : Leases!Grant(r, b)
<1> USE DEF AdmissionInv
<1>1. PICK b \in Candidates(r) : SlotTaken(b) /\ at' = [at EXCEPT ![r] = b]
  BY DEF TryAcquire
<1>2. b \in Backends /\ KeyOf[r] \in {b, AnyBackend}
  BY <1>1, KeysOfRequests DEF Candidates, Keys
<1>3. UNCHANGED queue /\ pc[r] \in Trying /\ pc' = [pc EXCEPT ![r] = "granted"]
  BY DEF TryAcquire, Goto, queueVars
<1>4. /\ pc'[r] = "granted" /\ at'[r] = b
      /\ \A q \in Requests : q # r => pc'[q] = pc[q] /\ at'[q] = at[q]
  BY <1>1, <1>3 DEF TypeOK
<1>5. Lease[r] = NoBackend
  BY <1>3, LeaseIs DEF Trying, Leased
<1>6. Lease' = [Lease EXCEPT ![r] = b]
  BY <1>4, LeaseIs DEF Leased
<1>7. Leases!HasSlot(b)
  <2>1. ~Full(b)
    BY <1>1 DEF SlotTaken, Zombies, TypeOK
  <2>2. {q \in Requests : Lease[q] = b} = Holders(b)
    BY <1>2, AdmissionAssumption, LeaseIs DEF Holders, Leased
  <2>3. active[b] = Cardinality(Holders(b)) /\ active[b] \in Nat /\ Limit[b] \in Nat
    BY <1>2, AdmissionAssumption DEF CountInv, TypeOK
  <2>4. Limit[b] = 0 \/ Cardinality(Holders(b)) < Limit[b]
    BY <2>1, <2>3 DEF Full
  <2>5. \A S : Leases!Cardinality(S) = Cardinality(S)
    BY Zenon DEF Cardinality, Leases!Cardinality
  <2> QED  BY <2>2, <2>4, <2>5 DEF Leases!HasSlot
<1>8. Ahead[r] = {}
  <2> SUFFICES ASSUME r \in Waiting, NEW q \in Waiting, SessionOf[q] = SessionOf[r], InFrontOf(q, r)
               PROVE  FALSE
    BY DEF Ahead
  <2>1. KeyOf[r] \in Keys /\ DOMAIN queue[KeyOf[r]] = 1 .. Len(queue[KeyOf[r]])
    BY KeysOfRequests, QueueShape
  <2>2. PICK i, j \in 1 .. Len(queue[KeyOf[r]]) :
          i < j /\ queue[KeyOf[r]][i] = q /\ queue[KeyOf[r]][j] = r
    BY <2>1 DEF InFrontOf
  <2>3. pc[r] \notin Past
    BY <2>1, <2>2 DEF FifoInv
  <2>4. pc[r] \in InQueue
    BY WaitingFacts
  <2> QED  BY <1>3, <2>3, <2>4 DEF Trying, InQueue, Past
<1>9. Leases!NoLongerWaits(r)
  <2>1. Waiting' = Waiting \ {r}
    BY <1>2, <1>3, <1>4, AdmissionAssumption DEF Waiting, Queued
  <2> QED  BY <1>3, <2>1, LeaveLine DEF InFrontOf
<1> QED  BY <1>2, <1>5, <1>6, <1>7, <1>8, <1>9 DEF Leases!Grant

\* A request enters its queue behind those of its session.
LEMMA EnqueueJoins ==
  ASSUME AdmissionInv, AdmissionInv', NEW r \in Requests, Enqueue(r)
  PROVE  Leases!Join(r)
<1> USE DEF AdmissionInv
<1> DEFINE k == KeyOf[r]
           n == Len(queue[k])
<1>1. /\ pc[r] = "enqueue" /\ queue' = [queue EXCEPT ![k] = Append(@, r)]
      /\ pc' = [pc EXCEPT ![r] = "loop"] /\ UNCHANGED at
  BY DEF Enqueue, Goto
<1>2. k \in Keys /\ queue[k] \in Seq(Requests) /\ n \in Nat /\ DOMAIN queue[k] = 1 .. n
  BY KeysOfRequests, QueueShape
<1>3. /\ DOMAIN queue'[k] = 1 .. n + 1 /\ Len(queue'[k]) = n + 1 /\ queue'[k][n + 1] = r
      /\ \A i \in 1 .. n : queue'[k][i] = queue[k][i]
      /\ \A j \in Keys : j # k => queue'[j] = queue[j]
  <2>1. queue'[k] = Append(queue[k], r) /\ \A j \in Keys : j # k => queue'[j] = queue[j]
    BY <1>1, <1>2 DEF TypeOK
  <2>2. Len(Append(queue[k], r)) = n + 1
    BY <1>2, AppendProperties
  <2> QED  BY <1>2, <2>1, <2>2, AppendLemma
<1>4. at[r] = NoBackend /\ Lease[r] = NoBackend
  BY <1>1, LeaseIs DEF LeaseInv, Leased
<1>5. \A i \in 1 .. n : queue[k][i] # r
  BY <1>1, <1>2 DEF QueueInv, InQueue
<1>6. r \notin Waiting
  BY <1>5, WaitingFacts
<1>7. Lease' = Lease
  BY <1>1, LeaseIs DEF Leased, TypeOK
<1>8. Waiting' = Waiting \union {r}
  <2>1. Queued(r)'
    BY <1>2, <1>3 DEF Queued, Contains
  <2>2. ASSUME NEW q \in Requests, q # r  PROVE Queued(q)' <=> Queued(q)
    <3>1. CASE KeyOf[q] # k
      BY <1>3, <3>1, KeysOfRequests DEF Queued, Contains
    <3>2. CASE KeyOf[q] = k
      <4>1. ASSUME NEW i \in 1 .. n + 1, queue'[k][i] = q  PROVE i \in 1 .. n /\ queue[k][i] = q
        <5>1. i # n + 1
          BY <1>3, <2>2, <4>1
        <5>2. i \in 1 .. n
          BY <1>2, <5>1
        <5> QED  BY <1>3, <4>1, <5>2
      <4>2. \A i \in 1 .. n : i \in 1 .. n + 1
        BY <1>2
      <4> QED  BY <1>3, <3>2, <4>1, <4>2 DEF Queued, Contains
    <3> QED  BY <3>1, <3>2
  <2> QED  BY <1>1, <1>4, <2>1, <2>2 DEF Waiting
<1>9. ASSUME NEW p \in Waiting, NEW q \in Waiting  PROVE InFrontOf(p, q)' <=> InFrontOf(p, q)
  <2>1. p # r /\ q # r /\ KeyOf[q] \in Keys
    BY <1>6, WaitingFacts, KeysOfRequests
  <2>2. CASE KeyOf[q] # k
    BY <1>3, <2>1, <2>2 DEF InFrontOf
  <2>3. CASE KeyOf[q] = k
    <3>1. ASSUME NEW i \in 1 .. n + 1, queue'[k][i] \in {p, q}
          PROVE  i \in 1 .. n /\ queue'[k][i] = queue[k][i]
      <4>1. i # n + 1
        BY <1>3, <2>1, <3>1
      <4>2. i \in 1 .. n
        BY <1>2, <4>1
      <4> QED  BY <1>3, <4>2
    <3>2. \A i \in 1 .. n : i \in 1 .. n + 1
      BY <1>2
    <3>3. InFrontOf(p, q)' <=> \E i, j \in 1 .. n + 1 : i < j /\ queue'[k][i] = p /\ queue'[k][j] = q
      BY <1>3, <2>3 DEF InFrontOf
    <3>4. InFrontOf(p, q) <=> \E i, j \in 1 .. n : i < j /\ queue[k][i] = p /\ queue[k][j] = q
      BY <1>2, <2>3 DEF InFrontOf
    <3>5. ASSUME NEW i \in 1 .. n, NEW j \in 1 .. n, queue[k][i] = p, queue[k][j] = q
          PROVE  i \in 1 .. n + 1 /\ j \in 1 .. n + 1 /\ queue'[k][i] = p /\ queue'[k][j] = q
      BY <1>3, <3>2, <3>5
    <3>6. ASSUME NEW i \in 1 .. n + 1, NEW j \in 1 .. n + 1, queue'[k][i] = p, queue'[k][j] = q
          PROVE  i \in 1 .. n /\ j \in 1 .. n /\ queue[k][i] = p /\ queue[k][j] = q
      BY <3>1, <3>6
    <3> HIDE DEF n, k
    <3> QED  BY <3>3, <3>4, <3>5, <3>6
  <2> QED  BY <2>2, <2>3
<1>10. ASSUME NEW q \in Waiting  PROVE InFrontOf(q, r)' <=> KeyOf[q] = KeyOf[r]
  <2>1. PICK i \in 1 .. Len(queue[KeyOf[q]]) : queue[KeyOf[q]][i] = q
    BY WaitingFacts
  <2>2. q \in Requests /\ KeyOf[q] \in Keys
    BY WaitingFacts, KeysOfRequests
  <2>3. CASE KeyOf[q] = k
    <3>1. i \in 1 .. n + 1 /\ n + 1 \in 1 .. n + 1 /\ i < n + 1 /\ queue'[k][i] = q
      BY <1>2, <1>3, <2>1, <2>3
    <3> QED  BY <1>3, <2>3, <3>1 DEF InFrontOf
  <2>4. CASE InFrontOf(q, r)'
    <3>1. PICK j \in 1 .. n + 1 : queue'[k][j] = q
      BY <1>3, <2>4 DEF InFrontOf
    <3>2. j \in 1 .. n /\ queue[k][j] = q
      BY <1>2, <1>3, <1>6, <3>1
    <3> QED  BY <1>2, <2>4, <3>2 DEF QueueInv
  <2> QED  BY <2>3, <2>4
<1>11. ASSUME NEW q \in Waiting  PROVE ~InFrontOf(r, q)'
  <2>1. SUFFICES ASSUME InFrontOf(r, q)'  PROVE FALSE
    OBVIOUS
  <2>2. q \in Requests /\ KeyOf[q] \in Keys /\ q # r
    BY <1>6, WaitingFacts, KeysOfRequests
  <2>3. CASE KeyOf[q] # k
    <3>1. PICK i \in DOMAIN queue[KeyOf[q]] : queue[KeyOf[q]][i] = r
      BY <1>3, <2>1, <2>2, <2>3 DEF InFrontOf
    <3>2. KeyOf[r] = KeyOf[q]
      BY <2>2, <3>1, QueueShape DEF QueueInv
    <3> QED  BY <2>3, <3>2
  <2>4. CASE KeyOf[q] = k
    <3>1. PICK i, j \in 1 .. n + 1 : i < j /\ queue'[k][i] = r
      BY <1>3, <2>1, <2>4 DEF InFrontOf
    <3>2. i \in 1 .. n
      BY <1>2, <3>1
    <3> QED  BY <1>3, <1>5, <3>1, <3>2
  <2> QED  BY <2>3, <2>4
<1>12. ~InFrontOf(r, r)'
  <2>1. SUFFICES ASSUME NEW i \in 1 .. n + 1, NEW j \in 1 .. n + 1, i < j, queue'[k][i] = r  PROVE FALSE
    BY <1>3 DEF InFrontOf
  <2>2. i \in 1 .. n
    BY <1>2, <2>1
  <2> QED  BY <1>3, <1>5, <2>1, <2>2
<1>13. Ahead' = [Ahead EXCEPT ![r] =
                   {q \in Waiting : SessionOf[q] = SessionOf[r] /\ KeyOf[q] = KeyOf[r]}]
  <2> SUFFICES ASSUME NEW q \in Requests
               PROVE  Ahead'[q] = IF q = r THEN {p \in Waiting : SessionOf[p] = SessionOf[r]
                                                                 /\ KeyOf[p] = KeyOf[r]}
                                  ELSE Ahead[q]
    BY DEF Ahead
  <2>1. Ahead'[q] = {p \in Waiting' : q \in Waiting' /\ SessionOf[p] = SessionOf[q] /\ InFrontOf(p, q)'}
    BY DEF Ahead
  <2>2. Ahead[q] = {p \in Waiting : q \in Waiting /\ SessionOf[p] = SessionOf[q] /\ InFrontOf(p, q)}
    BY DEF Ahead
  <2>3. CASE q = r
    BY <1>8, <1>10, <1>12, <2>1, <2>3
  <2>4. CASE q \in Waiting
    BY <1>6, <1>8, <1>9, <1>11, <2>1, <2>2, <2>4
  <2>5. CASE q # r /\ q \notin Waiting
    BY <1>8, <2>1, <2>2, <2>5
  <2> QED  BY <2>3, <2>4, <2>5
<1> QED  BY <1>4, <1>6, <1>7, <1>8, <1>13 DEF Leases!Join

\* A waiter gives up, or one with a lease is taken out of the queue.
LEMMA LeaveWithdraws ==
  ASSUME AdmissionInv, AdmissionInv', NEW r \in Requests, LeaveQueue(r)
  PROVE  Leases!Withdraw(r) \/ UNCHANGED Leases!leaseVars
<1> USE DEF AdmissionInv
<1> DEFINE k == KeyOf[r]
           rest == Without(queue[k], r)
<1>1. /\ pc[r] \in {"giveup", "dequeue"} /\ queue' = [queue EXCEPT ![k] = rest] /\ UNCHANGED at
      /\ pc' = [pc EXCEPT ![r] = IF pc[r] = "giveup" THEN "idle" ELSE "running"]
  BY DEF LeaveQueue, Goto
<1>2. k \in Keys /\ queue[k] \in Seq(Requests) /\ DOMAIN queue[k] = 1 .. Len(queue[k]) /\ Once(queue[k])
      /\ Len(queue[k]) \in Nat
  BY KeysOfRequests, QueueShape DEF QueueInv
<1>3. queue'[k] = rest /\ \A j \in Keys : j # k => queue'[j] = queue[j]
  BY <1>1, <1>2 DEF TypeOK
<1> HIDE DEF rest
<1>4. rest \in Seq(Requests) /\ LeftOf(rest, queue[k], r)
  BY <1>2, WithoutLemma DEF rest
<1>5. DOMAIN rest = 1 .. Len(rest) /\ Len(rest) \in Nat
  BY <1>4, SeqDomain
<1>6. Lease' = Lease
  BY <1>1, LeaseIs DEF Leased, TypeOK
<1>7. Waiting' = Waiting \ {r}
  <2>1. ~Queued(r)'
    BY <1>3, <1>4 DEF Queued, Contains, LeftOf
  <2>2. ASSUME NEW q \in Requests, q # r  PROVE Queued(q)' <=> Queued(q)
    <3>1. CASE KeyOf[q] # k
      BY <1>3, <3>1, KeysOfRequests DEF Queued, Contains
    <3>2. CASE KeyOf[q] = k
      <4>1. ASSUME NEW i \in 1 .. Len(queue[k]), queue[k][i] = q
            PROVE  \E j \in 1 .. Len(rest) : rest[j] = q
        BY <1>2, <1>4, <1>5, <2>2, <4>1 DEF LeftOf
      <4>2. ASSUME NEW j \in 1 .. Len(rest), rest[j] = q
            PROVE  \E i \in 1 .. Len(queue[k]) : queue[k][i] = q
        BY <1>4, <4>2 DEF LeftOf
      <4> QED  BY <1>3, <3>2, <4>1, <4>2 DEF Queued, Contains
    <3> QED  BY <3>1, <3>2
  <2> QED  BY <1>1, <2>1, <2>2 DEF Waiting
<1>8. ASSUME NEW p \in Waiting \ {r}, NEW q \in Waiting \ {r}
      PROVE  InFrontOf(p, q)' <=> InFrontOf(p, q)
  <2>1. p # r /\ q # r /\ KeyOf[q] \in Keys
    BY WaitingFacts, KeysOfRequests
  <2>2. CASE KeyOf[q] # k
    BY <1>3, <2>1, <2>2 DEF InFrontOf
  <2>3. CASE KeyOf[q] = k
    <3>1. InFrontOf(p, q)' <=> Precedes(rest, p, q)
      BY <1>3, <1>5, <2>3 DEF InFrontOf, Precedes
    <3>2. InFrontOf(p, q) <=> Precedes(queue[k], p, q)
      BY <1>2, <2>3 DEF InFrontOf, Precedes
    <3>3. Precedes(rest, p, q) <=> Precedes(queue[k], p, q)
      BY <1>2, <2>1, WithoutKeepsOrder DEF rest
    <3> QED  BY <3>1, <3>2, <3>3
  <2> QED  BY <2>2, <2>3
<1>9. Leases!NoLongerWaits(r)
  BY <1>7, <1>8, LeaveLine
<1>10. CASE r \in Waiting
  BY <1>6, <1>9, <1>10 DEF Leases!Withdraw
<1>11. CASE r \notin Waiting
  <2>1. Waiting' = Waiting
    BY <1>7, <1>11
  <2>2. Ahead' = Ahead
    <3>1. \A q \in Requests : (IF q = r THEN {} ELSE Ahead[q] \ {r}) = Ahead[q]
      BY <1>11 DEF Ahead
    <3>2. Ahead' = [q \in Requests |-> IF q = r THEN {} ELSE Ahead[q] \ {r}]
      BY <1>9 DEF Leases!NoLongerWaits
    <3>3. Ahead = [q \in Requests |-> Ahead[q]]
      BY DEF Ahead
    <3> QED  BY <3>1, <3>2, <3>3
  <2> QED  BY <1>6, <2>1, <2>2 DEF Leases!leaseVars
<1> QED  BY <1>10, <1>11

\* A slot is given back by the request that has it.
LEMMA ReleaseReturns ==
  ASSUME AdmissionInv, AdmissionInv', NEW r \in Requests, ReleaseSlot(r)
  PROVE  Leases!Return(r)
<1> USE DEF AdmissionInv
<1>1. pc[r] = "uncounted" /\ pc' = [pc EXCEPT ![r] = "freed"] /\ UNCHANGED <<queue, at>>
  BY DEF ReleaseSlot, Goto, queueVars
<1>2. Lease[r] # NoBackend
  BY <1>1, LeaseIs DEF LeaseInv, Leased
<1>3. Lease' = [Lease EXCEPT ![r] = NoBackend]
  <2>1. /\ pc'[r] = "freed" /\ \A q \in Requests : q # r => pc'[q] = pc[q]
        /\ at' = at /\ "freed" \notin Leased
    BY <1>1 DEF TypeOK, Leased
  <2> QED  BY <2>1, LeaseIs
<1>4. Waiting' = Waiting /\ Ahead' = Ahead
  BY <1>1 DEF Waiting, Ahead, Queued, InFrontOf
<1> QED  BY <1>2, <1>3, <1>4 DEF Leases!Return

\* The other steps are seen by nobody who waits or has a lease.
LEMMA OthersStutter ==
  ASSUME AdmissionInv, AdmissionInv',
         \/ \E r \in Requests :
              \/ Arrive(r) \/ TryFails(r) \/ CheckWatermark(r) \/ TakeChannel(r) \/ CheckTurn(r)
              \/ FallAsleep(r) \/ TimeOut(r) \/ Wake(r) \/ SeeCancelled(r)
              \/ MarkInflight(r) \/ MarkServed(r) \/ Uncount(r) \/ Broadcast(r) \/ FallSilent(r)
         \/ \E b \in Backends : ChangeHealth(b)
         \/ \E s \in Sessions : WindowPasses(s)
         \/ UNCHANGED vars
  PROVE  UNCHANGED Leases!leaseVars
<1> USE DEF AdmissionInv, queueVars, Goto
<1>1. ASSUME UNCHANGED <<queue, at, pc>>  PROVE UNCHANGED Leases!leaseVars
  BY <1>1, LeasesStutter
<1>2. ASSUME NEW r \in Requests, NEW l, UNCHANGED queue, pc' = [pc EXCEPT ![r] = l],
             pc[r] \in Leased <=> l \in Leased,
             \A q \in Requests : pc[q] \in Leased \/ Queued(q) => at'[q] = at[q]
      PROVE  UNCHANGED Leases!leaseVars
  BY <1>2, LeasesStutter DEF TypeOK
<1>3. ASSUME NEW r \in Requests,
             \/ Arrive(r) \/ CheckWatermark(r) \/ TakeChannel(r) \/ CheckTurn(r)
             \/ FallAsleep(r) \/ TimeOut(r) \/ Wake(r) \/ SeeCancelled(r)
      PROVE  UNCHANGED Leases!leaseVars
  <2>1. PICK l \in {"first", "now", "idle", "enqueue", "check", "claim", "deadline", "asleep",
                   "giveup", "loop"} :
          pc' = [pc EXCEPT ![r] = l]
    BY <1>3
    DEF Arrive, CheckWatermark, TakeChannel, CheckTurn, FallAsleep, TimeOut, Wake, SeeCancelled
  <2>2. pc[r] \in {"idle", "watermark", "loop", "check", "deadline", "asleep"} /\ UNCHANGED <<queue, at>>
    BY <1>3
    DEF Arrive, CheckWatermark, TakeChannel, CheckTurn, FallAsleep, TimeOut, Wake, SeeCancelled
  <2>3. pc[r] \notin Leased /\ l \notin Leased
    BY <2>1, <2>2 DEF Leased
  <2> QED  BY <1>2, <2>1, <2>2, <2>3
<1>4. ASSUME NEW r \in Requests, TryFails(r)  PROVE UNCHANGED Leases!leaseVars
  <2>1. PICK l : pc' = [pc EXCEPT ![r] = l] /\ pc[r] \notin Leased /\ l \notin Leased
    <3>1. pc[r] \in Trying /\ \E b \in Candidates(r) :
            pc' = [pc EXCEPT ![r] = IF tried[r] \union {b} = Candidates(r) THEN AfterScan(r) ELSE pc[r]]
      BY <1>4 DEF TryFails
    <3>2. pc[r] \notin Leased /\ AfterScan(r) \notin Leased
      BY <3>1 DEF AfterScan, Trying, Leased
    <3> QED  BY <3>1, <3>2
  <2>2. UNCHANGED <<queue, at>>
    BY <1>4 DEF TryFails
  <2> QED  BY <1>2, <2>1, <2>2
<1>5. ASSUME NEW r \in Requests, MarkInflight(r) \/ MarkServed(r) \/ Uncount(r)
      PROVE  UNCHANGED Leases!leaseVars
  <2>1. PICK l : pc' = [pc EXCEPT ![r] = l] /\ pc[r] \in Leased /\ l \in Leased
    BY <1>5 DEF MarkInflight, MarkServed, Uncount, Leased
  <2>2. UNCHANGED <<queue, at>>
    BY <1>5 DEF MarkInflight, MarkServed, Uncount
  <2> QED  BY <1>2, <2>1, <2>2
<1>6. ASSUME NEW r \in Requests, Broadcast(r)  PROVE UNCHANGED Leases!leaseVars
  <2>1. /\ pc[r] = "freed" /\ pc' = [pc EXCEPT ![r] = "idle"] /\ UNCHANGED queue
        /\ at' = [at EXCEPT ![r] = NoBackend]
    BY <1>6 DEF Broadcast
  <2>2. ~Queued(r)
    BY <2>1, KeysOfRequests DEF Queued, Contains, QueueInv, InQueue
  <2>3. \A q \in Requests : pc[q] \in Leased \/ Queued(q) => at'[q] = at[q]
    BY <2>1, <2>2 DEF TypeOK, Leased
  <2> QED  BY <1>2, <2>1, <2>3 DEF Leased
<1>7. ASSUME NEW r \in Requests, FallSilent(r)  PROVE UNCHANGED Leases!leaseVars
  BY <1>1, <1>7 DEF FallSilent
<1>8. ASSUME NEW b \in Backends, ChangeHealth(b)  PROVE UNCHANGED Leases!leaseVars
  BY <1>1, <1>8 DEF ChangeHealth
<1>9. ASSUME NEW s \in Sessions, WindowPasses(s)  PROVE UNCHANGED Leases!leaseVars
  BY <1>1, <1>9 DEF WindowPasses
<1>10. CASE UNCHANGED vars
  BY <1>1, <1>10 DEF vars
<1> QED  BY <1>3, <1>4, <1>5, <1>6, <1>7, <1>8, <1>9, <1>10

LEMMA LeaseInitLemma == Init => Leases!LeaseInit
<1> SUFFICES ASSUME Init  PROVE Leases!LeaseInit
  OBVIOUS
<1>1. Lease = [r \in Requests |-> NoBackend]
  BY DEF Init, Lease
<1>2. Waiting = {}
  <2>1. \A r \in Requests : queue[KeyOf[r]] = <<>> /\ Len(queue[KeyOf[r]]) = 0
    BY KeysOfRequests, EmptySeq DEF Init
  <2> QED  BY <2>1 DEF Waiting, Queued, Contains
<1>3. Ahead = [r \in Requests |-> {}]
  BY <1>2 DEF Ahead
<1> QED  BY <1>1, <1>2, <1>3 DEF Leases!LeaseInit

LEMMA LeaseStep ==
  Streams = {} /\ AdmissionInv /\ AdmissionInv' /\ [Next]_vars
    => [Leases!LeaseNext]_(Leases!leaseVars)
<1> SUFFICES ASSUME Streams = {}, AdmissionInv, AdmissionInv', [Next]_vars
             PROVE  Leases!LeaseNext \/ UNCHANGED Leases!leaseVars
  OBVIOUS
<1>1. ASSUME NEW r \in Requests, TryAcquire(r) \/ Enqueue(r) \/ LeaveQueue(r) \/ ReleaseSlot(r)
      PROVE  Leases!LeaseNext \/ UNCHANGED Leases!leaseVars
  BY <1>1, GrantsLease, EnqueueJoins, LeaveWithdraws, ReleaseReturns DEF Leases!LeaseNext
<1> QED  BY <1>1, OthersStutter DEF Next, Proceed

\* Streams = {} => (Spec => ImplementsLeases): for any requests, sessions and
\* backends, what polls, channels and the look at the turn before the try add up
\* to is a bounded pool of leases that is fair within a session.
THEOREM AdmissionImplementsLeases == Streams = {} => (Spec => ImplementsLeases)
<1> SUFFICES ASSUME Streams = {}  PROVE Spec => ImplementsLeases
  OBVIOUS
<1>1. AdmissionInv /\ AdmissionInv' /\ [Next]_vars => [Leases!LeaseNext]_(Leases!leaseVars)
  BY LeaseStep
<1> QED
  BY <1>1, LeaseInitLemma, AdmissionInvariant, PTL DEF Spec, ImplementsLeases, Leases!LeaseSpec

=============================================================================

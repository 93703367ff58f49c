-------------------------- MODULE WorkerSlotsProofs --------------------------
(***************************************************************************)
(* Proofs about WorkerSlots for every number of callers and of slots.      *)
(***************************************************************************)
EXTENDS WorkerSlots, QueueFacts, SequenceTheorems, TLAPS

LEMMA LeaseIsFunction ==
  Lease = [c \in Callers |-> Lease[c]] /\ Lease' = [c \in Callers |-> Lease'[c]]
BY DEF Lease

LEMMA SlotsAreNotNoSlot == NoSlot \notin Slots
BY NumSlotsAssumption DEF NoSlot, Slots

-----------------------------------------------------------------------------
LEMMA InitSlotsInv == Init => SlotsInv
<1> SUFFICES ASSUME Init  PROVE SlotsInv
  OBVIOUS
<1>1. waiters = <<>> /\ waiters \in Seq(Callers) /\ DOMAIN waiters = {}
  BY EmptySeq DEF Init
<1>2. NoSlot \notin Slots  BY SlotsAreNotNoSlot
<1> QED
  BY <1>1, <1>2 DEF Init, SlotsInv, TypeOK, SeqIdExclusive, NoLostSlot, Lease,
                    WorkConserving, DrainFindsSlot, PCs, Owning

\* Steps that move a call and touch neither the slots nor the queue.
LEMMA QuietStep ==
  ASSUME SlotsInv, NEW c \in Callers,
         \/ Cancel(c) \/ CheckCtx(c) \/ SeeCancelled(c) \/ NotQueued(c)
         \/ RefuseCancelled(c) \/ StartDecode(c) \/ EndDecode(c)
  PROVE  SlotsInv' /\ Lease' = Lease /\ waiters' = waiters
<1> USE DEF SlotsInv, TypeOK, PCs, Owning
<1>1. inUse' = inUse /\ waiters' = waiters /\ box' = box /\ slot' = slot
  BY DEF Cancel, CheckCtx, SeeCancelled, NotQueued, RefuseCancelled,
         StartDecode, EndDecode
<1>2. Lease' = Lease  BY <1>1 DEF Lease
<1>3. TypeOK'
  <2>1. pc' \in [Callers -> PCs]
    BY DEF Cancel, CheckCtx, SeeCancelled, NotQueued, RefuseCancelled, StartDecode, EndDecode
  <2>2. ctxDone' \in [Callers -> BOOLEAN] /\ mu' \in BOOLEAN
    BY DEF Cancel, CheckCtx, SeeCancelled, NotQueued, RefuseCancelled, StartDecode, EndDecode
  <2> QED  BY <1>1, <2>1, <2>2
<1>4. SeqIdExclusive' /\ NoLostSlot' /\ WorkConserving'
  BY <1>1, <1>2 DEF SeqIdExclusive, NoLostSlot, WorkConserving
<1>5. ASSUME NEW d \in Callers
      PROVE  /\ pc'[d] \in Owning <=> pc[d] \in Owning
             /\ pc'[d] \in {"waiting", "cancelling", "draining"} <=>
                 pc[d] \in {"waiting", "cancelling", "draining"}
             /\ pc'[d] \in {"waiting", "cancelling"} =>
                 pc[d] \in {"waiting", "cancelling"}
             /\ pc'[d] = "draining" /\ pc[d] # "draining" => NotQueued(d)
             /\ pc'[d] # pc[d] /\ pc[d] \in {"waiting", "cancelling"} =>
                  NotQueued(d) \/ pc'[d] = "cancelling"
  BY DEF Cancel, CheckCtx, SeeCancelled, NotQueued, RefuseCancelled,
         StartDecode, EndDecode
<1>6. DrainFindsSlot'
  BY <1>1, <1>5 DEF DrainFindsSlot, NotQueued
<1>7. \A i \in DOMAIN waiters :
        /\ waiters[i] \in Callers
        /\ pc'[waiters[i]] \in {"waiting", "cancelling"}
  BY <1>5, SeqDomain DEF NotQueued
<1> QED  BY <1>1, <1>2, <1>3, <1>4, <1>5, <1>6, <1>7

\* A slot moves from the channel into the local variable of the same call.
LEMMA ReceiveStep ==
  ASSUME SlotsInv, NEW c \in Callers, ReceiveSlot(c) \/ Drain(c)
  PROVE  SlotsInv' /\ Lease' = Lease /\ waiters' = waiters
<1> USE DEF SlotsInv, TypeOK, PCs, Owning
<1>1. /\ inUse' = inUse /\ waiters' = waiters /\ mu' = mu
      /\ box[c] # NoSlot /\ box[c] \in Slots /\ slot[c] = NoSlot
      /\ box' = [box EXCEPT ![c] = NoSlot]
      /\ slot' = [slot EXCEPT ![c] = box[c]]
      /\ pc[c] \in {"waiting", "draining"}
      /\ ctxDone' = ctxDone
      /\ \E p \in {"received", "givingBack"} : pc' = [pc EXCEPT ![c] = p]
  <2>1. CASE ReceiveSlot(c)
    BY <2>1 DEF ReceiveSlot
  <2>2. CASE Drain(c)
    <3>1. box[c] # NoSlot /\ pc[c] = "draining"
      BY <2>2 DEF Drain, DrainFindsSlot
    <3>2. pc' = [pc EXCEPT ![c] = "givingBack"] /\ ctxDone' = ctxDone
      BY <2>2, <3>1 DEF Drain
    <3>3. slot[c] = NoSlot /\ box[c] \in Slots
      BY <3>1
    <3> QED  BY <2>2, <3>1, <3>2, <3>3 DEF Drain
  <2> QED  BY <2>1, <2>2
<1>2. TypeOK'
  BY <1>1
<1>3. Lease' = Lease
  <2>1. ASSUME NEW d \in Callers  PROVE Lease'[d] = Lease[d]
    BY <1>1, SlotsAreNotNoSlot DEF Lease
  <2> QED  BY <2>1 DEF Lease
<1>4. SeqIdExclusive' /\ NoLostSlot' /\ WorkConserving'
  BY <1>1, <1>3 DEF SeqIdExclusive, NoLostSlot, WorkConserving
<1>5. \A i \in DOMAIN waiters : waiters[i] \in Callers /\ waiters[i] # c
  BY <1>1, SeqDomain
<1>6. \A d \in Callers : d # c =>
        pc'[d] = pc[d] /\ box'[d] = box[d] /\ slot'[d] = slot[d]
  BY <1>1
<1>7. pc'[c] \in {"received", "givingBack"} /\ box'[c] = NoSlot /\ slot'[c] # NoSlot
  BY <1>1
<1>8. DrainFindsSlot'
  BY <1>6, <1>7 DEF DrainFindsSlot
<1>9. \A d \in Callers :
        /\ slot'[d] # NoSlot <=> pc'[d] \in Owning
        /\ box'[d] # NoSlot => pc'[d] \in {"waiting", "cancelling", "draining"}
        /\ pc'[d] \in {"waiting", "cancelling"} =>
             box'[d] # NoSlot \/ \E i \in DOMAIN waiters : waiters[i] = d
  BY <1>6, <1>7
<1>10. \A i \in DOMAIN waiters :
        pc'[waiters[i]] \in {"waiting", "cancelling"} /\ box'[waiters[i]] = NoSlot
  BY <1>5, <1>6
<1> QED  BY <1>1, <1>2, <1>3, <1>4, <1>8, <1>9, <1>10

LEMMA AcquireFastStep ==
  ASSUME SlotsInv, NEW c \in Callers, AcquireFast(c)
  PROVE  /\ SlotsInv'
         /\ waiters = <<>> /\ waiters' = waiters /\ Lease[c] = NoSlot
         /\ \E s \in Slots : /\ \A d \in Callers : Lease[d] # s
                            /\ Lease' = [Lease EXCEPT ![c] = s]
<1> USE DEF SlotsInv, TypeOK, PCs, Owning
<1>1. PICK s \in Slots :
        /\ ~inUse[s]
        /\ inUse' = [inUse EXCEPT ![s] = TRUE]
        /\ slot' = [slot EXCEPT ![c] = s]
  BY DEF AcquireFast, FindFreeSlot
<1>2. /\ pc[c] = "idle" /\ pc' = [pc EXCEPT ![c] = "holding"]
      /\ \E cancelled \in BOOLEAN : ctxDone' = [ctxDone EXCEPT ![c] = cancelled]
      /\ waiters' = waiters /\ box' = box /\ mu' = mu
  BY DEF AcquireFast
<1>3. box[c] = NoSlot /\ slot[c] = NoSlot /\ s # NoSlot
  BY <1>2, SlotsAreNotNoSlot
<1>4. waiters = <<>> /\ DOMAIN waiters = {}
  BY <1>1, EmptySeq DEF WorkConserving
<1>5. TypeOK'
  BY <1>1, <1>2
<1>6. Lease'[c] = s /\ Lease[c] = NoSlot /\ \A d \in Callers : d # c => Lease'[d] = Lease[d]
  BY <1>1, <1>2, <1>3 DEF Lease
<1>7. \A d \in Callers : Lease[d] # s
  BY <1>1 DEF NoLostSlot
<1>8. SeqIdExclusive'
  BY <1>6, <1>7 DEF SeqIdExclusive
<1>9. NoLostSlot'
  <2>1. ASSUME NEW t \in Slots
        PROVE  inUse'[t] <=> \E d \in Callers : Lease'[d] = t
    <3>1. CASE t = s
      BY <3>1, <1>1, <1>6
    <3>2. CASE t # s
      <4>1. inUse'[t] <=> \E d \in Callers : Lease[d] = t
        BY <3>2, <1>1 DEF NoLostSlot
      <4>2. t # NoSlot  BY SlotsAreNotNoSlot
      <4>3. \A d \in Callers : Lease[d] = t <=> Lease'[d] = t
        BY <3>2, <4>2, <1>6
      <4> QED  BY <4>1, <4>3
    <3> QED  BY <3>1, <3>2
  <2> QED  BY <2>1 DEF NoLostSlot
<1>10. WorkConserving' /\ DrainFindsSlot'
  BY <1>2, <1>4 DEF WorkConserving, DrainFindsSlot
<1>11. Lease' = [Lease EXCEPT ![c] = s]
  BY <1>6, LeaseIsFunction
<1>12. SlotsInv'
  BY <1>1, <1>2, <1>3, <1>4, <1>5, <1>8, <1>9, <1>10
<1> HIDE DEF SlotsInv
<1> QED  BY <1>2, <1>4, <1>6, <1>7, <1>11, <1>12

LEMMA AcquireSlowStep ==
  ASSUME SlotsInv, NEW c \in Callers, AcquireSlow(c)
  PROVE  SlotsInv'
<1> USE DEF SlotsInv, TypeOK, PCs, Owning
<1>1. /\ pc[c] = "idle" /\ pc' = [pc EXCEPT ![c] = "waiting"]
      /\ AllBusy /\ waiters' = Append(waiters, c)
      /\ \E cancelled \in BOOLEAN : ctxDone' = [ctxDone EXCEPT ![c] = cancelled]
      /\ inUse' = inUse /\ box' = box /\ slot' = slot /\ mu' = mu
  BY DEF AcquireSlow
<1>2. box[c] = NoSlot /\ slot[c] = NoSlot
  BY <1>1
<1>3. /\ waiters' \in Seq(Callers)
      /\ DOMAIN waiters = 1 .. Len(waiters) /\ Len(waiters) \in Nat
      /\ DOMAIN waiters' = 1 .. (Len(waiters) + 1)
      /\ \A i \in DOMAIN waiters : waiters'[i] = waiters[i] /\ waiters[i] \in Callers
      /\ waiters'[Len(waiters) + 1] = c
  BY <1>1, AppendLemma, SeqDomain
<1>4. \A i \in DOMAIN waiters : waiters[i] # c
  BY <1>1
<1>5. TypeOK'
  BY <1>1, <1>3
<1>6. Lease' = Lease  BY <1>1 DEF Lease
<1>7. SeqIdExclusive' /\ NoLostSlot' /\ WorkConserving' /\ DrainFindsSlot'
  BY <1>1, <1>6 DEF SeqIdExclusive, NoLostSlot, WorkConserving, DrainFindsSlot, AllBusy
<1>8. \A i \in DOMAIN waiters' : i \in DOMAIN waiters \/ i = Len(waiters) + 1
  BY <1>3
<1>9. \A i \in DOMAIN waiters' :
        pc'[waiters'[i]] \in {"waiting", "cancelling"} /\ box'[waiters'[i]] = NoSlot
  BY <1>1, <1>2, <1>3, <1>4, <1>8
<1>10. \A i, j \in DOMAIN waiters' : waiters'[i] = waiters'[j] => i = j
  BY <1>3, <1>4, <1>8
<1>11. ASSUME NEW d \in Callers, pc'[d] \in {"waiting", "cancelling"}
       PROVE  box'[d] # NoSlot \/ \E i \in DOMAIN waiters' : waiters'[i] = d
  <2>1. CASE d = c
    BY <2>1, <1>3
  <2>2. CASE d # c
    <3>1. box[d] # NoSlot \/ \E i \in DOMAIN waiters : waiters[i] = d
      BY <2>2, <1>1, <1>11
    <3>2. \A i \in DOMAIN waiters : i \in DOMAIN waiters'
      BY <1>3
    <3> QED  BY <1>1, <1>3, <3>1, <3>2
  <2> QED  BY <2>1, <2>2
<1>12. \A d \in Callers :
        /\ slot'[d] # NoSlot <=> pc'[d] \in Owning
        /\ box'[d] # NoSlot => pc'[d] \in {"waiting", "cancelling", "draining"}
  BY <1>1, <1>2
<1> QED  BY <1>5, <1>7, <1>9, <1>10, <1>11, <1>12

LEMMA LeaveQueueStep ==
  ASSUME SlotsInv, NEW c \in Callers, LeaveQueue(c)
  PROVE  SlotsInv'
<1> USE DEF SlotsInv, TypeOK, PCs, Owning
<1>1. PICK i \in DOMAIN waiters :
        waiters[i] = c /\ waiters' = RemoveAt(waiters, i)
  BY DEF LeaveQueue
<1>2. /\ pc[c] = "cancelling" /\ pc' = [pc EXCEPT ![c] = "idle"]
      /\ ctxDone' = [ctxDone EXCEPT ![c] = FALSE]
      /\ inUse' = inUse /\ box' = box /\ slot' = slot /\ mu' = mu
  BY DEF LeaveQueue, Return
<1>3. /\ waiters' \in Seq(Callers)
      /\ DOMAIN waiters = 1 .. Len(waiters) /\ Len(waiters) \in Nat
      /\ DOMAIN waiters' = 1 .. (Len(waiters) - 1)
      /\ \A j \in 1 .. (Len(waiters) - 1) :
           waiters'[j] = IF j < i THEN waiters[j] ELSE waiters[j + 1]
      /\ \A j \in DOMAIN waiters : waiters[j] \in Callers
  BY <1>1, RemoveAtLemma, SeqDomain
<1> DEFINE old(j) == IF j < i THEN j ELSE j + 1
<1>4. \A j \in DOMAIN waiters' :
        old(j) \in DOMAIN waiters /\ old(j) # i /\ waiters'[j] = waiters[old(j)]
  BY <1>1, <1>3
<1>5. TypeOK'
  BY <1>2, <1>3
<1>6. Lease' = Lease  BY <1>2 DEF Lease
<1>7. waiters # <<>>
  BY <1>1, EmptySeq
<1>8. SeqIdExclusive' /\ NoLostSlot' /\ WorkConserving' /\ DrainFindsSlot'
  BY <1>2, <1>6, <1>7 DEF SeqIdExclusive, NoLostSlot, WorkConserving, DrainFindsSlot
<1>9. box[c] = NoSlot /\ slot[c] = NoSlot
  BY <1>1, <1>2
<1>10. \A d \in Callers :
        /\ slot'[d] # NoSlot <=> pc'[d] \in Owning
        /\ box'[d] # NoSlot => pc'[d] \in {"waiting", "cancelling", "draining"}
  BY <1>2, <1>9
<1>11. \A j \in DOMAIN waiters' : waiters'[j] \in Callers /\ waiters'[j] # c
  BY <1>1, <1>3, <1>4
<1>12. \A j \in DOMAIN waiters' :
        pc'[waiters'[j]] \in {"waiting", "cancelling"} /\ box'[waiters'[j]] = NoSlot
  BY <1>2, <1>4, <1>11
<1>13. \A j, k \in DOMAIN waiters' : waiters'[j] = waiters'[k] => j = k
  <2>1. \A j, k \in DOMAIN waiters' : old(j) = old(k) => j = k
    BY <1>1, <1>3
  <2> QED  BY <1>4, <2>1
<1>14. ASSUME NEW d \in Callers, pc'[d] \in {"waiting", "cancelling"}
       PROVE  box'[d] # NoSlot \/ \E j \in DOMAIN waiters' : waiters'[j] = d
  <2>1. d # c /\ pc'[d] = pc[d] /\ box'[d] = box[d]
    BY <1>2, <1>14
  <2>2. CASE box[d] # NoSlot
    BY <2>1, <2>2
  <2>3. ASSUME NEW k \in DOMAIN waiters, waiters[k] = d
        PROVE  \E j \in DOMAIN waiters' : waiters'[j] = d
    <3>1. k # i  BY <2>1, <2>3, <1>1
    <3>2. CASE k < i
      <4>1. k \in DOMAIN waiters' /\ old(k) = k  BY <3>2, <1>1, <1>3
      <4> QED  BY <4>1, <1>4, <2>3
    <3>3. CASE k > i
      <4>1. k - 1 \in DOMAIN waiters' /\ old(k - 1) = k  BY <3>3, <1>1, <1>3
      <4> QED  BY <4>1, <1>4, <2>3
    <3> QED  BY <3>1, <3>2, <3>3, <1>1, <1>3
  <2> QED  BY <1>14, <2>1, <2>2, <2>3
<1> QED  BY <1>5, <1>8, <1>10, <1>12, <1>13, <1>14

\* What GiveBack and Release have in common: the slot leaves the call, for the
\* head of the queue or for the pool.
LEMMA ReleaseFacts ==
  ASSUME SlotsInv, NEW c \in Callers, GiveBack(c) \/ Release(c)
  PROVE  /\ pc[c] \in {"givingBack", "leaving"} /\ pc' = [pc EXCEPT ![c] = "idle"]
         /\ ctxDone' = [ctxDone EXCEPT ![c] = FALSE] /\ mu' = mu
         /\ slot' = [slot EXCEPT ![c] = NoSlot]
         /\ slot[c] \in Slots /\ slot[c] # NoSlot /\ box[c] = NoSlot
         /\ \/ /\ waiters # <<>> /\ waiters' = Tail(waiters) /\ inUse' = inUse
               /\ box' = [box EXCEPT ![Head(waiters)] = slot[c]]
            \/ /\ waiters = <<>> /\ waiters' = waiters /\ box' = box
               /\ inUse' = [inUse EXCEPT ![slot[c]] = FALSE]
<1>1. /\ pc[c] \in {"givingBack", "leaving"} /\ pc' = [pc EXCEPT ![c] = "idle"]
      /\ ctxDone' = [ctxDone EXCEPT ![c] = FALSE] /\ mu' = mu /\ ReleaseInternal(c)
  BY DEF GiveBack, Release, Return
<1>2. slot[c] \in Slots /\ slot[c] # NoSlot /\ box[c] = NoSlot
  BY <1>1 DEF SlotsInv, TypeOK, Owning
<1> QED  BY <1>1, <1>2 DEF ReleaseInternal

LEMMA PutBackStep ==
  ASSUME SlotsInv, NEW c \in Callers, GiveBack(c) \/ Release(c), waiters = <<>>
  PROVE  SlotsInv' /\ Lease' = [Lease EXCEPT ![c] = NoSlot]
<1> USE DEF SlotsInv, TypeOK, PCs, Owning
<1>1. /\ pc[c] \in {"givingBack", "leaving"} /\ pc' = [pc EXCEPT ![c] = "idle"]
      /\ ctxDone' = [ctxDone EXCEPT ![c] = FALSE] /\ mu' = mu
      /\ slot' = [slot EXCEPT ![c] = NoSlot]
      /\ slot[c] \in Slots /\ slot[c] # NoSlot /\ box[c] = NoSlot
      /\ waiters' = waiters /\ box' = box
      /\ inUse' = [inUse EXCEPT ![slot[c]] = FALSE]
  BY ReleaseFacts
<1>2. DOMAIN waiters = {}  BY EmptySeq
<1>3. TypeOK'  BY <1>1
<1>4. /\ Lease[c] = slot[c] /\ Lease'[c] = NoSlot
      /\ \A d \in Callers : d # c => Lease'[d] = Lease[d]
  BY <1>1 DEF Lease
<1>5. Lease' = [Lease EXCEPT ![c] = NoSlot]
  BY <1>4, LeaseIsFunction
<1>6. SeqIdExclusive'  BY <1>4 DEF SeqIdExclusive
<1>7. ASSUME NEW t \in Slots
      PROVE  inUse'[t] <=> \E d \in Callers : Lease'[d] = t
  <2>1. t # NoSlot  BY SlotsAreNotNoSlot
  <2>2. CASE t = slot[c]
    <3>1. \A d \in Callers : d # c => Lease[d] # t
      BY <2>2, <1>1, <1>4 DEF SeqIdExclusive
    <3> QED  BY <2>1, <2>2, <3>1, <1>1, <1>4
  <2>3. CASE t # slot[c]
    <3>1. \A d \in Callers : Lease'[d] = t <=> Lease[d] = t
      BY <2>1, <2>3, <1>4
    <3> QED  BY <2>3, <3>1, <1>1 DEF NoLostSlot
  <2> QED  BY <2>2, <2>3
<1>8. NoLostSlot' /\ WorkConserving' /\ DrainFindsSlot'
  BY <1>1, <1>7 DEF NoLostSlot, WorkConserving, DrainFindsSlot
<1> QED  BY <1>1, <1>2, <1>3, <1>5, <1>6, <1>8

LEMMA HandOverStep ==
  ASSUME SlotsInv, NEW c \in Callers, GiveBack(c) \/ Release(c), waiters # <<>>
  PROVE  /\ SlotsInv'
         /\ Lease' = [Lease EXCEPT ![c] = NoSlot, ![Head(waiters)] = Lease[c]]
<1> USE DEF SlotsInv, TypeOK, PCs, Owning
<1> DEFINE h == Head(waiters)
<1>1. /\ pc[c] \in {"givingBack", "leaving"} /\ pc' = [pc EXCEPT ![c] = "idle"]
      /\ ctxDone' = [ctxDone EXCEPT ![c] = FALSE] /\ mu' = mu
      /\ slot' = [slot EXCEPT ![c] = NoSlot]
      /\ slot[c] \in Slots /\ slot[c] # NoSlot /\ box[c] = NoSlot
      /\ waiters' = Tail(waiters) /\ inUse' = inUse
      /\ box' = [box EXCEPT ![h] = slot[c]]
  BY ReleaseFacts
<1>2. /\ h = waiters[1] /\ h \in Callers /\ waiters' \in Seq(Callers)
      /\ DOMAIN waiters = 1 .. Len(waiters) /\ Len(waiters) \in Nat
      /\ 1 \in DOMAIN waiters
      /\ DOMAIN waiters' = 1 .. (Len(waiters) - 1)
      /\ \A i \in 1 .. (Len(waiters) - 1) : waiters'[i] = waiters[i + 1]
      /\ \A i \in DOMAIN waiters : waiters[i] \in Callers
  BY <1>1, PopLemma, SeqDomain
<1> HIDE DEF h
<1>3. /\ pc[h] \in {"waiting", "cancelling"} /\ box[h] = NoSlot /\ slot[h] = NoSlot
      /\ h # c
  BY <1>1, <1>2
<1>4. TypeOK'  BY <1>1, <1>2
<1>5. /\ Lease[c] = slot[c] /\ Lease[h] = NoSlot
      /\ Lease'[c] = NoSlot /\ Lease'[h] = slot[c]
      /\ \A d \in Callers : d # c /\ d # h => Lease'[d] = Lease[d]
  BY <1>1, <1>2, <1>3 DEF Lease
<1>6. Lease' = [Lease EXCEPT ![c] = NoSlot, ![h] = Lease[c]]
  BY <1>2, <1>3, <1>5, LeaseIsFunction
<1>7. SeqIdExclusive'  BY <1>1, <1>5 DEF SeqIdExclusive
<1>8. ASSUME NEW t \in Slots
      PROVE  inUse'[t] <=> \E d \in Callers : Lease'[d] = t
  <2>1. t # NoSlot  BY SlotsAreNotNoSlot
  <2>2. (\E d \in Callers : Lease[d] = t) <=> \E d \in Callers : Lease'[d] = t
    <3>1. CASE t = slot[c]  BY <3>1, <1>2, <1>5
    <3>2. CASE t # slot[c]
      <4>1. \A d \in Callers : Lease'[d] = t <=> Lease[d] = t
        BY <2>1, <3>2, <1>5
      <4> QED  BY <4>1
    <3> QED  BY <3>1, <3>2
  <2> QED  BY <2>2, <1>1 DEF NoLostSlot
<1>9. NoLostSlot' /\ WorkConserving'
  BY <1>1, <1>8 DEF NoLostSlot, WorkConserving
<1>10. /\ pc'[c] = "idle" /\ pc'[h] = pc[h] /\ box'[c] = NoSlot
       /\ box'[h] # NoSlot /\ slot'[h] = NoSlot /\ slot'[c] = NoSlot
       /\ \A d \in Callers : d # c /\ d # h =>
            pc'[d] = pc[d] /\ box'[d] = box[d] /\ slot'[d] = slot[d]
  BY <1>1, <1>2, <1>3
<1>11. DrainFindsSlot'
  BY <1>10 DEF DrainFindsSlot
<1>12. \A d \in Callers :
         /\ slot'[d] # NoSlot <=> pc'[d] \in Owning
         /\ box'[d] # NoSlot => pc'[d] \in {"waiting", "cancelling", "draining"}
  BY <1>3, <1>10
<1>13. \A i \in DOMAIN waiters' :
         /\ i + 1 \in DOMAIN waiters /\ waiters'[i] = waiters[i + 1]
         /\ waiters'[i] \in Callers /\ waiters'[i] # h
  BY <1>2, SMTT(30)
<1>14. \A i \in DOMAIN waiters' :
         pc'[waiters'[i]] \in {"waiting", "cancelling"} /\ box'[waiters'[i]] = NoSlot
  <2>1. \A i \in DOMAIN waiters' :
          pc[waiters'[i]] \in {"waiting", "cancelling"} /\ box[waiters'[i]] = NoSlot
    BY <1>13
  <2> QED  BY <2>1, <1>1, <1>10, <1>13
<1>15. \A i, j \in DOMAIN waiters' : waiters'[i] = waiters'[j] => i = j
  <2>1. \A i, j \in DOMAIN waiters' : waiters[i + 1] = waiters[j + 1] => i + 1 = j + 1
    BY <1>13
  <2> QED  BY <2>1, <1>2, <1>13
<1>16. ASSUME NEW d \in Callers, pc'[d] \in {"waiting", "cancelling"}
       PROVE  box'[d] # NoSlot \/ \E i \in DOMAIN waiters' : waiters'[i] = d
  <2>1. CASE d = h  BY <2>1, <1>10
  <2>2. CASE d # h
    <3>1. d # c /\ pc[d] = pc'[d] /\ box'[d] = box[d]  BY <2>2, <1>10, <1>16
    <3>2. ASSUME NEW k \in DOMAIN waiters, waiters[k] = d
          PROVE  \E i \in DOMAIN waiters' : waiters'[i] = d
      <4>1. k - 1 \in DOMAIN waiters' /\ (k - 1) + 1 = k  BY <2>2, <3>2, <1>2
      <4> QED  BY <4>1, <3>2, <1>2
    <3> QED  BY <3>1, <3>2, <1>16
  <2> QED  BY <2>1, <2>2
<1> QED  BY <1>4, <1>6, <1>7, <1>9, <1>11, <1>12, <1>14, <1>15, <1>16 DEF h

-----------------------------------------------------------------------------
LEMMA SlotsInvStep == SlotsInv /\ [Next]_vars => SlotsInv'
<1> SUFFICES ASSUME SlotsInv, [Next]_vars  PROVE SlotsInv'
  OBVIOUS
<1>1. ASSUME NEW c \in Callers,
             \/ Cancel(c) \/ CheckCtx(c) \/ SeeCancelled(c) \/ NotQueued(c)
             \/ RefuseCancelled(c) \/ StartDecode(c) \/ EndDecode(c)
      PROVE  SlotsInv'
  BY <1>1, QuietStep
<1>2. ASSUME NEW c \in Callers, AcquireFast(c)  PROVE SlotsInv'
  BY <1>2, AcquireFastStep
<1>3. ASSUME NEW c \in Callers, AcquireSlow(c)  PROVE SlotsInv'
  BY <1>3, AcquireSlowStep
<1>4. ASSUME NEW c \in Callers, ReceiveSlot(c) \/ Drain(c)  PROVE SlotsInv'
  BY <1>4, ReceiveStep
<1>5. ASSUME NEW c \in Callers, LeaveQueue(c)  PROVE SlotsInv'
  BY <1>5, LeaveQueueStep
<1>6. ASSUME NEW c \in Callers, GiveBack(c) \/ Release(c)  PROVE SlotsInv'
  BY <1>6, PutBackStep, HandOverStep
<1>7. CASE UNCHANGED vars
  BY <1>7 DEF vars, SlotsInv, TypeOK, SeqIdExclusive, NoLostSlot, WorkConserving,
              DrainFindsSlot, Lease
<1> QED
  BY <1>1, <1>2, <1>3, <1>4, <1>5, <1>6, <1>7 DEF Next, Waiting, Inferring

\* The inductive invariant holds in every reachable state.
THEOREM SlotsInvariant == Spec => []SlotsInv
<1> QED  BY InitSlotsInv, SlotsInvStep, PTL DEF Spec

\* Type correctness of WorkerSlots for every number of callers and slots.
THEOREM TypeCorrect == Spec => []TypeOK
<1>1. SlotsInv => TypeOK  BY DEF SlotsInv
<1> QED  BY <1>1, SlotsInvariant, PTL

\* No two inference calls own one seq_id, whatever the interleaving of grants,
\* cancellations and releases in SlotManager.
THEOREM SeqIdsExclusive == Spec => []SeqIdExclusive
<1>1. SlotsInv => SeqIdExclusive  BY DEF SlotsInv
<1> QED  BY <1>1, SlotsInvariant, PTL

\* R413 for every instance: a slot in use always has an owner that returns it,
\* so a cancelled waiter never leaks the slot it was granted.
THEOREM SlotsNeverLost == Spec => []NoLostSlot
<1>1. SlotsInv => NoLostSlot  BY DEF SlotsInv
<1> QED  BY <1>1, SlotsInvariant, PTL

\* No slot is free while somebody queues for one.
THEOREM PoolIsWorkConserving == Spec => []WorkConserving
<1>1. SlotsInv => WorkConserving  BY DEF SlotsInv
<1> QED  BY <1>1, SlotsInvariant, PTL

\* The default arm of the cancelled caller's receive is never taken.
THEOREM CancelledCallerFindsSlot == Spec => []DrainFindsSlot
<1>1. SlotsInv => DrainFindsSlot  BY DEF SlotsInv
<1> QED  BY <1>1, SlotsInvariant, PTL

-----------------------------------------------------------------------------
(* WorkerSlots implements SlotPool: Acquire's fast path is Take, joining   *)
(* the queue is Join, leaving it Withdraw, a release HandOver or PutBack;  *)
(* everything else stutters.                                               *)

LEMMA PoolInitLemma == Init => Pool!PoolInit
BY DEF Init, Pool!PoolInit, Lease, NoSlot, Pool!NoSlot

LEMMA PoolStep == SlotsInv /\ [Next]_vars => [Pool!PoolNext]_(Pool!poolVars)
<1> SUFFICES ASSUME SlotsInv, [Next]_vars
             PROVE  [Pool!PoolNext]_(Pool!poolVars)
  OBVIOUS
<1> USE DEF Pool!Slots, Pool!NoSlot, Slots, NoSlot
<1>1. ASSUME NEW c \in Callers,
             \/ Cancel(c) \/ CheckCtx(c) \/ SeeCancelled(c) \/ NotQueued(c)
             \/ RefuseCancelled(c) \/ StartDecode(c) \/ EndDecode(c)
             \/ ReceiveSlot(c) \/ Drain(c)
      PROVE  UNCHANGED Pool!poolVars
  <2>1. Lease' = Lease /\ waiters' = waiters
    BY <1>1, QuietStep, ReceiveStep
  <2> QED  BY <2>1 DEF Pool!poolVars
<1>2. ASSUME NEW c \in Callers, AcquireFast(c)  PROVE Pool!Take(c)
  BY <1>2, AcquireFastStep DEF Pool!Take, Pool!FreeSlots
<1>3. ASSUME NEW c \in Callers, AcquireSlow(c)  PROVE Pool!Join(c)
  <2>1. /\ pc[c] = "idle" /\ AllBusy /\ waiters' = Append(waiters, c)
        /\ box' = box /\ slot' = slot
    BY <1>3 DEF AcquireSlow
  <2>2. Lease[c] = NoSlot /\ Lease' = Lease
    BY <2>1 DEF SlotsInv, Owning, Lease
  <2>3. Pool!FreeSlots = {}
    BY <2>1 DEF SlotsInv, NoLostSlot, AllBusy, Pool!FreeSlots
  <2>4. \A i \in DOMAIN waiters : waiters[i] # c
    BY <2>1 DEF SlotsInv
  <2> QED  BY <2>1, <2>2, <2>3, <2>4 DEF Pool!Join
<1>4. ASSUME NEW c \in Callers, LeaveQueue(c)  PROVE Pool!Withdraw(c)
  BY <1>4 DEF LeaveQueue, Pool!Withdraw, Lease, RemoveAt, Pool!RemoveAt
<1>5. ASSUME NEW c \in Callers, GiveBack(c) \/ Release(c)
      PROVE  Pool!HandOver(c) \/ Pool!PutBack(c)
  <2>1. Lease[c] # NoSlot
    BY <1>5, ReleaseFacts DEF Lease
  <2>2. CASE waiters = <<>>
    <3>1. waiters' = waiters  BY <1>5, <2>2, ReleaseFacts
    <3>2. Lease' = [Lease EXCEPT ![c] = NoSlot]  BY <1>5, <2>2, PutBackStep
    <3> QED  BY <2>1, <2>2, <3>1, <3>2 DEF Pool!PutBack
  <2>3. CASE waiters # <<>>
    <3>1. waiters' = Tail(waiters)  BY <1>5, <2>3, ReleaseFacts
    <3>2. Lease' = [Lease EXCEPT ![c] = NoSlot, ![Head(waiters)] = Lease[c]]
      BY <1>5, <2>3, HandOverStep
    <3> QED  BY <2>1, <2>3, <3>1, <3>2 DEF Pool!HandOver
  <2> QED  BY <2>2, <2>3
<1>6. CASE UNCHANGED vars
  BY <1>6 DEF vars, Pool!poolVars, Lease
<1> QED
  BY <1>1, <1>2, <1>3, <1>4, <1>5, <1>6
     DEF Next, Waiting, Inferring, Pool!PoolNext

\* SlotManager with its channels, contexts and selects implements a first-come
\* first-served pool in which a slot changes hands in one step.
THEOREM WorkerSlotsImplementPool == Spec => ImplementsPool
<1> QED
  BY PoolInitLemma, PoolStep, SlotsInvariant, PTL
     DEF Spec, ImplementsPool, Pool!PoolSpec

=============================================================================

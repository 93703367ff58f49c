----------------------------- MODULE WorkerSlots -----------------------------
(***************************************************************************)
(* internal/cppbackend/slot_manager.go and the inference path of           *)
(* internal/cppbackend/backend.go that uses it: every inference call       *)
(* acquires a seq_id, locks the instance, decodes, unlocks and releases.   *)
(*                                                                         *)
(* One step is one region the code runs under SlotManager.mu, one arm of   *)
(* its select, or one operation on inst.mu.  A caller has one call in      *)
(* flight, so its waiter channel is named after it.                        *)
(***************************************************************************)
EXTENDS Integers, Sequences, SequencesExt

CONSTANTS Callers,   \* goroutines that call Generate* on one loaded model
          NumSlots   \* SlotManager.maxSlots, at least 1 after NewSlotManager

ASSUME NumSlotsAssumption == NumSlots \in Nat \ {0}

VARIABLES inUse,     \* SlotManager.inUse
          waiters,   \* SlotManager.waiters: the callers whose channels queue
          box,       \* box[c]: what the 1-buffered channel of c holds
          pc,        \* where the call of c is
          slot,      \* slot[c]: the local variable slot of the call
          ctxDone,   \* ctxDone[c]: the context of the call is cancelled
          mu         \* inst.mu is locked

vars == <<inUse, waiters, box, pc, slot, ctxDone, mu>>

Slots == 0 .. NumSlots - 1
NoSlot == -1

AllBusy == \A s \in Slots : inUse[s]

\* findFreeSlot: the first free slot, as a set with at most one element.
FindFreeSlot == {s \in Slots : ~inUse[s] /\ \A t \in Slots : t < s => inUse[t]}

Init ==
  /\ inUse = [s \in Slots |-> FALSE]
  /\ waiters = <<>>
  /\ box = [c \in Callers |-> NoSlot]
  /\ pc = [c \in Callers |-> "idle"]
  /\ slot = [c \in Callers |-> NoSlot]
  /\ ctxDone = [c \in Callers |-> FALSE]
  /\ mu = FALSE

\* The call returns to its client; the context ends with the call.
Return(c) ==
  /\ pc' = [pc EXCEPT ![c] = "idle"]
  /\ ctxDone' = [ctxDone EXCEPT ![c] = FALSE]

-----------------------------------------------------------------------------
(* Acquire.  The context may already be cancelled when the call starts.    *)

AcquireFast(c) ==
  /\ pc[c] = "idle"
  /\ \E s \in FindFreeSlot :
       /\ inUse' = [inUse EXCEPT ![s] = TRUE]
       /\ slot' = [slot EXCEPT ![c] = s]
  /\ pc' = [pc EXCEPT ![c] = "holding"]
  /\ \E cancelled \in BOOLEAN : ctxDone' = [ctxDone EXCEPT ![c] = cancelled]
  /\ UNCHANGED <<waiters, box, mu>>

AcquireSlowAtFront(c) ==
  /\ pc[c] = "idle"
  /\ AllBusy
  /\ waiters' = <<c>> \o waiters
  /\ pc' = [pc EXCEPT ![c] = "waiting"]
  /\ \E cancelled \in BOOLEAN : ctxDone' = [ctxDone EXCEPT ![c] = cancelled]
  /\ UNCHANGED <<inUse, box, slot, mu>>

AcquireSlow(c) ==
  /\ pc[c] = "idle"
  /\ AllBusy
  /\ waiters' = Append(waiters, c)
  /\ pc' = [pc EXCEPT ![c] = "waiting"]
  /\ \E cancelled \in BOOLEAN : ctxDone' = [ctxDone EXCEPT ![c] = cancelled]
  /\ UNCHANGED <<inUse, box, slot, mu>>

\* The client goes away at any moment of a call.
Cancel(c) ==
  /\ pc[c] # "idle" /\ ~ctxDone[c]
  /\ ctxDone' = [ctxDone EXCEPT ![c] = TRUE]
  /\ UNCHANGED <<inUse, waiters, box, pc, slot, mu>>

\* select, first arm: slot := <-waiter
ReceiveSlot(c) ==
  /\ pc[c] = "waiting" /\ box[c] # NoSlot
  /\ slot' = [slot EXCEPT ![c] = box[c]]
  /\ box' = [box EXCEPT ![c] = NoSlot]
  /\ pc' = [pc EXCEPT ![c] = "received"]
  /\ UNCHANGED <<inUse, waiters, ctxDone, mu>>

\* ctx.Err() after the receive: a cancelled caller gives the slot back.
CheckCtx(c) ==
  /\ pc[c] = "received"
  /\ pc' = [pc EXCEPT ![c] = IF ctxDone[c] THEN "givingBack" ELSE "holding"]
  /\ UNCHANGED <<inUse, waiters, box, slot, ctxDone, mu>>

\* select, second arm: <-ctx.Done(); SlotManager.mu is not held yet.
SeeCancelled(c) ==
  /\ pc[c] = "waiting" /\ ctxDone[c]
  /\ pc' = [pc EXCEPT ![c] = "cancelling"]
  /\ UNCHANGED <<inUse, waiters, box, slot, ctxDone, mu>>

\* Under the mutex: the waiter is still queued and leaves the queue ...
LeaveQueue(c) ==
  /\ pc[c] = "cancelling"
  /\ \E i \in DOMAIN waiters :
       waiters[i] = c /\ waiters' = RemoveAt(waiters, i)
  /\ Return(c)
  /\ UNCHANGED <<inUse, box, slot, mu>>

\* ... or a release took it off the queue before us.
NotQueued(c) ==
  /\ pc[c] = "cancelling"
  /\ \A i \in DOMAIN waiters : waiters[i] # c
  /\ pc' = [pc EXCEPT ![c] = "draining"]
  /\ UNCHANGED <<inUse, waiters, box, slot, ctxDone, mu>>

\* The non-blocking receive of the cancelled caller: it takes the slot that
\* was sent to it, or its default arm returns with nothing.
DrainDropsSlot(c) ==
  /\ pc[c] = "draining"
  /\ box' = [box EXCEPT ![c] = NoSlot]
  /\ Return(c)
  /\ UNCHANGED <<inUse, waiters, slot, mu>>

Drain(c) ==
  /\ pc[c] = "draining"
  /\ slot' = [slot EXCEPT ![c] = box[c]]
  /\ box' = [box EXCEPT ![c] = NoSlot]
  /\ IF box[c] # NoSlot
     THEN pc' = [pc EXCEPT ![c] = "givingBack"] /\ UNCHANGED ctxDone
     ELSE Return(c)
  /\ UNCHANGED <<inUse, waiters, mu>>

-----------------------------------------------------------------------------
(* releaseInternal: the slot goes to the head of the queue and stays in    *)
(* use, or becomes free.                                                   *)

ReleaseForgetsInUse(c) ==
  /\ inUse' = [inUse EXCEPT ![slot[c]] = FALSE]
  /\ \/ /\ waiters # <<>>
        /\ box' = [box EXCEPT ![Head(waiters)] = slot[c]]
        /\ waiters' = Tail(waiters)
     \/ waiters = <<>> /\ UNCHANGED <<waiters, box>>
  /\ slot' = [slot EXCEPT ![c] = NoSlot]

ReleaseWakesNobody(c) ==
  /\ inUse' = [inUse EXCEPT ![slot[c]] = FALSE]
  /\ slot' = [slot EXCEPT ![c] = NoSlot]
  /\ UNCHANGED <<waiters, box>>

ReleaseInternal(c) ==
  /\ \/ /\ waiters # <<>>
        /\ box' = [box EXCEPT ![Head(waiters)] = slot[c]]
        /\ waiters' = Tail(waiters)
        /\ UNCHANGED inUse
     \/ /\ waiters = <<>>
        /\ inUse' = [inUse EXCEPT ![slot[c]] = FALSE]
        /\ UNCHANGED <<waiters, box>>
  /\ slot' = [slot EXCEPT ![c] = NoSlot]

\* Acquire's two error paths that own a slot.
GiveBack(c) ==
  /\ pc[c] = "givingBack"
  /\ ReleaseInternal(c)
  /\ Return(c)
  /\ UNCHANGED mu

-----------------------------------------------------------------------------
(* The inference call between Acquire and release().                       *)

\* The streaming and the image call look at ctx again before decoding; the
\* plain call has a background context.
RefuseCancelled(c) ==
  /\ pc[c] = "holding" /\ ctxDone[c]
  /\ pc' = [pc EXCEPT ![c] = "leaving"]
  /\ UNCHANGED <<inUse, waiters, box, slot, ctxDone, mu>>

StartDecode(c) ==
  /\ pc[c] = "holding" /\ ~mu
  /\ mu' = TRUE
  /\ pc' = [pc EXCEPT ![c] = "decoding"]
  /\ UNCHANGED <<inUse, waiters, box, slot, ctxDone>>

\* The C call returns and the deferred function unlocks inst.mu ...
EndDecode(c) ==
  /\ pc[c] = "decoding"
  /\ mu' = FALSE
  /\ pc' = [pc EXCEPT ![c] = "leaving"]
  /\ UNCHANGED <<inUse, waiters, box, slot, ctxDone>>

\* ... before the deferred release() runs: defers are last in, first out.
Release(c) ==
  /\ pc[c] = "leaving"
  /\ ReleaseInternal(c)
  /\ Return(c)
  /\ UNCHANGED mu

Waiting(c) ==
  \/ ReceiveSlot(c) \/ CheckCtx(c) \/ SeeCancelled(c) \/ LeaveQueue(c)
  \/ NotQueued(c) \/ Drain(c) \/ GiveBack(c)

Inferring(c) == StartDecode(c) \/ EndDecode(c) \/ Release(c)

Next ==
  \E c \in Callers :
    \/ AcquireFast(c) \/ AcquireSlow(c) \/ Cancel(c)
    \/ Waiting(c) \/ RefuseCancelled(c) \/ Inferring(c)

Spec == Init /\ [][Next]_vars

\* The goroutine of a call keeps running while it is in Acquire.  Nothing is
\* assumed of a call that has its slot: a decode may hang for ever.
FairSpec == Spec /\ \A c \in Callers : WF_vars(Waiting(c))

-----------------------------------------------------------------------------
PCs == {"idle", "waiting", "received", "cancelling", "draining", "givingBack",
        "holding", "decoding", "leaving"}

\* Everything has its type.
TypeOK ==
  /\ inUse \in [Slots -> BOOLEAN]
  /\ waiters \in Seq(Callers)
  /\ box \in [Callers -> Slots \cup {NoSlot}]
  /\ pc \in [Callers -> PCs]
  /\ slot \in [Callers -> Slots \cup {NoSlot}]
  /\ ctxDone \in [Callers -> BOOLEAN]
  /\ mu \in BOOLEAN

\* The seq_id a caller owns: sent to its channel, or in its local variable.
Lease == [c \in Callers |-> IF box[c] # NoSlot THEN box[c] ELSE slot[c]]

\* No two calls ever own one seq_id, whether in use, sent to a channel and
\* not yet received, or on its way back from a cancelled caller: the KV-cache
\* regions of concurrent calls do not overlap.
SeqIdExclusive ==
  \A c, d \in Callers : c # d /\ Lease[c] # NoSlot => Lease[c] # Lease[d]

\* A slot marked in use has an owner that will give it back, and the slot of
\* an owner is marked in use.  R413: a slot granted to a waiter that is being
\* cancelled is not lost.
NoLostSlot ==
  \A s \in Slots : inUse[s] <=> \E c \in Callers : Lease[c] = s

\* A slot is never idle while a call waits in the queue, so the fast path of
\* Acquire overtakes nobody.
WorkConserving ==
  waiters # <<>> => \A s \in Slots : inUse[s]

\* The comment of the cancel arm: a waiter that is no longer in the queue
\* already has its slot in the channel, so the default arm is never taken.
DrainFindsSlot ==
  \A c \in Callers : pc[c] = "draining" => box[c] # NoSlot

\* The inductive invariant: where a slot can be while it is in use, and who is
\* in the queue.
Owning == {"received", "givingBack", "holding", "decoding", "leaving"}

SlotsInv ==
  /\ TypeOK
  /\ SeqIdExclusive /\ NoLostSlot /\ WorkConserving /\ DrainFindsSlot
  /\ \A c \in Callers : slot[c] # NoSlot <=> pc[c] \in Owning
  /\ \A c \in Callers :
       box[c] # NoSlot => pc[c] \in {"waiting", "cancelling", "draining"}
  /\ \A i \in DOMAIN waiters :
       pc[waiters[i]] \in {"waiting", "cancelling"} /\ box[waiters[i]] = NoSlot
  /\ \A i, j \in DOMAIN waiters : waiters[i] = waiters[j] => i = j
  /\ \A c \in Callers :
       pc[c] \in {"waiting", "cancelling"} =>
         box[c] # NoSlot \/ \E i \in DOMAIN waiters : waiters[i] = c

\* If the calls that get a slot give it back (decodes end, and inst.mu, a Go
\* mutex, starves nobody), a queued call is answered: it gets a slot or
\* returns with an error.
WaiterAnswered ==
  (\A c \in Callers : []<>(pc[c] \notin Owning))
    => \A c \in Callers : pc[c] = "waiting" ~> pc[c] \in {"holding", "idle"}

\* The code implements the abstract pool: a send on a waiter channel is the
\* moment the waiter owns the slot.
Pool == INSTANCE SlotPool WITH lease <- Lease, line <- waiters
ImplementsPool == Pool!PoolSpec

=============================================================================

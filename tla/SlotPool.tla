------------------------------ MODULE SlotPool ------------------------------
(***************************************************************************)
(* What the worker promises to its inference calls: a first-come           *)
(* first-served pool of sequence ids.  A call holds at most one seq_id, a  *)
(* seq_id has at most one holder, and a returned seq_id goes to the oldest *)
(* call in the line in the same step.  There is no channel, no context and *)
(* no lock here; WorkerSlots shows that the code implements this.          *)
(***************************************************************************)
EXTENDS Integers, Sequences, SequencesExt

CONSTANTS Callers,   \* the goroutines that run inference on one model
          NumSlots   \* the capacity, SlotManager.maxSlots

VARIABLES lease,     \* lease[c]: the seq_id call c owns, or NoSlot
          line       \* the calls in the line, oldest first

poolVars == <<lease, line>>

Slots == 0 .. NumSlots - 1
NoSlot == -1

FreeSlots == {s \in Slots : \A c \in Callers : lease[c] # s}

PoolInit ==
  /\ lease = [c \in Callers |-> NoSlot]
  /\ line = <<>>

\* A newcomer takes a free seq_id; nobody is overtaken.
Take(c) ==
  /\ lease[c] = NoSlot
  /\ line = <<>>
  /\ \E s \in FreeSlots : lease' = [lease EXCEPT ![c] = s]
  /\ UNCHANGED line

\* A newcomer joins the line; only when nothing is free.
Join(c) ==
  /\ lease[c] = NoSlot
  /\ FreeSlots = {}
  /\ \A i \in DOMAIN line : line[i] # c
  /\ line' = Append(line, c)
  /\ UNCHANGED lease

\* A call in the line gives up.
Withdraw(c) ==
  /\ \E i \in DOMAIN line : line[i] = c /\ line' = RemoveAt(line, i)
  /\ UNCHANGED lease

\* A holder returns its seq_id: to the oldest in the line, or to the pool.
HandOver(c) ==
  /\ lease[c] # NoSlot
  /\ line # <<>>
  /\ lease' = [lease EXCEPT ![c] = NoSlot, ![Head(line)] = lease[c]]
  /\ line' = Tail(line)

PutBack(c) ==
  /\ lease[c] # NoSlot
  /\ line = <<>>
  /\ lease' = [lease EXCEPT ![c] = NoSlot]
  /\ UNCHANGED line

PoolNext ==
  \E c \in Callers :
    Take(c) \/ Join(c) \/ Withdraw(c) \/ HandOver(c) \/ PutBack(c)

PoolSpec == PoolInit /\ [][PoolNext]_poolVars

=============================================================================

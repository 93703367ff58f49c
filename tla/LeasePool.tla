------------------------------ MODULE LeasePool ------------------------------
(***************************************************************************)
(* What admission promises to requests, as long as no stream falls silent: *)
(* every backend has a bounded number of leases, a lease is returned once  *)
(* and by its holder, and the waiting requests of one session that use the *)
(* same queue get their leases in the order in which they began to wait.   *)
(* A newcomer may overtake those who wait, also those of its own session.  *)
(* There are no polls, channels, scans or priorities here; Admission shows *)
(* that the code implements this.                                          *)
(***************************************************************************)
EXTENDS Naturals, FiniteSets

CONSTANTS Requests, SessionOf,   \* SessionOf[r]: whose request r is
          Backends, NoBackend,
          AnyBackend,            \* the queue of those who take any backend
          KeyOf,                 \* KeyOf[r]: the queue of r
          Limit                  \* the leases of a backend, 0 is unlimited

VARIABLES lease,     \* lease[r]: the backend whose slot r has, or NoBackend
          waiting,   \* the requests that wait for a lease
          ahead      \* ahead[r]: those that are served before r

leaseVars == <<lease, waiting, ahead>>

LeaseInit ==
  /\ lease = [r \in Requests |-> NoBackend]
  /\ waiting = {}
  /\ ahead = [r \in Requests |-> {}]

HasSlot(b) == Limit[b] = 0 \/ Cardinality({r \in Requests : lease[r] = b}) < Limit[b]

\* r leaves those who wait, if it was one of them.
NoLongerWaits(r) ==
  /\ waiting' = waiting \ {r}
  /\ ahead' = [q \in Requests |-> IF q = r THEN {} ELSE ahead[q] \ {r}]

Join(r) ==
  /\ lease[r] = NoBackend /\ r \notin waiting
  /\ waiting' = waiting \union {r}
  /\ ahead' = [ahead EXCEPT ![r] =
                 {q \in waiting : SessionOf[q] = SessionOf[r] /\ KeyOf[q] = KeyOf[r]}]
  /\ UNCHANGED lease

\* r gets a lease; a newcomer has nobody ahead of it.
Grant(r, b) ==
  /\ lease[r] = NoBackend /\ ahead[r] = {}
  /\ KeyOf[r] \in {b, AnyBackend} /\ HasSlot(b)
  /\ lease' = [lease EXCEPT ![r] = b]
  /\ NoLongerWaits(r)

\* r gives up: its deadline has passed or its client has gone.
Withdraw(r) ==
  /\ r \in waiting
  /\ NoLongerWaits(r)
  /\ UNCHANGED lease

Return(r) ==
  /\ lease[r] # NoBackend
  /\ lease' = [lease EXCEPT ![r] = NoBackend]
  /\ UNCHANGED <<waiting, ahead>>

LeaseNext ==
  \E r \in Requests :
    Join(r) \/ Withdraw(r) \/ Return(r) \/ \E b \in Backends : Grant(r, b)

LeaseSpec == LeaseInit /\ [][LeaseNext]_leaseVars

=============================================================================

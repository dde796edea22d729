--------------------------- MODULE FairCapacityPool ---------------------------
(***************************************************************************)
(* The bounded pool of src/core/runtime-capacity.ts that hands out cold    *)
(* starts and provider turns.  A request names a room; a granted request   *)
(* holds a lease until it releases it.  Waiting requests sit in one FIFO   *)
(* queue per room, and the rooms are served in rotation.  Nested requests  *)
(* (turns of delegated sessions) may use the Reserved places that ordinary *)
(* requests must leave free.                                               *)
(*                                                                         *)
(* Each handler of the class runs to completion on the event loop, so each *)
(* is one action, its trailing drain() included.                           *)
(***************************************************************************)
EXTENDS PoolRecords

VARIABLE pool  \* the object: its maps and counters, and the leases not yet released

poolVars == <<pool>>

\* No operation makes room for more than two waiting requests: a release can
\* free a general place for another room and a room place for a nested request
\* while a place of the pool is also free.  WorkConserving says that a third
\* turn of the loop would find nobody to serve.  (\E binds each intermediate
\* pool to its value, which TLC then computes once.)
DrainFrom(p) ==
  \E s \in {p} : \E t \in {GrantNext(s)} : pool' = GrantNext(t)

-----------------------------------------------------------------------------
(* The operations *)

\* acquire(room, signal, reserved): the refusals of a closed pool and of a full
\* wait queue change nothing, so they are the guard.
Acquire(q) ==
  /\ ~pool.closed /\ q \notin pool.held /\ ~Queued(pool, q)
  /\ pool.waiting < MaxWaiting - (IF q \in Nested THEN 0 ELSE QueueReserve)
  /\ DrainFrom(Enqueue(pool, q))

\* cancel: the wait deadline passes or the signal aborts.
CancelLeavingCount(q) ==
  /\ Queued(pool, q)
  /\ DrainFrom([Withdraw(pool, q) EXCEPT !.waiting = pool.waiting])

Cancel(q) ==
  /\ Queued(pool, q)
  /\ DrainFrom(Withdraw(pool, q))

\* lease.release(), a no-op after its first call.
ReleaseServingOne(q) ==
  /\ q \in pool.held
  /\ pool' = GrantNext(Vacate(pool, q))

Release(q) ==
  /\ q \in pool.held
  /\ DrainFrom(Vacate(pool, q))

\* close(): every waiter is rejected.
Close ==
  ~pool.closed /\ pool' = ClosedPool(pool)

PoolInit == pool = EmptyPool

PoolNext ==
  \/ \E q \in Request : Acquire(q) \/ Cancel(q) \/ Release(q)
  \/ Close

PoolSpec == PoolInit /\ [][PoolNext]_poolVars

-----------------------------------------------------------------------------
(* Fairness.  A leaf of the delegation tree ends by itself: its provider   *)
(* turn completes, fails or is aborted, and each of these releases.  A     *)
(* parent may hold its place for as long as its children run.              *)

LeavesEnd == \A q \in Nested : WF_poolVars(Release(q))

-----------------------------------------------------------------------------
(* Properties *)

Waiters == WaitersOf(pool)

\* Every field of the pool has its type: no counter goes below zero.
PoolTypeOK == pool \in Pool

\* The leases in use never exceed the pool's and the room's places, ordinary
\* requests never take the last reserved places, and they leave places of the
\* wait queue to nested requests: the limits checked in acquire and drain.
CapacityRespected ==
  /\ Cardinality(pool.held) <= Limit
  /\ Cardinality(General(pool.held)) <= Limit - Reserved
  /\ \A r \in Room :
       /\ Cardinality(InRoom(pool.held, r)) <= PerRoom
       /\ Cardinality(General(InRoom(pool.held, r))) <= PerRoom - RoomReserve
  /\ Cardinality(Waiters) <= MaxWaiting
  /\ Cardinality(General(Waiters)) <= MaxWaiting - QueueReserve

\* The counters that acquire, cancel, drain and release keep by increments are
\* the sizes of what they count, and the Map of rooms holds exactly the rooms
\* with waiters: no path leaks a place or leaves an empty queue behind.
AccountsMatch ==
  /\ LeasesCounted(pool)
  /\ QueuesSorted(pool)
  /\ pool.waiting = Cardinality(Waiters)
  /\ RoomsListed(pool)

\* No operation ends with a place free and a waiting request that may take it:
\* neither a release, nor a cancelled waiter ahead of others, loses a wakeup.
WorkConserving ==
  pool.active < Limit => \A q \in Waiters : ~Eligible(pool, q)

\* Within a room, a request is never granted while an older one of the same
\* kind keeps waiting.
OlderFirst ==
  [][\A r \in Room : \A i, j \in DOMAIN pool.queue[r] :
       LET older == pool.queue[r][i]
           newer == pool.queue[r][j]
       IN (i < j /\ (older \in Nested <=> newer \in Nested) /\ newer \in pool'.held)
            => older \in pool'.held]_poolVars

\* A nested request is served although no ordinary lease is ever released: a
\* parent that holds its turn while it awaits a child cannot block the child.
NestedServed ==
  \A q \in Nested : Queued(pool, q) ~> ~Queued(pool, q)

=============================================================================

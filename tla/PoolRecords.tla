---------------------------- MODULE PoolRecords ----------------------------
(***************************************************************************)
(* The state of a FairCapacityPool of src/core/runtime-capacity.ts as a    *)
(* record, and what each operation of the class makes of it.  One pool     *)
(* hands out the cold starts, and one per provider the provider turns.     *)
(***************************************************************************)
EXTENDS Integers, Sequences, FiniteSets, SequencesExt

CONSTANTS
  Room,        \* the rooms a request can come from
  Request,     \* identities of concurrent requests; one is reused once it is done
  RoomOf,      \* the room of each request
  Nested,      \* the requests acquired with reserved = true
  Limit,       \* leases held at once
  PerRoom,     \* leases held at once by one room
  MaxWaiting,  \* requests waiting at once
  Reserved     \* places only nested requests may take

ASSUME PoolAssumption ==
  /\ RoomOf \in [Request -> Room]
  /\ Nested \subseteq Request
  /\ Limit \in Nat \ {0} /\ PerRoom \in Nat \ {0} /\ MaxWaiting \in Nat \ {0}
  /\ Reserved \in 0 .. (Limit - 1)

Least(a, b) == IF a <= b THEN a ELSE b

\* Places of a room, and of the wait queue, that ordinary requests leave free.
RoomReserve == Least(Least(Reserved, 1), PerRoom - 1)
QueueReserve == Least(Reserved, MaxWaiting - 1)

EmptyPool ==
  [rooms |-> <<>>, queue |-> [r \in Room |-> <<>>], held |-> {},
   active |-> 0, generalActive |-> 0, waiting |-> 0,
   activeRooms |-> [r \in Room |-> 0], generalRooms |-> [r \in Room |-> 0],
   closed |-> FALSE]

Queued(p, q) == q \in Range(p.queue[RoomOf[q]])

-----------------------------------------------------------------------------
(* drain() *)

EligibleWithoutReserve(p, q) == p.activeRooms[RoomOf[q]] < PerRoom

Eligible(p, q) ==
  /\ p.activeRooms[RoomOf[q]] < PerRoom
  /\ \/ q \in Nested
     \/ /\ p.generalActive < Limit - Reserved
        /\ p.generalRooms[RoomOf[q]] < PerRoom - RoomReserve

EligibleAt(p, r) == {k \in DOMAIN p.queue[r] : Eligible(p, p.queue[r][k])}
ServableAt(p) == {i \in DOMAIN p.rooms : EligibleAt(p, p.rooms[i]) # {}}

First(S) == CHOOSE i \in S : \A j \in S : i <= j
IndexIn(s, e) == First({i \in DOMAIN s : s[i] = e})

Adding(f, r, n) == [f EXCEPT ![r] = @ + n]

\* What a lease counts for in the ordinary totals.
OrdinaryShare(q) == IF q \in Nested THEN 0 ELSE 1

Occupy(p, q) ==
  [p EXCEPT !.held = @ \cup {q},
            !.active = @ + 1, !.generalActive = @ + OrdinaryShare(q),
            !.activeRooms = Adding(@, RoomOf[q], 1),
            !.generalRooms = Adding(@, RoomOf[q], OrdinaryShare(q))]

\* splice the waiter out of its room's queue
Unqueue(p, r, k) ==
  [p EXCEPT !.queue[r] = RemoveAt(@, k), !.waiting = @ - 1]

\* delete the room from the Map and, if it still has waiters, insert it again:
\* an insertion goes to the end of the iteration order
StayInPlace(p, i, r) ==
  IF p.queue[r] = <<>> THEN [p EXCEPT !.rooms = RemoveAt(@, i)] ELSE p

Rotate(p, i, r) ==
  [p EXCEPT !.rooms = IF p.queue[r] = <<>> THEN RemoveAt(@, i)
                                           ELSE Append(RemoveAt(@, i), r)]

\* One turn of the loop of drain(); the pool itself when the loop ends.
GrantIgnoringLimit(p) ==
  IF p.closed \/ ServableAt(p) = {} THEN p
  ELSE LET i == First(ServableAt(p))
           r == p.rooms[i]
           k == First(EligibleAt(p, r))
       IN Occupy(Rotate(Unqueue(p, r, k), i, r), p.queue[r][k])

Newest(S) == CHOOSE i \in S : \A j \in S : i >= j

GrantNewest(p) ==
  IF p.closed \/ p.active >= Limit \/ ServableAt(p) = {} THEN p
  ELSE LET i == First(ServableAt(p))
           r == p.rooms[i]
           k == Newest(EligibleAt(p, r))
       IN Occupy(Rotate(Unqueue(p, r, k), i, r), p.queue[r][k])

GrantNext(p) ==
  IF p.closed \/ p.active >= Limit \/ ServableAt(p) = {} THEN p
  ELSE LET i == First(ServableAt(p))
           r == p.rooms[i]
           k == First(EligibleAt(p, r))
       IN Occupy(Rotate(Unqueue(p, r, k), i, r), p.queue[r][k])

-----------------------------------------------------------------------------
(* acquire(), cancel(), release() and close(), without their drain() *)

\* A request joins the queue of its room, and its room the Map.
Enqueue(p, q) ==
  LET r == RoomOf[q]
  IN [p EXCEPT !.queue[r] = Append(@, q), !.waiting = @ + 1,
               !.rooms = IF p.queue[r] = <<>> THEN Append(@, r) ELSE @]

\* A waiter is taken out, and its room with its last waiter.
Withdraw(p, q) ==
  LET r == RoomOf[q]
      s == Unqueue(p, r, IndexIn(p.queue[r], q))
  IN [s EXCEPT !.rooms = IF s.queue[r] = <<>> THEN RemoveAt(@, IndexIn(@, r)) ELSE @]

\* A lease is given back.
Vacate(p, q) ==
  [p EXCEPT !.held = @ \ {q},
            !.active = @ - 1, !.generalActive = @ - OrdinaryShare(q),
            !.activeRooms = Adding(@, RoomOf[q], -1),
            !.generalRooms = Adding(@, RoomOf[q], -OrdinaryShare(q))]

\* Every waiter is rejected; leases in use stay valid.
ClosedPool(p) ==
  [p EXCEPT !.closed = TRUE, !.rooms = <<>>, !.waiting = 0,
            !.queue = [r \in Room |-> <<>>]]

-----------------------------------------------------------------------------
(* What the accounts of a pool are about *)

Pool ==
  [rooms : Seq(Room), queue : [Room -> Seq(Request)], held : SUBSET Request,
   active : Nat, generalActive : Nat, waiting : Nat,
   activeRooms : [Room -> Nat], generalRooms : [Room -> Nat], closed : BOOLEAN]

General(S) == S \ Nested
InRoom(S, r) == {q \in S : RoomOf[q] = r}
WaitersOf(p) == {q \in Request : Queued(p, q)}

LeasesCounted(p) ==
  /\ p.active = Cardinality(p.held)
  /\ p.generalActive = Cardinality(General(p.held))
  /\ \A r \in Room :
       /\ p.activeRooms[r] = Cardinality(InRoom(p.held, r))
       /\ p.generalRooms[r] = Cardinality(General(InRoom(p.held, r)))

QueuesSorted(p) ==
  \A r \in Room :
    /\ IsInjective(p.queue[r])
    /\ \A q \in Range(p.queue[r]) : RoomOf[q] = r /\ q \notin p.held

RoomsListed(p) ==
  /\ IsInjective(p.rooms)
  /\ Range(p.rooms) = {r \in Room : p.queue[r] # <<>>}

============================================================================

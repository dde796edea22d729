----------------------- MODULE FairCapacityPoolProofs -----------------------
(* Proofs about FairCapacityPool for every set of rooms and requests and     *)
(* every limit: counters are exact, limits kept, places used, order kept; and *)
(* about RuntimeCapacity, the registry of one such pool per provider.        *)
EXTENDS FairCapacityPool, RuntimeCapacity, SequenceLemmas

-----------------------------------------------------------------------------
(* Least elements *)

\* drain() and cancel look for the first suitable entry: there is one.
LEMMA FirstIsLeast ==
  ASSUME NEW S \in SUBSET Nat, S # {}
  PROVE  First(S) \in S /\ \A j \in S : First(S) <= j
<1>1. PICK x \in S : \A y \in S : ~ (<<y, x>> \in OpToRel(<, Nat))
  BY WFMin, NatLessThanWellFounded, Zenon
<1>2. \A y \in S : y < x <=> <<y, x>> \in OpToRel(<, Nat)
  BY Zenon DEF OpToRel
<1>3. \A y \in S : ~(y < x)
  BY <1>1, <1>2, Zenon
<1>4. \A y \in S : x <= y
  BY <1>3
<1> QED  BY <1>4 DEF First

-----------------------------------------------------------------------------
(* The inductive invariant: one part about the leases, one about the queues *)

LeasesBounded(p) ==
  /\ p.active <= Limit /\ p.generalActive <= Limit - Reserved
  /\ \A r \in Room : /\ p.activeRooms[r] <= PerRoom
                     /\ p.generalRooms[r] <= PerRoom - RoomReserve

LeaseInv(p) == IsFiniteSet(p.held) /\ LeasesCounted(p) /\ LeasesBounded(p)

QueueInv(p) ==
  /\ \A r \in Room :
       IsInjective(p.queue[r]) /\ \A q \in Range(p.queue[r]) : RoomOf[q] = r
  /\ RoomsListed(p)
  /\ IsFiniteSet(WaitersOf(p)) /\ p.waiting = Cardinality(WaitersOf(p))
  /\ p.waiting <= MaxWaiting
  /\ Cardinality(General(WaitersOf(p))) <= MaxWaiting - QueueReserve

PoolInv(p) ==
  /\ p \in Pool /\ LeaseInv(p) /\ QueueInv(p)
  /\ p.held \cap WaitersOf(p) = {}

-----------------------------------------------------------------------------
(* Leases *)

LEMMA ReserveBounds ==
  /\ Limit \in Nat /\ PerRoom \in Nat /\ MaxWaiting \in Nat /\ Reserved \in Nat
  /\ RoomReserve \in Nat /\ RoomReserve < PerRoom
  /\ QueueReserve \in Nat /\ QueueReserve < MaxWaiting
  /\ Reserved < Limit
  BY PoolAssumption DEF RoomReserve, QueueReserve, Least

LEMMA ShareType == \A q : OrdinaryShare(q) \in {0, 1}
  BY DEF OrdinaryShare

\* Adding a request to a set moves the counts that drain() moves.
LEMMA CountAfterAdding ==
  ASSUME NEW U \in SUBSET Request, IsFiniteSet(U), NEW q \in Request, q \notin U
  PROVE  /\ IsFiniteSet(U \cup {q})
         /\ Cardinality(U) \in Nat /\ Cardinality(General(U)) \in Nat
         /\ Cardinality(U \cup {q}) = Cardinality(U) + 1
         /\ Cardinality(General(U \cup {q})) = Cardinality(General(U)) + OrdinaryShare(q)
<1>1. IsFiniteSet(General(U)) /\ q \notin General(U)
  BY FS_Subset DEF General
<1>2. Cardinality(U) \in Nat /\ Cardinality(General(U)) \in Nat
  BY <1>1, FS_CardinalityType
<1>3. IsFiniteSet(U \cup {q}) /\ Cardinality(U \cup {q}) = Cardinality(U) + 1
  BY FS_AddElement
<1>4. Cardinality(General(U \cup {q})) = Cardinality(General(U)) + OrdinaryShare(q)
  <2>1. CASE q \in Nested
    <3>1. General(U \cup {q}) = General(U)
      BY <2>1 DEF General
    <3> QED  BY <1>2, <2>1, <3>1 DEF OrdinaryShare
  <2>2. CASE q \notin Nested
    <3>1. General(U \cup {q}) = General(U) \cup {q}
      BY <2>2 DEF General
    <3>2. Cardinality(General(U \cup {q})) = Cardinality(General(U)) + 1
      BY <3>1, <1>1, FS_AddElement
    <3> QED  BY <2>2, <3>2 DEF OrdinaryShare
  <2> QED  BY <2>1, <2>2
<1> QED  BY <1>2, <1>3, <1>4

LEMMA RoomCountAfterAdding ==
  ASSUME NEW S \in SUBSET Request, IsFiniteSet(S), NEW q \in Request, q \notin S,
         NEW r \in Room
  PROVE  /\ Cardinality(InRoom(S, r)) \in Nat
         /\ Cardinality(General(InRoom(S, r))) \in Nat
         /\ Cardinality(InRoom(S \cup {q}, r)) =
              Cardinality(InRoom(S, r)) + (IF r = RoomOf[q] THEN 1 ELSE 0)
         /\ Cardinality(General(InRoom(S \cup {q}, r))) =
              Cardinality(General(InRoom(S, r)))
                + (IF r = RoomOf[q] THEN OrdinaryShare(q) ELSE 0)
<1> DEFINE U == InRoom(S, r)
<1>1. U \in SUBSET Request /\ IsFiniteSet(U) /\ q \notin U
  BY FS_Subset DEF InRoom
<1>2. /\ Cardinality(U) \in Nat /\ Cardinality(General(U)) \in Nat
      /\ Cardinality(U \cup {q}) = Cardinality(U) + 1
      /\ Cardinality(General(U \cup {q})) = Cardinality(General(U)) + OrdinaryShare(q)
  BY <1>1, CountAfterAdding
<1>3. InRoom(S \cup {q}, r) = IF r = RoomOf[q] THEN U \cup {q} ELSE U
  BY DEF InRoom
<1> HIDE DEF U
<1> QED  BY <1>2, <1>3 DEF U

LEMMA OccupyFields ==
  ASSUME NEW p \in Pool, NEW q \in Request
  PROVE  LET s == Occupy(p, q)
         IN /\ s \in Pool
            /\ s.rooms = p.rooms /\ s.queue = p.queue /\ s.waiting = p.waiting
            /\ s.closed = p.closed /\ s.held = p.held \cup {q}
            /\ s.active = p.active + 1
            /\ s.generalActive = p.generalActive + OrdinaryShare(q)
            /\ \A r \in Room :
                 /\ s.activeRooms[r] = p.activeRooms[r] + (IF r = RoomOf[q] THEN 1 ELSE 0)
                 /\ s.generalRooms[r] =
                      p.generalRooms[r] + (IF r = RoomOf[q] THEN OrdinaryShare(q) ELSE 0)
<1> DEFINE s == Occupy(p, q)
<1>1. RoomOf[q] \in Room /\ OrdinaryShare(q) \in Nat
  BY PoolAssumption, ShareType
<1>3. /\ s.rooms = p.rooms /\ s.queue = p.queue /\ s.waiting = p.waiting
      /\ s.closed = p.closed /\ s.held = p.held \cup {q}
      /\ s.active = p.active + 1
      /\ s.generalActive = p.generalActive + OrdinaryShare(q)
  BY DEF Occupy, Pool
<1>4. /\ s.activeRooms = Adding(p.activeRooms, RoomOf[q], 1)
      /\ s.generalRooms = Adding(p.generalRooms, RoomOf[q], OrdinaryShare(q))
  BY DEF Occupy, Pool
<1>5. p.activeRooms \in [Room -> Nat] /\ p.generalRooms \in [Room -> Nat]
  BY DEF Pool
<1> HIDE DEF s
<1>6. \A r \in Room :
        /\ s.activeRooms[r] = p.activeRooms[r] + (IF r = RoomOf[q] THEN 1 ELSE 0)
        /\ s.generalRooms[r] =
             p.generalRooms[r] + (IF r = RoomOf[q] THEN OrdinaryShare(q) ELSE 0)
  BY <1>1, <1>4, <1>5 DEF Adding
<1>7. /\ Adding(p.activeRooms, RoomOf[q], 1) \in [Room -> Nat]
      /\ Adding(p.generalRooms, RoomOf[q], OrdinaryShare(q)) \in [Room -> Nat]
  BY <1>1, <1>5 DEF Adding
<1>8. /\ p.held \cup {q} \in SUBSET Request
      /\ p.active + 1 \in Nat /\ p.generalActive + OrdinaryShare(q) \in Nat
  BY <1>1 DEF Pool
<1>9. s \in Pool
  BY <1>7, <1>8, Zenon DEF Occupy, Pool, s
<1> QED  BY <1>9, <1>3, <1>6 DEF s

LEMMA LeaseTaken ==
  ASSUME NEW p \in Pool, LeaseInv(p), NEW q \in Request, q \notin p.held,
         Eligible(p, q), p.active < Limit
  PROVE  LeaseInv(Occupy(p, q))
<1> DEFINE s == Occupy(p, q)
<1>1. /\ s.held = p.held \cup {q}
      /\ s.active = p.active + 1
      /\ s.generalActive = p.generalActive + OrdinaryShare(q)
      /\ \A r \in Room :
           /\ s.activeRooms[r] = p.activeRooms[r] + (IF r = RoomOf[q] THEN 1 ELSE 0)
           /\ s.generalRooms[r] =
                p.generalRooms[r] + (IF r = RoomOf[q] THEN OrdinaryShare(q) ELSE 0)
  BY OccupyFields
<1> HIDE DEF s
<1>2. p.held \in SUBSET Request /\ IsFiniteSet(p.held)
  BY DEF Pool, LeaseInv
<1>3. /\ IsFiniteSet(s.held) /\ s.active = Cardinality(s.held)
      /\ s.generalActive = Cardinality(General(s.held))
  BY <1>1, <1>2, CountAfterAdding DEF LeaseInv, LeasesCounted
<1>4. ASSUME NEW r \in Room
      PROVE  /\ s.activeRooms[r] = Cardinality(InRoom(s.held, r))
             /\ s.generalRooms[r] = Cardinality(General(InRoom(s.held, r)))
  BY <1>1, <1>2, RoomCountAfterAdding DEF LeaseInv, LeasesCounted
<1>5. /\ p.active \in Nat /\ p.generalActive \in Nat
      /\ \A r \in Room : p.activeRooms[r] \in Nat /\ p.generalRooms[r] \in Nat
  BY DEF Pool
<1>6. s.active <= Limit /\ s.generalActive <= Limit - Reserved
  BY <1>1, <1>5, ReserveBounds
  DEF LeaseInv, LeasesBounded, Eligible, OrdinaryShare
<1>7. ASSUME NEW r \in Room
      PROVE  s.activeRooms[r] <= PerRoom /\ s.generalRooms[r] <= PerRoom - RoomReserve
  BY <1>1, <1>5, ReserveBounds
  DEF LeaseInv, LeasesBounded, Eligible, OrdinaryShare
<1> QED  BY <1>3, <1>4, <1>6, <1>7 DEF LeaseInv, LeasesCounted, LeasesBounded, s

\* release() gives back what drain() took.
LEMMA LeaseGiven ==
  ASSUME NEW p \in Pool, LeaseInv(p), NEW q \in p.held
  PROVE  LET s == Vacate(p, q)
         IN /\ s \in Pool /\ LeaseInv(s)
            /\ s.rooms = p.rooms /\ s.queue = p.queue /\ s.waiting = p.waiting
            /\ s.closed = p.closed /\ s.held = p.held \ {q}
<1> DEFINE S == p.held \ {q}
           s == Vacate(p, q)
           r0 == RoomOf[q]
<1>1. /\ q \in Request /\ r0 \in Room /\ OrdinaryShare(q) \in Nat
      /\ S \in SUBSET Request /\ S \cup {q} = p.held /\ q \notin S
  <2>1. p.held \in SUBSET Request
    BY DEF Pool
  <2> QED  BY <2>1, PoolAssumption, ShareType
<1>2. IsFiniteSet(S)
  BY FS_RemoveElement DEF LeaseInv
<1>3. /\ s.rooms = p.rooms /\ s.queue = p.queue /\ s.waiting = p.waiting
      /\ s.closed = p.closed /\ s.held = S
      /\ s.active = p.active - 1
      /\ s.generalActive = p.generalActive - OrdinaryShare(q)
      /\ s.activeRooms = Adding(p.activeRooms, r0, -1)
      /\ s.generalRooms = Adding(p.generalRooms, r0, -OrdinaryShare(q))
  BY DEF Vacate, Pool
<1>4. p.activeRooms \in [Room -> Nat] /\ p.generalRooms \in [Room -> Nat]
  BY DEF Pool
<1> HIDE DEF S, s
<1>5. /\ Cardinality(S) \in Nat /\ p.active = Cardinality(S) + 1
      /\ Cardinality(General(S)) \in Nat
      /\ p.generalActive = Cardinality(General(S)) + OrdinaryShare(q)
  BY <1>1, <1>2, CountAfterAdding DEF LeaseInv, LeasesCounted
<1>6. ASSUME NEW r \in Room
      PROVE  /\ Cardinality(InRoom(S, r)) \in Nat
             /\ Cardinality(General(InRoom(S, r))) \in Nat
             /\ p.activeRooms[r] = Cardinality(InRoom(S, r)) + (IF r = r0 THEN 1 ELSE 0)
             /\ p.generalRooms[r] = Cardinality(General(InRoom(S, r)))
                                      + (IF r = r0 THEN OrdinaryShare(q) ELSE 0)
  <2>1. /\ Cardinality(InRoom(S, r)) \in Nat
        /\ Cardinality(General(InRoom(S, r))) \in Nat
        /\ Cardinality(InRoom(S \cup {q}, r)) =
             Cardinality(InRoom(S, r)) + (IF r = r0 THEN 1 ELSE 0)
        /\ Cardinality(General(InRoom(S \cup {q}, r))) =
             Cardinality(General(InRoom(S, r)))
               + (IF r = r0 THEN OrdinaryShare(q) ELSE 0)
    BY <1>1, <1>2, RoomCountAfterAdding
  <2> QED  BY <1>1, <2>1 DEF LeaseInv, LeasesCounted
<1>7. s.active = Cardinality(S) /\ s.generalActive = Cardinality(General(S))
  BY <1>1, <1>3, <1>5
<1>8. ASSUME NEW r \in Room
      PROVE  /\ s.activeRooms[r] = Cardinality(InRoom(S, r))
             /\ s.generalRooms[r] = Cardinality(General(InRoom(S, r)))
  BY <1>1, <1>3, <1>4, <1>6 DEF Adding
<1>9. s.activeRooms \in [Room -> Nat] /\ s.generalRooms \in [Room -> Nat]
  <2>1. /\ s.activeRooms = [r \in Room |-> s.activeRooms[r]]
        /\ s.generalRooms = [r \in Room |-> s.generalRooms[r]]
    BY <1>3, <1>4 DEF Adding
  <2> QED  BY <2>1, <1>6, <1>8
<1>10. s \in Pool
  <2>1. /\ p.held \ {q} \in SUBSET Request
        /\ p.active - 1 \in Nat /\ p.generalActive - OrdinaryShare(q) \in Nat
    BY <1>1, <1>3, <1>5, <1>7 DEF S
  <2>2. /\ Adding(p.activeRooms, RoomOf[q], -1) \in [Room -> Nat]
        /\ Adding(p.generalRooms, RoomOf[q], -OrdinaryShare(q)) \in [Room -> Nat]
    BY <1>3, <1>9
  <2> QED  BY <2>1, <2>2, Zenon DEF Vacate, Pool, s
<1>11. LeasesBounded(s)
  <2>1. s.active <= Limit /\ s.generalActive <= Limit - Reserved
    BY <1>1, <1>5, <1>7, ReserveBounds DEF LeaseInv, LeasesBounded
  <2>2. ASSUME NEW r \in Room
        PROVE  s.activeRooms[r] <= PerRoom /\ s.generalRooms[r] <= PerRoom - RoomReserve
    BY <1>1, <1>6, <1>8, ReserveBounds DEF LeaseInv, LeasesBounded
  <2> QED  BY <2>1, <2>2 DEF LeasesBounded
<1> QED  BY <1>2, <1>3, <1>7, <1>8, <1>10, <1>11 DEF LeaseInv, LeasesCounted, S, s

-----------------------------------------------------------------------------
(* Queues *)

\* With sorted queues the waiters are the entries of the queues.
LEMMA EntriesWait ==
  ASSUME NEW p \in Pool, QueueInv(p)
  PROVE  /\ \A r \in Room : Range(p.queue[r]) \subseteq WaitersOf(p)
         /\ \A q \in WaitersOf(p) : q \in Request /\ q \in Range(p.queue[RoomOf[q]])
<1>1. ASSUME NEW r \in Room, NEW q \in Range(p.queue[r])
      PROVE  q \in WaitersOf(p)
  <2>1. p.queue[r] \in Seq(Request)
    BY DEF Pool
  <2>2. q \in Request
    BY <2>1 DEF Range
  <2>3. RoomOf[q] = r
    BY DEF QueueInv
  <2> QED  BY <2>2, <2>3 DEF WaitersOf, Queued
<1>2. \A q \in WaitersOf(p) : q \in Request /\ q \in Range(p.queue[RoomOf[q]])
  BY DEF WaitersOf, Queued
<1> QED  BY <1>1, <1>2

\* One entry k of room r, listed at place i, leaves: the room leaves the list
\* with its last waiter, and otherwise stays or goes to the end.
Leaves(p, s, i, r, k) ==
  /\ p \in Pool /\ s \in Pool
  /\ i \in DOMAIN p.rooms /\ r \in Room /\ r = p.rooms[i] /\ k \in DOMAIN p.queue[r]
  /\ s.queue = [p.queue EXCEPT ![r] = RemoveAt(p.queue[r], k)]
  /\ s.waiting = p.waiting - 1
  /\ \/ s.queue[r] = <<>> /\ s.rooms = RemoveAt(p.rooms, i)
     \/ s.queue[r] # <<>> /\ s.rooms = p.rooms
     \/ s.queue[r] # <<>> /\ s.rooms = Append(RemoveAt(p.rooms, i), r)

LEMMA EntryLeaves ==
  ASSUME NEW p, NEW s, NEW i, NEW r, NEW k, QueueInv(p), Leaves(p, s, i, r, k)
  PROVE  QueueInv(s) /\ WaitersOf(s) = WaitersOf(p) \ {p.queue[r][k]}
<1> USE DEF Leaves
<1> DEFINE q == p.queue[r][k]
<1>1. /\ p.queue \in [Room -> Seq(Request)] /\ p.rooms \in Seq(Room)
      /\ s.queue \in [Room -> Seq(Request)]
  BY DEF Pool
<1>2. /\ IsInjective(p.queue[r]) /\ IsInjective(p.rooms)
      /\ Range(p.rooms) = {t \in Room : p.queue[t] # <<>>}
  BY DEF QueueInv, RoomsListed
<1>3. /\ q \in Range(p.queue[r]) /\ q \in Request /\ RoomOf[q] = r
      /\ q \in WaitersOf(p)
  <2>1. q \in Range(p.queue[r])
    BY DEF Range
  <2> HIDE DEF q
  <2> QED  BY <2>1, EntriesWait DEF QueueInv
<1>4. /\ IsInjective(s.queue[r]) /\ Range(s.queue[r]) = Range(p.queue[r]) \ {q}
      /\ \A t \in Room : t # r => s.queue[t] = p.queue[t]
  BY <1>1, <1>2, RemoveAtRange
<1> HIDE DEF q
<1>5. \A t \in Room :
        IsInjective(s.queue[t]) /\ \A x \in Range(s.queue[t]) : RoomOf[x] = t
  BY <1>4 DEF QueueInv
<1>6. WaitersOf(s) = WaitersOf(p) \ {q}
  <2>1. ASSUME NEW x \in Request
        PROVE  x \in WaitersOf(s) <=> x \in WaitersOf(p) /\ x # q
    BY <1>3, <1>4, PoolAssumption DEF WaitersOf, Queued
  <2> QED  BY <2>1 DEF WaitersOf
<1>7. RoomsListed(s)
  <2>1. /\ IsInjective(RemoveAt(p.rooms, i)) /\ RemoveAt(p.rooms, i) \in Seq(Room)
        /\ Range(RemoveAt(p.rooms, i)) = Range(p.rooms) \ {r}
    BY <1>1, <1>2, RemoveAtRange, RemoveAtProperties
  <2>2. r \in Range(p.rooms)
    BY DEF Range
  <2>3. {t \in Room : s.queue[t] # <<>>} =
          IF s.queue[r] = <<>> THEN Range(p.rooms) \ {r} ELSE Range(p.rooms)
    BY <1>2, <1>4, <2>2
  <2>4. CASE s.queue[r] = <<>>
    BY <2>1, <2>3, <2>4 DEF RoomsListed
  <2>5. CASE s.queue[r] # <<>> /\ s.rooms = p.rooms
    BY <1>2, <2>3, <2>5 DEF RoomsListed
  <2>6. CASE s.queue[r] # <<>> /\ s.rooms = Append(RemoveAt(p.rooms, i), r)
    <3>1. /\ IsInjective(s.rooms)
          /\ Range(s.rooms) = (Range(p.rooms) \ {r}) \cup {r}
      BY <2>1, <2>6, AppendRange
    <3> QED  BY <3>1, <2>2, <2>3, <2>6 DEF RoomsListed
  <2> QED  BY <2>4, <2>5, <2>6
<1>8. /\ IsFiniteSet(WaitersOf(s)) /\ s.waiting = Cardinality(WaitersOf(s))
      /\ s.waiting <= MaxWaiting
  <2>1. /\ IsFiniteSet(WaitersOf(s))
        /\ Cardinality(WaitersOf(s)) = Cardinality(WaitersOf(p)) - 1
    BY <1>3, <1>6, FS_RemoveElement DEF QueueInv
  <2>2. p.waiting \in Nat
    BY DEF Pool
  <2> QED  BY <2>1, <2>2, ReserveBounds DEF QueueInv
<1>9. Cardinality(General(WaitersOf(s))) <= MaxWaiting - QueueReserve
  <2>1. /\ General(WaitersOf(s)) \in SUBSET General(WaitersOf(p))
        /\ General(WaitersOf(p)) \in SUBSET WaitersOf(p)
    BY <1>6 DEF General
  <2>2. /\ IsFiniteSet(General(WaitersOf(p)))
        /\ Cardinality(General(WaitersOf(s))) <= Cardinality(General(WaitersOf(p)))
        /\ IsFiniteSet(General(WaitersOf(s)))
    BY <2>1, FS_Subset DEF QueueInv
  <2>3. /\ Cardinality(General(WaitersOf(s))) \in Nat
        /\ Cardinality(General(WaitersOf(p))) \in Nat
    BY <2>2, FS_CardinalityType
  <2> QED  BY <2>2, <2>3, ReserveBounds DEF QueueInv
<1> QED  BY <1>5, <1>6, <1>7, <1>8, <1>9 DEF QueueInv, q

-----------------------------------------------------------------------------
(* Every operation keeps the invariant *)

\* Nobody waits in vain while a place is free.
Settled(p) == p.active < Limit => \A q \in WaitersOf(p) : ~Eligible(p, q)

\* t is p after drain() gave a place to entry k of room r.
Granted(p, t, r, k) ==
  LET q == p.queue[r][k] IN
  /\ q \in WaitersOf(p) /\ Eligible(p, q) /\ p.active < Limit
  /\ \A j \in 1 .. (k - 1) : ~Eligible(p, p.queue[r][j])
  /\ t.queue = [p.queue EXCEPT ![r] = RemoveAt(p.queue[r], k)]
  /\ WaitersOf(t) = WaitersOf(p) \ {q} /\ t.held = p.held \cup {q}
  /\ t.active = p.active + 1 /\ t.closed = p.closed
  /\ t.generalActive = p.generalActive + OrdinaryShare(q)
  /\ \A x \in Room :
       /\ t.activeRooms[x] = p.activeRooms[x] + (IF x = RoomOf[q] THEN 1 ELSE 0)
       /\ t.generalRooms[x] =
            p.generalRooms[x] + (IF x = RoomOf[q] THEN OrdinaryShare(q) ELSE 0)

Grants(p, t) ==
  \/ t = p /\ (p.closed \/ Settled(p))
  \/ \E r \in Room : \E k \in DOMAIN p.queue[r] : Granted(p, t, r, k)

\* drain() overlooks nobody: it looks at every room that has waiters.
LEMMA NobodyOverlooked ==
  ASSUME NEW p, PoolInv(p), ServableAt(p) = {}
  PROVE  Settled(p)
<1> SUFFICES ASSUME NEW q \in WaitersOf(p), Eligible(p, q) PROVE FALSE
  BY DEF Settled
<1> DEFINE r == RoomOf[q]
<1>1. p \in Pool /\ q \in Request /\ r \in Room /\ q \in Range(p.queue[r])
  BY EntriesWait, PoolAssumption DEF PoolInv, WaitersOf
<1> HIDE DEF r
<1>2. PICK k \in DOMAIN p.queue[r] : p.queue[r][k] = q
  BY <1>1 DEF Range
<1>3. p.queue[r] # <<>>
  BY <1>2
<1>4. r \in Range(p.rooms)
  BY <1>1, <1>3 DEF PoolInv, QueueInv, RoomsListed
<1>5. PICK i \in DOMAIN p.rooms : p.rooms[i] = r
  BY <1>4 DEF Range
<1>6. k \in EligibleAt(p, p.rooms[i])
  BY <1>2, <1>5 DEF EligibleAt
<1> QED  BY <1>6 DEF ServableAt

LEMMA GrantStep ==
  ASSUME NEW p, PoolInv(p)
  PROVE  PoolInv(GrantNext(p)) /\ Grants(p, GrantNext(p))
<1>1. CASE p.closed \/ p.active >= Limit \/ ServableAt(p) = {}
  <2>1. GrantNext(p) = p
    BY <1>1 DEF GrantNext
  <2>2. p.active \in Nat
    BY DEF PoolInv, Pool
  <2>3. p.closed \/ Settled(p)
    BY <1>1, <2>2, NobodyOverlooked, ReserveBounds DEF Settled
  <2> QED  BY <2>1, <2>3 DEF Grants
<1>2. CASE ~p.closed /\ ~(p.active >= Limit) /\ ServableAt(p) # {}
  <2> DEFINE i == First(ServableAt(p))
             r == p.rooms[i]
             k == First(EligibleAt(p, r))
             q == p.queue[r][k]
             u == Unqueue(p, r, k)
             s == Rotate(u, i, r)
             t == Occupy(s, q)
  <2>1. /\ p \in Pool /\ p.rooms \in Seq(Room) /\ p.queue \in [Room -> Seq(Request)]
        /\ p.active \in Nat /\ p.waiting \in Nat
    BY DEF PoolInv, Pool
  <2>2. i \in DOMAIN p.rooms /\ EligibleAt(p, r) # {}
    <3>1. ServableAt(p) \in SUBSET Nat
      BY <2>1 DEF ServableAt
    <3>2. i \in ServableAt(p)
      BY <3>1, <1>2, FirstIsLeast
    <3> HIDE DEF i
    <3> QED  BY <3>2 DEF ServableAt
  <2> HIDE DEF i
  <2>3. r \in Room
    BY <2>1, <2>2
  <2> HIDE DEF r
  <2>4. /\ k \in DOMAIN p.queue[r] /\ Eligible(p, q)
        /\ \A j \in 1 .. (k - 1) : ~Eligible(p, p.queue[r][j])
    <3>1. p.queue[r] \in Seq(Request)
      BY <2>1, <2>3
    <3>2. EligibleAt(p, r) \in SUBSET Nat
      BY <3>1 DEF EligibleAt
    <3>3. k \in EligibleAt(p, r) /\ \A j \in EligibleAt(p, r) : k <= j
      BY <3>2, <2>2, FirstIsLeast
    <3> HIDE DEF k
    <3>4. k \in DOMAIN p.queue[r] /\ Eligible(p, q)
      BY <3>3 DEF EligibleAt
    <3>5. ASSUME NEW j \in 1 .. (k - 1) PROVE ~Eligible(p, p.queue[r][j])
      <4>1. j \in DOMAIN p.queue[r] /\ ~(k <= j)
        BY <3>1, <3>4
      <4> QED  BY <4>1, <3>3 DEF EligibleAt
    <3> QED  BY <3>4, <3>5
  <2> HIDE DEF k
  <2>5. q \in WaitersOf(p) /\ q \in Request /\ q \notin p.held
    <3>1. q \in Range(p.queue[r])
      BY <2>4 DEF Range
    <3>2. q \in WaitersOf(p)
      BY <3>1, <2>1, <2>3, EntriesWait DEF PoolInv
    <3> QED  BY <3>2 DEF PoolInv, WaitersOf
  <2>6. p.waiting - 1 \in Nat
    <3>1. IsFiniteSet(WaitersOf(p)) /\ p.waiting = Cardinality(WaitersOf(p))
      BY DEF PoolInv, QueueInv
    <3>2. p.waiting # 0
      BY <3>1, <2>5, FS_EmptySet
    <3> QED  BY <3>2, <2>1
  <2>7. /\ RemoveAt(p.queue[r], k) \in Seq(Request)
        /\ RemoveAt(p.rooms, i) \in Seq(Room)
        /\ Append(RemoveAt(p.rooms, i), r) \in Seq(Room)
    <3>1. RemoveAt(p.queue[r], k) \in Seq(Request) /\ RemoveAt(p.rooms, i) \in Seq(Room)
      BY <2>1, <2>2, <2>3, <2>4, RemoveAtProperties
    <3> QED  BY <3>1, <2>3, AppendProperties
  <2>8. /\ u \in Pool /\ u.rooms = p.rooms /\ u.waiting = p.waiting - 1
        /\ u.queue = [p.queue EXCEPT ![r] = RemoveAt(@, k)]
        /\ u.held = p.held /\ u.active = p.active /\ u.generalActive = p.generalActive
        /\ u.activeRooms = p.activeRooms /\ u.generalRooms = p.generalRooms
        /\ u.closed = p.closed
    BY <2>1, <2>3, <2>6, <2>7 DEF Unqueue, Pool
  <2> HIDE DEF u
  <2>9. /\ s \in Pool /\ s.queue = u.queue /\ s.waiting = u.waiting
        /\ s.rooms = IF u.queue[r] = <<>> THEN RemoveAt(p.rooms, i)
                                          ELSE Append(RemoveAt(p.rooms, i), r)
        /\ s.held = p.held /\ s.active = p.active /\ s.generalActive = p.generalActive
        /\ s.activeRooms = p.activeRooms /\ s.generalRooms = p.generalRooms
        /\ s.closed = p.closed
    BY <2>7, <2>8 DEF Rotate, Pool
  <2> HIDE DEF s
  <2>10. QueueInv(s) /\ WaitersOf(s) = WaitersOf(p) \ {q}
    <3>1. \/ s.queue[r] = <<>> /\ s.rooms = RemoveAt(p.rooms, i)
          \/ s.queue[r] # <<>> /\ s.rooms = Append(RemoveAt(p.rooms, i), r)
      BY <2>9
    <3>2. r = p.rooms[i]
      BY DEF r
    <3>3. /\ s.queue = [p.queue EXCEPT ![r] = RemoveAt(@, k)]
          /\ s.waiting = p.waiting - 1
      BY <2>8, <2>9
    <3>4. QueueInv(p)
      BY DEF PoolInv
    <3>5. /\ p \in Pool /\ s \in Pool /\ i \in DOMAIN p.rooms /\ r \in Room
          /\ k \in DOMAIN p.queue[r]
      BY <2>1, <2>2, <2>3, <2>4, <2>9
    <3>6. Leaves(p, s, i, r, k)
      BY <3>1, <3>2, <3>3, <3>5 DEF Leaves
    <3> QED  BY <3>4, <3>6, EntryLeaves DEF q
  <2>11. LeaseInv(s) /\ Eligible(s, q) /\ s.active < Limit /\ q \notin s.held
    BY <1>2, <2>1, <2>4, <2>5, <2>9, ReserveBounds
    DEF PoolInv, LeaseInv, LeasesCounted, LeasesBounded, Eligible
  <2> HIDE DEF q
  <2>12. /\ t \in Pool /\ t.rooms = s.rooms /\ t.queue = s.queue
         /\ t.waiting = s.waiting /\ t.held = s.held \cup {q} /\ t.closed = s.closed
         /\ t.active = s.active + 1
         /\ t.generalActive = s.generalActive + OrdinaryShare(q)
         /\ \A x \in Room :
              /\ t.activeRooms[x] = s.activeRooms[x] + (IF x = RoomOf[q] THEN 1 ELSE 0)
              /\ t.generalRooms[x] =
                   s.generalRooms[x] + (IF x = RoomOf[q] THEN OrdinaryShare(q) ELSE 0)
    BY <2>5, <2>9, OccupyFields
  <2>13. LeaseInv(t)
    BY <2>5, <2>9, <2>11, LeaseTaken
  <2> HIDE DEF t
  <2>14. WaitersOf(t) = WaitersOf(s)
    BY <2>12 DEF WaitersOf, Queued
  <2>15. QueueInv(t)
    <3>1. t.rooms = s.rooms /\ t.queue = s.queue /\ t.waiting = s.waiting
      BY <2>12
    <3> QED  BY <2>10, <2>14, <3>1 DEF QueueInv, RoomsListed
  <2>16. t.held \cap WaitersOf(t) = {}
    BY <2>9, <2>10, <2>12, <2>14 DEF PoolInv
  <2>17. GrantNext(p) = t
    BY <1>2, Zenon DEF GrantNext, t, s, u, q, k, r, i
  <2>18. p.active < Limit
    BY <1>2, <2>1, ReserveBounds
  <2>19. Granted(p, t, r, k)
    <3>1. /\ q \in WaitersOf(p) /\ Eligible(p, q)
          /\ \A j \in 1 .. (k - 1) : ~Eligible(p, p.queue[r][j])
      BY <2>4, <2>5 DEF q
    <3>2. /\ t.queue = [p.queue EXCEPT ![r] = RemoveAt(p.queue[r], k)]
          /\ WaitersOf(t) = WaitersOf(p) \ {q} /\ t.held = p.held \cup {q}
          /\ t.closed = p.closed /\ t.active = p.active + 1
          /\ t.generalActive = p.generalActive + OrdinaryShare(q)
          /\ \A x \in Room :
               /\ t.activeRooms[x] = p.activeRooms[x] + (IF x = RoomOf[q] THEN 1 ELSE 0)
               /\ t.generalRooms[x] =
                    p.generalRooms[x] + (IF x = RoomOf[q] THEN OrdinaryShare(q) ELSE 0)
      BY <2>8, <2>9, <2>10, <2>12, <2>14
    <3> QED  BY <3>1, <3>2, <2>18, Zenon DEF Granted, q
  <2> QED  BY <2>3, <2>4, <2>12, <2>13, <2>15, <2>16, <2>17, <2>19 DEF PoolInv, Grants
<1> QED  BY <1>1, <1>2

\* The two turns of the loop, from the pool that an operation leaves.
LEMMA DrainStep ==
  ASSUME NEW p, PoolInv(p), DrainFrom(p)
  PROVE  PoolInv(pool') /\ \E s : PoolInv(s) /\ Grants(p, s) /\ Grants(s, pool')
<1> DEFINE s == GrantNext(p)
<1>1. PoolInv(s) /\ Grants(p, s)
  BY GrantStep
<1>2. pool' = GrantNext(s)
  BY DEF DrainFrom
<1> HIDE DEF s
<1>3. PoolInv(GrantNext(s)) /\ Grants(s, GrantNext(s))
  BY <1>1, GrantStep
<1> QED  BY <1>1, <1>2, <1>3

LEMMA DrainKeeps ==
  ASSUME NEW p, PoolInv(p), DrainFrom(p)
  PROVE  PoolInv(pool')
  BY DrainStep

\* A request that passes the guards of acquire joins the end of its room.
LEMMA EntryJoins ==
  ASSUME NEW p, PoolInv(p), NEW q \in Request, q \notin p.held, ~Queued(p, q),
         p.waiting < MaxWaiting - (IF q \in Nested THEN 0 ELSE QueueReserve)
  PROVE  /\ PoolInv(Enqueue(p, q)) /\ Enqueue(p, q).held = p.held
         /\ WaitersOf(Enqueue(p, q)) = WaitersOf(p) \cup {q}
<1> DEFINE r == RoomOf[q]
           s == Enqueue(p, q)
<1>1. /\ p \in Pool /\ p.queue \in [Room -> Seq(Request)] /\ p.rooms \in Seq(Room)
      /\ p.waiting \in Nat /\ r \in Room /\ p.queue[r] \in Seq(Request)
  BY PoolAssumption DEF PoolInv, Pool
<1>2. /\ IsInjective(p.queue[r]) /\ q \notin Range(p.queue[r])
      /\ IsInjective(p.rooms) /\ Range(p.rooms) = {x \in Room : p.queue[x] # <<>>}
  BY <1>1 DEF PoolInv, QueueInv, RoomsListed, Queued
<1> HIDE DEF r
<1>3. /\ Append(p.queue[r], q) \in Seq(Request) /\ IsInjective(Append(p.queue[r], q))
      /\ Range(Append(p.queue[r], q)) = Range(p.queue[r]) \cup {q}
      /\ Append(p.queue[r], q) # <<>>
  <2>1. /\ Append(p.queue[r], q) \in Seq(Request) /\ IsInjective(Append(p.queue[r], q))
        /\ Range(Append(p.queue[r], q)) = Range(p.queue[r]) \cup {q}
    BY <1>1, <1>2, AppendRange
  <2>2. Range(<<>>) = {}
    BY DEF Range
  <2> QED  BY <2>1, <2>2
<1>4. Append(p.rooms, r) \in Seq(Room)
  BY <1>1
<1>5. /\ s \in Pool
      /\ s.queue = [p.queue EXCEPT ![r] = Append(p.queue[r], q)]
      /\ s.waiting = p.waiting + 1
      /\ s.rooms = IF p.queue[r] = <<>> THEN Append(p.rooms, r) ELSE p.rooms
      /\ s.held = p.held /\ s.active = p.active /\ s.generalActive = p.generalActive
      /\ s.activeRooms = p.activeRooms /\ s.generalRooms = p.generalRooms
  <2>1. s = [p EXCEPT !.queue[r] = Append(p.queue[r], q), !.waiting = p.waiting + 1,
                      !.rooms = IF p.queue[r] = <<>> THEN Append(p.rooms, r) ELSE p.rooms]
    BY Zenon DEF Enqueue, s, r
  <2> HIDE DEF s
  <2>2. /\ s.queue = [p.queue EXCEPT ![r] = Append(p.queue[r], q)]
        /\ s.waiting = p.waiting + 1
        /\ s.rooms = IF p.queue[r] = <<>> THEN Append(p.rooms, r) ELSE p.rooms
        /\ s.held = p.held /\ s.active = p.active /\ s.generalActive = p.generalActive
        /\ s.activeRooms = p.activeRooms /\ s.generalRooms = p.generalRooms
    BY <1>1, <2>1 DEF Pool
  <2>3. /\ [p.queue EXCEPT ![r] = Append(p.queue[r], q)] \in [Room -> Seq(Request)]
        /\ p.waiting + 1 \in Nat
        /\ (IF p.queue[r] = <<>> THEN Append(p.rooms, r) ELSE p.rooms) \in Seq(Room)
    BY <1>1, <1>3, <1>4
  <2>4. s \in Pool
    BY <1>1, <2>1, <2>3, Zenon DEF Pool
  <2> QED  BY <2>2, <2>4
<1> HIDE DEF s
<1>6. s.queue[r] = Append(p.queue[r], q) /\ \A x \in Room : x # r => s.queue[x] = p.queue[x]
  BY <1>1, <1>5
<1>7. \A x \in Room :
        IsInjective(s.queue[x]) /\ \A y \in Range(s.queue[x]) : RoomOf[y] = x
  BY <1>3, <1>6 DEF PoolInv, QueueInv, r
<1>8. WaitersOf(s) = WaitersOf(p) \cup {q} /\ q \notin WaitersOf(p)
  <2>1. ASSUME NEW x \in Request
        PROVE  x \in WaitersOf(s) <=> x \in WaitersOf(p) \/ x = q
    BY <1>3, <1>6, PoolAssumption DEF WaitersOf, Queued, r
  <2> QED  BY <2>1 DEF WaitersOf
<1>9. RoomsListed(s)
  <2>1. CASE p.queue[r] = <<>>
    <3>1. r \notin Range(p.rooms)
      BY <1>2, <2>1
    <3>2. IsInjective(s.rooms) /\ Range(s.rooms) = Range(p.rooms) \cup {r}
      BY <1>1, <1>2, <1>5, <2>1, <3>1, AppendRange
    <3>3. {x \in Room : s.queue[x] # <<>>} = {x \in Room : p.queue[x] # <<>>} \cup {r}
      BY <1>1, <1>3, <1>6
    <3> QED  BY <1>2, <3>2, <3>3 DEF RoomsListed
  <2>2. CASE p.queue[r] # <<>>
    <3>1. {x \in Room : s.queue[x] # <<>>} = {x \in Room : p.queue[x] # <<>>}
      BY <1>1, <1>3, <1>6, <2>2
    <3> QED  BY <1>2, <1>5, <2>2, <3>1 DEF RoomsListed
  <2> QED  BY <2>1, <2>2
<1>10. /\ IsFiniteSet(WaitersOf(p)) /\ p.waiting = Cardinality(WaitersOf(p))
       /\ WaitersOf(p) \in SUBSET Request
  BY DEF PoolInv, QueueInv, WaitersOf
<1>11. /\ IsFiniteSet(WaitersOf(s)) /\ s.waiting = Cardinality(WaitersOf(s))
       /\ Cardinality(General(WaitersOf(p))) \in Nat
       /\ Cardinality(General(WaitersOf(s))) =
            Cardinality(General(WaitersOf(p))) + OrdinaryShare(q)
  BY <1>5, <1>8, <1>10, CountAfterAdding
<1>12. Cardinality(General(WaitersOf(p))) <= p.waiting
  <2>1. General(WaitersOf(p)) \in SUBSET WaitersOf(p)
    BY DEF General
  <2> QED  BY <1>10, <2>1, FS_Subset
<1>13. Cardinality(General(WaitersOf(s))) <= MaxWaiting - QueueReserve
  BY <1>1, <1>11, <1>12, ReserveBounds DEF PoolInv, QueueInv, OrdinaryShare
<1>14. s.waiting <= MaxWaiting
  BY <1>1, <1>5, ReserveBounds
<1>15. QueueInv(s)
  BY <1>7, <1>9, <1>11, <1>13, <1>14 DEF QueueInv
<1>16. LeaseInv(s) /\ s.held \cap WaitersOf(s) = {}
  BY <1>5, <1>8 DEF PoolInv, LeaseInv, LeasesCounted, LeasesBounded
<1> QED  BY <1>5, <1>8, <1>15, <1>16 DEF PoolInv, s

\* cancel finds its waiter and its room where the maps say they are.
LEMMA IndexFound ==
  ASSUME NEW S, NEW z \in Seq(S), NEW e \in Range(z)
  PROVE  IndexIn(z, e) \in DOMAIN z /\ z[IndexIn(z, e)] = e
<1> DEFINE T == {i \in DOMAIN z : z[i] = e}
<1>1. T \in SUBSET Nat /\ T # {}
  BY DEF Range
<1>2. First(T) \in T
  BY <1>1, FirstIsLeast
<1> QED  BY <1>2 DEF IndexIn

LEMMA WithdrawStep ==
  ASSUME NEW p, PoolInv(p), NEW q \in Request, Queued(p, q)
  PROVE  LET s == Withdraw(p, q) IN
         /\ PoolInv(s) /\ s.held = p.held /\ WaitersOf(s) = WaitersOf(p) \ {q}
         /\ \E i, k : Leaves(p, s, i, RoomOf[q], k) /\ p.queue[RoomOf[q]][k] = q
<1> DEFINE r == RoomOf[q]
           k == IndexIn(p.queue[r], q)
           i == IndexIn(p.rooms, r)
           u == Unqueue(p, r, k)
           s == Withdraw(p, q)
<1>1. /\ p \in Pool /\ p.queue \in [Room -> Seq(Request)] /\ p.rooms \in Seq(Room)
      /\ p.waiting \in Nat /\ r \in Room /\ p.queue[r] \in Seq(Request)
  BY PoolAssumption DEF PoolInv, Pool
<1>2. q \in Range(p.queue[r]) /\ q \in WaitersOf(p)
  BY DEF Queued, WaitersOf
<1> HIDE DEF r
<1>3. k \in DOMAIN p.queue[r] /\ p.queue[r][k] = q
  BY <1>1, <1>2, IndexFound
<1>4. i \in DOMAIN p.rooms /\ p.rooms[i] = r
  <2>1. p.queue[r] # <<>>
    BY <1>2 DEF Range
  <2>2. r \in Range(p.rooms)
    BY <1>1, <2>1 DEF PoolInv, QueueInv, RoomsListed
  <2> QED  BY <1>1, <2>2, IndexFound
<1> HIDE DEF k, i
<1>5. p.waiting - 1 \in Nat
  <2>1. IsFiniteSet(WaitersOf(p)) /\ p.waiting = Cardinality(WaitersOf(p))
    BY DEF PoolInv, QueueInv
  <2>2. p.waiting # 0
    BY <2>1, <1>2, FS_EmptySet
  <2> QED  BY <2>2, <1>1
<1>6. RemoveAt(p.queue[r], k) \in Seq(Request) /\ RemoveAt(p.rooms, i) \in Seq(Room)
  BY <1>1, <1>3, <1>4, RemoveAtProperties
<1>7. /\ u \in Pool /\ u.rooms = p.rooms /\ u.waiting = p.waiting - 1
      /\ u.queue = [p.queue EXCEPT ![r] = RemoveAt(p.queue[r], k)]
      /\ u.held = p.held /\ u.active = p.active /\ u.generalActive = p.generalActive
      /\ u.activeRooms = p.activeRooms /\ u.generalRooms = p.generalRooms
  BY <1>1, <1>5, <1>6 DEF Unqueue, Pool
<1>8. s = [u EXCEPT !.rooms = IF u.queue[r] = <<>> THEN RemoveAt(@, IndexIn(@, r)) ELSE @]
  BY Zenon DEF Withdraw, s, u, r, k
<1> HIDE DEF u, s
<1>9. /\ s \in Pool /\ s.queue = u.queue /\ s.waiting = u.waiting
      /\ s.rooms = IF u.queue[r] = <<>> THEN RemoveAt(p.rooms, i) ELSE p.rooms
      /\ s.held = p.held /\ s.active = p.active /\ s.generalActive = p.generalActive
      /\ s.activeRooms = p.activeRooms /\ s.generalRooms = p.generalRooms
  BY <1>1, <1>6, <1>7, <1>8 DEF Pool, i
<1>10. Leaves(p, s, i, r, k)
  BY <1>1, <1>3, <1>4, <1>7, <1>9 DEF Leaves
<1>11. QueueInv(s) /\ WaitersOf(s) = WaitersOf(p) \ {q}
  BY <1>3, <1>10, EntryLeaves DEF PoolInv
<1>12. LeaseInv(s) /\ s.held \cap WaitersOf(s) = {}
  BY <1>9, <1>11 DEF PoolInv, LeaseInv, LeasesCounted, LeasesBounded
<1> QED  BY <1>3, <1>9, <1>10, <1>11, <1>12 DEF PoolInv, s, r

LEMMA WithdrawKeeps ==
  ASSUME NEW p, PoolInv(p), NEW q \in Request, Queued(p, q)
  PROVE  /\ PoolInv(Withdraw(p, q)) /\ Withdraw(p, q).held = p.held
         /\ WaitersOf(Withdraw(p, q)) = WaitersOf(p) \ {q}
BY WithdrawStep

LEMMA VacateKeeps ==
  ASSUME NEW p, PoolInv(p), NEW q \in p.held
  PROVE  /\ PoolInv(Vacate(p, q)) /\ Vacate(p, q).held = p.held \ {q}
         /\ WaitersOf(Vacate(p, q)) = WaitersOf(p)
<1> DEFINE s == Vacate(p, q)
<1>1. /\ s \in Pool /\ LeaseInv(s)
      /\ s.rooms = p.rooms /\ s.queue = p.queue /\ s.waiting = p.waiting
      /\ s.held = p.held \ {q}
  BY LeaseGiven DEF PoolInv
<1> HIDE DEF s
<1>2. WaitersOf(s) = WaitersOf(p)
  BY <1>1 DEF WaitersOf, Queued
<1> QED  BY <1>1, <1>2 DEF PoolInv, QueueInv, RoomsListed, s

\* With empty queues only the leases are left to check.
LEMMA NobodyWaits ==
  ASSUME NEW p \in Pool, LeaseInv(p), p.rooms = <<>>, p.waiting = 0,
         p.queue = [r \in Room |-> <<>>]
  PROVE  PoolInv(p)
<1>1. WaitersOf(p) = {}
  BY PoolAssumption DEF WaitersOf, Queued, Range
<1>2. General({}) = {} /\ Cardinality({}) = 0 /\ IsFiniteSet({})
  BY FS_EmptySet DEF General
<1>3. RoomsListed(p)
  BY DEF RoomsListed, IsInjective, Range
<1>4. \A r \in Room : IsInjective(p.queue[r]) /\ Range(p.queue[r]) = {}
  BY DEF IsInjective, Range
<1>5. 0 <= MaxWaiting /\ 0 <= MaxWaiting - QueueReserve
  BY ReserveBounds
<1>6. QueueInv(p)
  BY <1>1, <1>2, <1>3, <1>4, <1>5 DEF QueueInv
<1> QED  BY <1>1, <1>6 DEF PoolInv

LEMMA EmptyPoolHolds ==
  /\ PoolInv(EmptyPool) /\ EmptyPool.held = {} /\ WaitersOf(EmptyPool) = {}
<1> DEFINE p == EmptyPool
<1>1. /\ p \in Pool /\ p.rooms = <<>> /\ p.waiting = 0
      /\ p.queue = [r \in Room |-> <<>>]
  BY DEF EmptyPool, Pool
<1>2. /\ p.held = {} /\ p.active = 0 /\ p.generalActive = 0
      /\ \A r \in Room : p.activeRooms[r] = 0 /\ p.generalRooms[r] = 0
  BY DEF EmptyPool
<1> HIDE DEF p
<1>3. /\ General({}) = {} /\ Cardinality({}) = 0 /\ IsFiniteSet({})
      /\ \A r \in Room : InRoom({}, r) = {}
  BY FS_EmptySet DEF General, InRoom
<1>4. LeaseInv(p)
  <2>1. LeasesCounted(p)
    BY <1>2, <1>3 DEF LeasesCounted
  <2>2. LeasesBounded(p)
    BY <1>2, ReserveBounds DEF LeasesBounded
  <2> QED  BY <1>2, <1>3, <2>1, <2>2 DEF LeaseInv
<1>5. PoolInv(p)
  BY <1>1, <1>4, NobodyWaits
<1>6. WaitersOf(p) = {}
  BY <1>1, PoolAssumption DEF WaitersOf, Queued, Range
<1> QED  BY <1>2, <1>5, <1>6 DEF p

\* close(): the waiters are gone, the leases stay.
LEMMA ClosedPoolHolds ==
  ASSUME NEW p, PoolInv(p)
  PROVE  LET c == ClosedPool(p) IN
         PoolInv(c) /\ c.held = p.held /\ WaitersOf(c) = {}
<1> DEFINE c == ClosedPool(p)
<1>1. p \in Pool
  BY DEF PoolInv
<1>2. c = [p EXCEPT !.closed = TRUE, !.rooms = <<>>, !.waiting = 0,
                    !.queue = [r \in Room |-> <<>>]]
  BY Zenon DEF ClosedPool
<1> HIDE DEF c
<1>3. <<>> \in Seq(Room) /\ 0 \in Nat /\ [r \in Room |-> <<>>] \in [Room -> Seq(Request)]
  OBVIOUS
<1>4. c \in Pool
  BY <1>1, <1>2, <1>3, Zenon DEF Pool
<1>5. /\ c.rooms = <<>> /\ c.waiting = 0 /\ c.queue = [r \in Room |-> <<>>]
      /\ c.held = p.held /\ c.active = p.active
      /\ c.generalActive = p.generalActive
      /\ c.activeRooms = p.activeRooms /\ c.generalRooms = p.generalRooms
  BY <1>1, <1>2 DEF Pool
<1>6. LeaseInv(c)
  BY <1>5 DEF PoolInv, LeaseInv, LeasesCounted, LeasesBounded
<1>7. WaitersOf(c) = {}
  BY <1>5, PoolAssumption DEF WaitersOf, Queued, Range
<1> QED  BY <1>4, <1>5, <1>6, <1>7, NobodyWaits DEF c

-----------------------------------------------------------------------------
(* The theorems *)

LEMMA InitHolds == PoolInit => PoolInv(pool)
BY EmptyPoolHolds DEF PoolInit

LEMMA StepKeeps == PoolInv(pool) /\ [PoolNext]_poolVars => PoolInv(pool')
<1> SUFFICES ASSUME PoolInv(pool), [PoolNext]_poolVars PROVE PoolInv(pool')
  OBVIOUS
<1>1. ASSUME NEW q \in Request, Acquire(q) PROVE PoolInv(pool')
  <2>1. PoolInv(Enqueue(pool, q))
    BY <1>1, EntryJoins DEF Acquire
  <2> QED  BY <1>1, <2>1, DrainKeeps DEF Acquire
<1>2. ASSUME NEW q \in Request, Cancel(q) PROVE PoolInv(pool')
  <2>1. PoolInv(Withdraw(pool, q))
    BY <1>2, WithdrawKeeps DEF Cancel
  <2> QED  BY <1>2, <2>1, DrainKeeps DEF Cancel
<1>3. ASSUME NEW q \in Request, Release(q) PROVE PoolInv(pool')
  <2>1. PoolInv(Vacate(pool, q))
    BY <1>3, VacateKeeps DEF Release
  <2> QED  BY <1>3, <2>1, DrainKeeps DEF Release
<1>4. ASSUME Close PROVE PoolInv(pool')
  BY <1>4, ClosedPoolHolds DEF Close
<1>5. CASE UNCHANGED poolVars
  BY <1>5 DEF poolVars
<1> QED  BY <1>1, <1>2, <1>3, <1>4, <1>5 DEF PoolNext

\* The pool is consistent in every reachable state, whatever its limits and
\* requests: the invariant the other theorems follow from.
THEOREM Invariance == PoolSpec => []PoolInv(pool)
<1>1. PoolInit => PoolInv(pool)
  BY InitHolds
<1>2. PoolInv(pool) /\ [PoolNext]_poolVars => PoolInv(pool)'
  BY StepKeeps
<1> QED  BY <1>1, <1>2, PTL DEF PoolSpec

\* The counters and queues keep their types: nothing goes below zero.
THEOREM TypeCorrect == PoolSpec => []PoolTypeOK
<1>1. PoolInv(pool) => PoolTypeOK
  BY DEF PoolInv, PoolTypeOK
<1> QED  BY <1>1, Invariance, PTL

\* The counters of acquire, cancel, drain and release are exact.
THEOREM AccountsExact == PoolSpec => []AccountsMatch
<1>1. PoolInv(pool) => AccountsMatch
  <2> SUFFICES ASSUME PoolInv(pool) PROVE AccountsMatch
    OBVIOUS
  <2>1. QueuesSorted(pool)
    <3>1. \A r \in Room : Range(pool.queue[r]) \subseteq WaitersOf(pool)
      BY EntriesWait DEF PoolInv
    <3> QED  BY <3>1 DEF PoolInv, QueueInv, QueuesSorted
  <2> QED  BY <2>1 DEF PoolInv, LeaseInv, QueueInv, AccountsMatch, Waiters
<1> QED  BY <1>1, Invariance, PTL

\* No place is given out twice, and ordinary requests leave the reserved places
\* of the pool, of each room and of the wait queue.
THEOREM CapacityKept == PoolSpec => []CapacityRespected
<1>1. PoolInv(pool) => CapacityRespected
  BY DEF PoolInv, LeaseInv, LeasesCounted, LeasesBounded, QueueInv, Waiters,
         CapacityRespected
<1> QED  BY <1>1, Invariance, PTL

-----------------------------------------------------------------------------
(* No wakeup is lost *)

Conserving(p) == (p.closed => WaitersOf(p) = {}) /\ Settled(p)

\* What Eligible looks at for a waiter q of room r.
Places(p, r, nested) ==
  /\ p.activeRooms[r] < PerRoom
  /\ nested \/ ( /\ p.generalActive < Limit - Reserved
                 /\ p.generalRooms[r] < PerRoom - RoomReserve )

LEMMA EligiblePlaces ==
  ASSUME NEW p, NEW q
  PROVE  Eligible(p, q) <=> Places(p, RoomOf[q], q \in Nested)
BY DEF Eligible, Places

\* A pool where nobody waits in vain stays as it is.
LEMMA NothingToGrant ==
  ASSUME NEW p, NEW t, PoolInv(p), Conserving(p), Grants(p, t)
  PROVE  t = p
<1>1. CASE t = p
  BY <1>1
<1>2. ASSUME NEW r \in Room, NEW k \in DOMAIN p.queue[r], Granted(p, t, r, k) PROVE FALSE
  BY <1>2 DEF Conserving, Settled, Granted
<1> QED  BY <1>1, <1>2 DEF Grants

LEMMA DrainLeavesAlone ==
  ASSUME NEW p, PoolInv(p), Conserving(p), DrainFrom(p)
  PROVE  pool' = p
<1>1. PICK s : PoolInv(s) /\ Grants(p, s) /\ Grants(s, pool')
  BY DrainStep
<1>2. s = p
  BY <1>1, NothingToGrant
<1> QED  BY <1>1, <1>2, NothingToGrant

\* A pool without a free place waits, and so does a closed one.
LEMMA FullIsConserving ==
  ASSUME NEW p, PoolInv(p), p.active >= Limit, p.closed => WaitersOf(p) = {}
  PROVE  Conserving(p)
<1>1. p.active \in Nat /\ Limit \in Nat
  BY ReserveBounds DEF PoolInv, Pool
<1> QED  BY <1>1 DEF Conserving, Settled

\* Places only get fewer as leases are taken.
Fewer(p, t) ==
  /\ t.active >= p.active /\ t.generalActive >= p.generalActive
  /\ \A r \in Room : t.activeRooms[r] >= p.activeRooms[r]
                     /\ t.generalRooms[r] >= p.generalRooms[r]
  /\ WaitersOf(t) \subseteq WaitersOf(p) /\ t.closed = p.closed

LEMMA FewerConserves ==
  ASSUME NEW p \in Pool, NEW t \in Pool, Conserving(p), Fewer(p, t)
  PROVE  Conserving(t)
<1>1. t.closed => WaitersOf(t) = {}
  BY DEF Conserving, Fewer
<1>2. ASSUME t.active < Limit, NEW q \in WaitersOf(t) PROVE ~Eligible(t, q)
  <2>1. /\ p.active \in Nat /\ t.active \in Nat /\ Limit \in Nat
        /\ p.generalActive \in Nat /\ t.generalActive \in Nat /\ RoomOf[q] \in Room
        /\ \A r \in Room : p.activeRooms[r] \in Nat /\ t.activeRooms[r] \in Nat
                           /\ p.generalRooms[r] \in Nat /\ t.generalRooms[r] \in Nat
    BY PoolAssumption DEF Pool, WaitersOf
  <2>2. ~Eligible(p, q)
    BY <1>2, <2>1 DEF Conserving, Settled, Fewer
  <2> QED  BY <2>1, <2>2, ReserveBounds DEF Eligible, Fewer
<1> QED  BY <1>1, <1>2 DEF Conserving, Settled

LEMMA GrantIsFewer ==
  ASSUME NEW p, NEW t, PoolInv(p), Grants(p, t)
  PROVE  Fewer(p, t)
<1>1. /\ p.active \in Nat /\ p.generalActive \in Nat
      /\ \A r \in Room : p.activeRooms[r] \in Nat /\ p.generalRooms[r] \in Nat
  BY DEF PoolInv, Pool
<1>2. CASE t = p
  BY <1>1, <1>2 DEF Fewer
<1>3. ASSUME NEW r \in Room, NEW k \in DOMAIN p.queue[r], Granted(p, t, r, k) PROVE Fewer(p, t)
  BY <1>1, <1>3, ShareType DEF Granted, Fewer
<1> QED  BY <1>2, <1>3 DEF Grants

\* acquire(): only the newcomer may be served, so one turn of the loop will do.
LEMMA AcquireConserves ==
  ASSUME NEW p, PoolInv(p), Conserving(p), ~p.closed, NEW q \in Request, q \notin p.held,
         ~Queued(p, q), PoolInv(Enqueue(p, q)),
         NEW s, PoolInv(s), Grants(Enqueue(p, q), s)
  PROVE  Conserving(s)
<1> DEFINE e == Enqueue(p, q)
<1>1. /\ e.active = p.active /\ e.generalActive = p.generalActive /\ e.closed = p.closed
      /\ e.activeRooms = p.activeRooms /\ e.generalRooms = p.generalRooms
      /\ e.queue = [p.queue EXCEPT ![RoomOf[q]] = Append(p.queue[RoomOf[q]], q)]
  BY DEF Enqueue, PoolInv, Pool
<1>2. WaitersOf(e) = WaitersOf(p) \cup {q}
  <2>1. p.queue \in [Room -> Seq(Request)] /\ RoomOf[q] \in Room
    BY PoolAssumption DEF PoolInv, Pool
  <2>2. Range(Append(p.queue[RoomOf[q]], q)) = Range(p.queue[RoomOf[q]]) \cup {q}
    BY <2>1, AppendKeepsRange
  <2>3. ASSUME NEW x \in Request PROVE Queued(e, x) <=> Queued(p, x) \/ x = q
    BY <1>1, <2>1, <2>2, PoolAssumption DEF Queued, PoolInv, QueueInv
  <2> QED  BY <2>3 DEF WaitersOf
<1> HIDE DEF e
<1>3. \A x \in Request : Eligible(e, x) <=> Eligible(p, x)
  BY <1>1 DEF Eligible
<1>4. CASE s = e /\ (e.closed \/ Settled(e))
  BY <1>1, <1>4 DEF Conserving
<1>5. ASSUME NEW r \in Room, NEW k \in DOMAIN e.queue[r], Granted(e, s, r, k)
      PROVE  Conserving(s)
  <2>1. e.queue[r][k] = q
    BY <1>1, <1>2, <1>3, <1>5 DEF Granted, Conserving, Settled, WaitersOf
  <2>2. WaitersOf(s) \subseteq WaitersOf(p)
    BY <1>2, <1>5, <2>1 DEF Granted
  <2>3. Grants(e, s)
    BY <1>5 DEF Grants
  <2>4. Fewer(p, s)
    BY <1>1, <2>2, <2>3, GrantIsFewer DEF Fewer, e
  <2> QED  BY <2>4, FewerConserves DEF PoolInv
<1> QED  BY <1>4, <1>5 DEF Grants, e

LEMMA VacateFields ==
  ASSUME NEW p, PoolInv(p), NEW q \in p.held
  PROVE  LET v == Vacate(p, q) IN
         /\ v.active = p.active - 1 /\ v.closed = p.closed
         /\ v.generalActive = p.generalActive - OrdinaryShare(q)
         /\ WaitersOf(v) = WaitersOf(p)
         /\ \A x \in Room :
              /\ v.activeRooms[x] = p.activeRooms[x] - (IF x = RoomOf[q] THEN 1 ELSE 0)
              /\ v.generalRooms[x] =
                   p.generalRooms[x] - (IF x = RoomOf[q] THEN OrdinaryShare(q) ELSE 0)
<1> DEFINE v == Vacate(p, q)
<1>1. /\ v.active = p.active - 1 /\ v.closed = p.closed /\ v.queue = p.queue
      /\ v.generalActive = p.generalActive - OrdinaryShare(q)
      /\ v.activeRooms = Adding(p.activeRooms, RoomOf[q], -1)
      /\ v.generalRooms = Adding(p.generalRooms, RoomOf[q], -OrdinaryShare(q))
  BY DEF Vacate, PoolInv, Pool
<1>2. /\ p.activeRooms \in [Room -> Nat] /\ p.generalRooms \in [Room -> Nat]
      /\ OrdinaryShare(q) \in {0, 1}
  <2>1. p \in Pool
    BY DEF PoolInv
  <2> QED  BY <2>1, ShareType DEF Pool
<1> HIDE DEF v
<1>3. WaitersOf(v) = WaitersOf(p)
  BY <1>1 DEF WaitersOf, Queued
<1>4. \A x \in Room :
        /\ v.activeRooms[x] = p.activeRooms[x] - (IF x = RoomOf[q] THEN 1 ELSE 0)
        /\ v.generalRooms[x] =
             p.generalRooms[x] - (IF x = RoomOf[q] THEN OrdinaryShare(q) ELSE 0)
  BY <1>1, <1>2 DEF Adding
<1> QED  BY <1>1, <1>3, <1>4 DEF v

\* release(): the place given back frees a place of its room and, if it was an
\* ordinary one, an ordinary place of the pool; two turns of the loop use both.
LEMMA ReleaseConserves ==
  ASSUME NEW p, PoolInv(p), Conserving(p), NEW q0 \in p.held,
         PoolInv(Vacate(p, q0)),
         NEW s, PoolInv(s), Grants(Vacate(p, q0), s), NEW t, Grants(s, t)
  PROVE  Conserving(t)
<1> DEFINE v == Vacate(p, q0)
           r0 == RoomOf[q0]
<1>1. /\ v.active = p.active - 1 /\ v.closed = p.closed
      /\ v.generalActive = p.generalActive - OrdinaryShare(q0)
      /\ WaitersOf(v) = WaitersOf(p)
      /\ \A x \in Room :
           /\ v.activeRooms[x] = p.activeRooms[x] - (IF x = r0 THEN 1 ELSE 0)
           /\ v.generalRooms[x] =
                p.generalRooms[x] - (IF x = r0 THEN OrdinaryShare(q0) ELSE 0)
  BY VacateFields
<1>2. PoolInv(v) /\ Grants(v, s)
  OBVIOUS
<1> HIDE DEF v
<1>3. CASE s = v /\ (v.closed \/ Settled(v))
  <2>1. Conserving(v)
    BY <1>1, <1>3 DEF Conserving, Settled
  <2> QED  BY <1>2, <1>3, <2>1, NothingToGrant
<1>4. ASSUME NEW r \in Room, NEW k \in DOMAIN v.queue[r], Granted(v, s, r, k)
      PROVE  Conserving(t)
  <2> DEFINE x == v.queue[r][k]
  <2>1. /\ x \in WaitersOf(p) /\ Eligible(v, x) /\ s.active = v.active + 1
        /\ s.closed = v.closed /\ s.generalActive = v.generalActive + OrdinaryShare(x)
        /\ WaitersOf(s) \subseteq WaitersOf(p)
        /\ \A c \in Room :
             /\ s.activeRooms[c] = v.activeRooms[c] + (IF c = RoomOf[x] THEN 1 ELSE 0)
             /\ s.generalRooms[c] =
                  v.generalRooms[c] + (IF c = RoomOf[x] THEN OrdinaryShare(x) ELSE 0)
    BY <1>1, <1>4 DEF Granted
  <2>2. ~s.closed
    BY <1>1, <2>1 DEF Conserving
  <2> HIDE DEF x
  <2>3. CASE t = s /\ (s.closed \/ Settled(s))
    BY <2>2, <2>3 DEF Conserving
  <2>4. ASSUME NEW d \in Room, NEW l \in DOMAIN s.queue[d], Granted(s, t, d, l)
        PROVE  Conserving(t)
    <3> DEFINE y == s.queue[d][l]
    <3>1. /\ y \in WaitersOf(p) /\ Eligible(s, y) /\ t.active = s.active + 1
          /\ t.closed = s.closed /\ t.generalActive = s.generalActive + OrdinaryShare(y)
          /\ WaitersOf(t) \subseteq WaitersOf(p)
          /\ \A c \in Room :
               /\ t.activeRooms[c] = s.activeRooms[c] + (IF c = RoomOf[y] THEN 1 ELSE 0)
               /\ t.generalRooms[c] =
                    s.generalRooms[c] + (IF c = RoomOf[y] THEN OrdinaryShare(y) ELSE 0)
      BY <2>1, <2>4 DEF Granted
    <3> HIDE DEF y
    <3> SUFFICES ASSUME t.active < Limit, NEW z \in WaitersOf(t), Eligible(t, z) PROVE FALSE
      BY <2>2, <3>1 DEF Conserving, Settled
    <3>2. /\ p.active \in Nat /\ p.generalActive \in Nat /\ p.generalActive <= Limit - Reserved
          /\ \A c \in Room : /\ p.activeRooms[c] \in Nat /\ p.activeRooms[c] <= PerRoom
                             /\ p.generalRooms[c] \in Nat
      BY DEF PoolInv, Pool, LeaseInv, LeasesBounded
    <3>3. p.active < Limit
      BY <1>1, <2>1, <3>1, <3>2, ReserveBounds
    <3>4. ~Eligible(p, x) /\ ~Eligible(p, y) /\ ~Eligible(p, z)
      BY <2>1, <3>1, <3>3 DEF Conserving, Settled
    <3>5. /\ RoomOf[x] \in Room /\ RoomOf[y] \in Room /\ RoomOf[z] \in Room
      BY <2>1, <3>1, PoolAssumption DEF WaitersOf
    <3> DEFINE A(c) == p.activeRooms[c]
               G(c) == p.generalRooms[c]
    <3>6. /\ v.activeRooms[RoomOf[x]] = A(RoomOf[x]) - (IF RoomOf[x] = r0 THEN 1 ELSE 0)
          /\ v.generalRooms[RoomOf[x]] =
               G(RoomOf[x]) - (IF RoomOf[x] = r0 THEN OrdinaryShare(q0) ELSE 0)
          /\ s.activeRooms[RoomOf[y]] = A(RoomOf[y]) - (IF RoomOf[y] = r0 THEN 1 ELSE 0)
                                          + (IF RoomOf[y] = RoomOf[x] THEN 1 ELSE 0)
          /\ t.activeRooms[RoomOf[z]] = A(RoomOf[z]) - (IF RoomOf[z] = r0 THEN 1 ELSE 0)
                                          + (IF RoomOf[z] = RoomOf[x] THEN 1 ELSE 0)
                                          + (IF RoomOf[z] = RoomOf[y] THEN 1 ELSE 0)
      BY <1>1, <2>1, <3>1, <3>5
    <3>7. s.generalRooms[RoomOf[y]] =
            G(RoomOf[y]) - (IF RoomOf[y] = r0 THEN OrdinaryShare(q0) ELSE 0)
              + (IF RoomOf[y] = RoomOf[x] THEN OrdinaryShare(x) ELSE 0)
      BY <1>1, <2>1, <3>5
    <3>8. t.generalRooms[RoomOf[z]] =
            G(RoomOf[z]) - (IF RoomOf[z] = r0 THEN OrdinaryShare(q0) ELSE 0)
              + (IF RoomOf[z] = RoomOf[x] THEN OrdinaryShare(x) ELSE 0)
              + (IF RoomOf[z] = RoomOf[y] THEN OrdinaryShare(y) ELSE 0)
      BY <1>1, <2>1, <3>1, <3>5
    <3>9. /\ v.generalActive = p.generalActive - OrdinaryShare(q0)
          /\ s.generalActive = p.generalActive - OrdinaryShare(q0) + OrdinaryShare(x)
          /\ t.generalActive = p.generalActive - OrdinaryShare(q0) + OrdinaryShare(x)
                                 + OrdinaryShare(y)
      BY <1>1, <2>1, <3>1
    <3> QED
      BY <2>1, <3>1, <3>2, <3>4, <3>5, <3>6, <3>7, <3>8, <3>9, ReserveBounds, SMTT(60)
      DEF Eligible, OrdinaryShare
  <2> QED  BY <1>4, <2>3, <2>4 DEF Grants
<1> QED  BY <1>2, <1>3, <1>4 DEF Grants

\* cancel(): the others could not be served before and cannot be now.
LEMMA CancelConserves ==
  ASSUME NEW p, PoolInv(p), Conserving(p), NEW q \in Request, Queued(p, q)
  PROVE  Conserving(Withdraw(p, q))
<1> DEFINE s == Withdraw(p, q)
<1>1. s \in Pool /\ Fewer(p, s)
  <2>1. PoolInv(s) /\ WaitersOf(s) \subseteq WaitersOf(p)
    BY WithdrawKeeps
  <2>2. /\ s.active = p.active /\ s.generalActive = p.generalActive /\ s.closed = p.closed
        /\ s.activeRooms = p.activeRooms /\ s.generalRooms = p.generalRooms
    BY DEF Withdraw, Unqueue, PoolInv, Pool
  <2> HIDE DEF s
  <2>3. /\ p.active \in Nat /\ p.generalActive \in Nat /\ s \in Pool
        /\ \A r \in Room : p.activeRooms[r] \in Nat /\ p.generalRooms[r] \in Nat
    BY <2>1 DEF PoolInv, Pool
  <2> QED  BY <2>1, <2>2, <2>3 DEF Fewer
<1> HIDE DEF s
<1> QED  BY <1>1, FewerConserves DEF s, PoolInv

LEMMA StepConserves ==
  ASSUME PoolInv(pool), Conserving(pool), [PoolNext]_poolVars
  PROVE  Conserving(pool')
<1>1. ASSUME NEW q \in Request, Acquire(q) PROVE Conserving(pool')
  <2>1. PoolInv(Enqueue(pool, q)) /\ DrainFrom(Enqueue(pool, q))
    BY <1>1, EntryJoins DEF Acquire
  <2>2. PICK s : PoolInv(s) /\ Grants(Enqueue(pool, q), s) /\ Grants(s, pool')
    BY <2>1, DrainStep
  <2>3. Conserving(s)
    BY <1>1, <2>1, <2>2, AcquireConserves DEF Acquire
  <2> QED  BY <2>2, <2>3, NothingToGrant
<1>2. ASSUME NEW q \in Request, Cancel(q) PROVE Conserving(pool')
  <2>1. PoolInv(Withdraw(pool, q)) /\ Conserving(Withdraw(pool, q))
    BY <1>2, WithdrawKeeps, CancelConserves DEF Cancel
  <2> QED  BY <1>2, <2>1, DrainLeavesAlone DEF Cancel
<1>3. ASSUME NEW q \in Request, Release(q) PROVE Conserving(pool')
  <2>1. q \in pool.held /\ PoolInv(Vacate(pool, q)) /\ DrainFrom(Vacate(pool, q))
    BY <1>3, VacateKeeps DEF Release
  <2>2. PICK s : PoolInv(s) /\ Grants(Vacate(pool, q), s) /\ Grants(s, pool')
    BY <2>1, DrainStep
  <2> QED  BY <2>1, <2>2, ReleaseConserves
<1>4. CASE Close
  <2>1. pool'.queue = [r \in Room |-> <<>>]
    BY <1>4 DEF Close, ClosedPool, PoolInv, Pool
  <2>2. WaitersOf(pool') = {}
    BY <2>1, PoolAssumption DEF WaitersOf, Queued, Range
  <2> QED  BY <2>2 DEF Conserving, Settled
<1>5. CASE UNCHANGED poolVars
  BY <1>5 DEF poolVars
<1> QED  BY <1>1, <1>2, <1>3, <1>4, <1>5 DEF PoolNext

LEMMA InitConserves == PoolInit => Conserving(pool)
<1> SUFFICES ASSUME PoolInit PROVE Conserving(pool)
  OBVIOUS
<1>1. WaitersOf(pool) = {}
  BY PoolAssumption DEF PoolInit, EmptyPool, WaitersOf, Queued, Range
<1> QED  BY <1>1 DEF Conserving, Settled

\* No wakeup is lost: the bounded number of turns of drain()'s loop is enough.
THEOREM PlacesNeverIdle == PoolSpec => []WorkConserving
<1>1. PoolInit => Conserving(pool)
  BY InitConserves
<1>2. PoolInv(pool) /\ Conserving(pool) /\ [PoolNext]_poolVars
        => PoolInv(pool)' /\ Conserving(pool)'
  BY StepKeeps, StepConserves
<1>3. Conserving(pool) => WorkConserving
  BY DEF Conserving, Settled, WorkConserving, Waiters
<1> QED  BY InitHolds, <1>1, <1>2, <1>3, PTL DEF PoolSpec

-----------------------------------------------------------------------------
(* The order within a room *)

\* a waits before b in room r.
Before(p, r, a, b) ==
  \E i, j \in DOMAIN p.queue[r] : i < j /\ p.queue[r][i] = a /\ p.queue[r][j] = b

LEMMA BeforeWaits ==
  ASSUME NEW p, PoolInv(p), NEW r \in Room, NEW a, NEW b, Before(p, r, a, b)
  PROVE  /\ RoomOf[a] = r /\ RoomOf[b] = r
         /\ a \in WaitersOf(p) /\ b \in WaitersOf(p) /\ a \notin p.held /\ b \notin p.held
<1>1. a \in Range(p.queue[r]) /\ b \in Range(p.queue[r])
  BY DEF Before, Range
<1>2. Range(p.queue[r]) \subseteq WaitersOf(p)
  BY EntriesWait DEF PoolInv
<1> QED  BY <1>1, <1>2 DEF PoolInv, QueueInv

\* splice() keeps the order of what it leaves.
LEMMA RemoveAtOrder ==
  ASSUME NEW S, NEW s \in Seq(S), NEW k \in DOMAIN s,
         NEW i \in DOMAIN s, NEW j \in DOMAIN s, i < j, i # k, j # k
  PROVE  \E c, d \in DOMAIN RemoveAt(s, k) :
           c < d /\ RemoveAt(s, k)[c] = s[i] /\ RemoveAt(s, k)[d] = s[j]
<1> DEFINE t == RemoveAt(s, k)
           c == IF i < k THEN i ELSE i - 1
           d == IF j < k THEN j ELSE j - 1
<1>1. /\ t \in Seq(S) /\ Len(t) = Len(s) - 1
      /\ \A l \in 1 .. (Len(s) - 1) : t[l] = IF l < k THEN s[l] ELSE s[l + 1]
  BY RemoveAtProperties
<1>2. Len(s) \in Nat /\ i \in 1 .. Len(s) /\ j \in 1 .. Len(s) /\ k \in 1 .. Len(s)
  OBVIOUS
<1> HIDE DEF t
<1>3. c \in 1 .. (Len(s) - 1) /\ d \in 1 .. (Len(s) - 1) /\ c < d
  BY <1>2
<1>4. t[c] = s[i] /\ t[d] = s[j]
  <2>1. ASSUME NEW l \in 1 .. Len(s), l < k, l \in 1 .. (Len(s) - 1) PROVE t[l] = s[l]
    BY <1>1, <2>1
  <2>2. ASSUME NEW l \in 1 .. Len(s), k < l, l - 1 \in 1 .. (Len(s) - 1)
        PROVE  t[l - 1] = s[l]
    <3>1. ~(l - 1 < k) /\ (l - 1) + 1 = l
      BY <1>2, <2>2
    <3> QED  BY <1>1, <2>2, <3>1
  <2>3. t[c] = s[i]
    BY <1>2, <1>3, <2>1, <2>2
  <2>4. t[d] = s[j]
    BY <1>2, <1>3, <2>1, <2>2
  <2> QED  BY <2>3, <2>4
<1>5. c \in DOMAIN t /\ d \in DOMAIN t
  BY <1>1, <1>3
<1> HIDE DEF c, d
<1> QED  BY <1>3, <1>4, <1>5 DEF t

\* One turn of the loop serves a, or leaves both of them waiting in their order.
LEMMA GrantKeepsOrder ==
  ASSUME NEW p, NEW t, PoolInv(p), Grants(p, t),
         NEW r \in Room, NEW a, NEW b, Before(p, r, a, b), a \in Nested <=> b \in Nested
  PROVE  a \in t.held \/ Before(t, r, a, b)
<1>1. CASE t = p
  BY <1>1
<1>2. ASSUME NEW x \in Room, NEW k \in DOMAIN p.queue[x], Granted(p, t, x, k)
      PROVE  a \in t.held \/ Before(t, r, a, b)
  <2>1. p.queue \in [Room -> Seq(Request)]
    BY DEF PoolInv, Pool
  <2>2. /\ t.queue = [p.queue EXCEPT ![x] = RemoveAt(p.queue[x], k)]
        /\ p.queue[x][k] \in t.held /\ Eligible(p, p.queue[x][k])
        /\ \A j \in 1 .. (k - 1) : ~Eligible(p, p.queue[x][j])
    BY <1>2 DEF Granted
  <2>3. CASE x # r
    <3>1. t.queue[r] = p.queue[r]
      BY <2>1, <2>2, <2>3
    <3> QED  BY <3>1 DEF Before
  <2>4. CASE x = r
    <3>1. PICK i, j \in DOMAIN p.queue[r] : i < j /\ p.queue[r][i] = a /\ p.queue[r][j] = b
      BY DEF Before
    <3>2. p.queue[r] \in Seq(Request) /\ t.queue[r] = RemoveAt(p.queue[r], k)
      BY <2>1, <2>2, <2>4
    <3>3. CASE k = i
      BY <2>2, <2>4, <3>1, <3>3
    <3>4. k # j
      <4> SUFFICES ASSUME k = j PROVE FALSE
        OBVIOUS
      <4>1. i \in 1 .. (k - 1)
        BY <3>1, <3>2
      <4>2. ~Eligible(p, a) /\ Eligible(p, b)
        BY <2>2, <2>4, <3>1, <4>1
      <4>3. RoomOf[a] = RoomOf[b]
        BY BeforeWaits
      <4> QED  BY <4>2, <4>3 DEF Eligible
    <3>5. CASE k # i
      <4>1. \E c, d \in DOMAIN RemoveAt(p.queue[r], k) :
              /\ c < d /\ RemoveAt(p.queue[r], k)[c] = p.queue[r][i]
              /\ RemoveAt(p.queue[r], k)[d] = p.queue[r][j]
        BY <2>4, <3>1, <3>2, <3>4, <3>5, RemoveAtOrder
      <4> QED  BY <3>1, <3>2, <4>1 DEF Before
    <3> QED  BY <3>3, <3>5
  <2> QED  BY <2>3, <2>4
<1> QED  BY <1>1, <1>2 DEF Grants

LEMMA DrainKeepsOrder ==
  ASSUME NEW p, PoolInv(p), DrainFrom(p), NEW r \in Room, NEW a, NEW b,
         Before(p, r, a, b), a \in Nested <=> b \in Nested, b \in pool'.held
  PROVE  a \in pool'.held
<1>1. PICK s : PoolInv(s) /\ Grants(p, s) /\ Grants(s, pool')
  BY DrainStep
<1>2. s.held \subseteq pool'.held
  <2>1. CASE pool' = s
    BY <2>1
  <2>2. ASSUME NEW x \in Room, NEW k \in DOMAIN s.queue[x], Granted(s, pool', x, k)
        PROVE  s.held \subseteq pool'.held
    BY <2>2 DEF Granted
  <2> QED  BY <1>1, <2>1, <2>2 DEF Grants
<1>3. a \in s.held \/ Before(s, r, a, b)
  BY <1>1, GrantKeepsOrder
<1>4. a \in pool'.held \/ Before(pool', r, a, b)
  BY <1>1, <1>2, <1>3, GrantKeepsOrder
<1>5. PoolInv(pool')
  BY DrainKeeps
<1> QED  BY <1>4, <1>5, BeforeWaits

LEMMA StepKeepsOrder ==
  ASSUME PoolInv(pool), Conserving(pool), [PoolNext]_poolVars,
         NEW r \in Room, NEW a, NEW b, Before(pool, r, a, b),
         a \in Nested <=> b \in Nested, b \in pool'.held
  PROVE  a \in pool'.held
<1>1. b \notin pool.held
  BY BeforeWaits
<1>2. ASSUME NEW q \in Request, Acquire(q) PROVE a \in pool'.held
  <2> DEFINE e == Enqueue(pool, q)
  <2>1. PoolInv(e) /\ DrainFrom(e)
    BY <1>2, EntryJoins DEF Acquire
  <2>2. /\ e.queue = [pool.queue EXCEPT ![RoomOf[q]] = Append(pool.queue[RoomOf[q]], q)]
        /\ pool.queue \in [Room -> Seq(Request)] /\ RoomOf[q] \in Room
    BY PoolAssumption DEF Enqueue, PoolInv, Pool
  <2> HIDE DEF e
  <2>3. \A i \in DOMAIN pool.queue[r] :
          i \in DOMAIN e.queue[r] /\ e.queue[r][i] = pool.queue[r][i]
    <3>1. CASE r # RoomOf[q]
      BY <2>2, <3>1
    <3>2. CASE r = RoomOf[q]
      BY <2>2, <3>2, AppendProperties
    <3> QED  BY <3>1, <3>2
  <2>4. Before(e, r, a, b)
    BY <2>3 DEF Before
  <2> QED  BY <2>1, <2>4, DrainKeepsOrder
<1>3. ASSUME NEW q \in Request, Cancel(q) PROVE FALSE
  <2>1. PoolInv(Withdraw(pool, q)) /\ Conserving(Withdraw(pool, q))
    BY <1>3, WithdrawKeeps, CancelConserves DEF Cancel
  <2>2. pool' = Withdraw(pool, q)
    BY <1>3, <2>1, DrainLeavesAlone DEF Cancel
  <2>3. pool'.held = pool.held
    BY <2>2 DEF Withdraw, Unqueue, PoolInv, Pool
  <2> QED  BY <1>1, <2>3
<1>4. ASSUME NEW q \in Request, Release(q) PROVE a \in pool'.held
  <2> DEFINE v == Vacate(pool, q)
  <2>1. PoolInv(v) /\ DrainFrom(v)
    BY <1>4, VacateKeeps DEF Release
  <2>2. v.queue = pool.queue
    BY DEF Vacate, PoolInv, Pool
  <2> HIDE DEF v
  <2>3. Before(v, r, a, b)
    BY <2>2 DEF Before
  <2> QED  BY <2>1, <2>3, DrainKeepsOrder
<1>5. CASE Close
  <2>1. pool'.held = pool.held
    BY <1>5 DEF Close, ClosedPool, PoolInv, Pool
  <2> QED  BY <1>1, <2>1
<1>6. CASE UNCHANGED poolVars
  BY <1>1, <1>6 DEF poolVars
<1> QED  BY <1>2, <1>3, <1>4, <1>5, <1>6 DEF PoolNext

\* Within a room the older of two requests of a kind is granted first: a newer
\* one does not overtake it, whichever operation makes the place.
THEOREM NoOvertaking == PoolSpec => OlderFirst
<1> DEFINE Step == \A r \in Room : \A i, j \in DOMAIN pool.queue[r] :
                     LET older == pool.queue[r][i]
                         newer == pool.queue[r][j]
                     IN (i < j /\ (older \in Nested <=> newer \in Nested)
                           /\ newer \in pool'.held) => older \in pool'.held
<1>1. PoolInv(pool) /\ Conserving(pool) /\ [PoolNext]_poolVars => Step
  BY StepKeepsOrder DEF Before
<1>2. PoolInit => Conserving(pool)
  BY InitConserves
<1>3. PoolInv(pool) /\ Conserving(pool) /\ [PoolNext]_poolVars
        => PoolInv(pool)' /\ Conserving(pool)'
  BY StepKeeps, StepConserves
<1>4. OlderFirst <=> [][Step]_poolVars
  BY DEF OlderFirst
<1> HIDE DEF Step
<1> QED  BY InitHolds, <1>1, <1>2, <1>3, <1>4, PTL DEF PoolSpec

-----------------------------------------------------------------------------
(* RuntimeCapacity: the registry that makes and removes pools.  First, whoever *)
(* waits or holds a lease at one of them.                                      *)

Parties(p) == p.held \cup WaitersOf(p)

LEMMA GrantMoves ==
  ASSUME NEW p, NEW t, Grants(p, t)
  PROVE  Parties(t) = Parties(p) /\ p.held \subseteq t.held
<1>1. CASE t = p
  BY <1>1
<1>2. ASSUME NEW r \in Room, NEW k \in DOMAIN p.queue[r], Granted(p, t, r, k)
      PROVE  Parties(t) = Parties(p) /\ p.held \subseteq t.held
  <2> DEFINE q == p.queue[r][k]
  <2>1. /\ q \in WaitersOf(p) /\ WaitersOf(t) = WaitersOf(p) \ {q}
        /\ t.held = p.held \cup {q}
    BY <1>2 DEF Granted
  <2> HIDE DEF q
  <2> QED  BY <2>1 DEF Parties
<1> QED  BY <1>1, <1>2 DEF Grants

\* drain() moves waiters to leases and forgets nobody.
LEMMA DrainMoves ==
  ASSUME NEW o, NEW p, PoolInv(p), DrainAt(o, p)
  PROVE  \E u : /\ pools' = [pools EXCEPT ![o] = u]
                /\ PoolInv(u) /\ Parties(u) = Parties(p) /\ p.held \subseteq u.held
<1> DEFINE s == GrantNext(p)
           u == GrantNext(s)
<1>1. pools' = [pools EXCEPT ![o] = u]
  BY Zenon DEF DrainAt
<1>2. PoolInv(s) /\ Grants(p, s)
  BY GrantStep
<1> HIDE DEF s
<1>3. PoolInv(u) /\ Grants(s, u)
  BY <1>2, GrantStep
<1> HIDE DEF u
<1>4. Parties(u) = Parties(p) /\ p.held \subseteq u.held
  BY <1>2, <1>3, GrantMoves
<1> QED  BY <1>1, <1>3, <1>4

\* The two counters that say whether a pool is idle say whether it is empty.
LEMMA IdleIsEmpty ==
  ASSUME NEW p, PoolInv(p)
  PROVE  /\ p.active \in Nat /\ p.waiting \in Nat
         /\ p.active = 0 <=> p.held = {}
         /\ p.waiting = 0 <=> WaitersOf(p) = {}
<1>1. /\ IsFiniteSet(p.held) /\ p.active = Cardinality(p.held)
      /\ IsFiniteSet(WaitersOf(p)) /\ p.waiting = Cardinality(WaitersOf(p))
  BY DEF PoolInv, LeaseInv, LeasesCounted, QueueInv
<1>2. p.active \in Nat /\ p.waiting \in Nat
  BY DEF PoolInv, Pool
<1> QED  BY <1>1, <1>2, FS_EmptySet

-----------------------------------------------------------------------------
(* The inductive invariant of the registry *)

RegistryTyped ==
  /\ pools \in [Object -> Pool]
  /\ providers \in [Provider -> Slot \cup {0}]
  /\ uses \in [Request -> Object \cup {None}]
  /\ stage \in [Request -> {"idle", "awaiting", "rejected", "leased"}]
  /\ closed \in BOOLEAN
  /\ \A q \in Request : uses[q] = None <=> stage[q] = "idle"

\* Whoever waits or holds a lease at an object still refers to that object.
PartiesKnown ==
  /\ \A o \in Object : \A q \in pools[o].held :
       uses[q] = o /\ stage[q] \in {"awaiting", "leased"}
  /\ \A o \in Object : \A q \in WaitersOf(pools[o]) :
       uses[q] = o /\ stage[q] = "awaiting"
  /\ \A q \in Request : stage[q] = "leased" => q \in pools[uses[q]].held

\* The Map holds the objects somebody is at, and those a caller that was
\* refused has yet to look at.
MapExact ==
  /\ closed => Listed = {}
  /\ ~closed => \A o \in Object \ Listed : Parties(pools[o]) = {}
  /\ \A o \in Listed :
       \/ Parties(pools[o]) # {}
       \/ \E q \in Request : uses[q] = o /\ stage[q] = "rejected"

PoolsHold == \A o \in Object : PoolInv(pools[o])

RegistryInv == RegistryTyped /\ PoolsHold /\ PartiesKnown /\ MapExact

LEMMA PartiesTyped ==
  ASSUME NEW p, PoolInv(p)
  PROVE  /\ p \in Pool /\ p.held \subseteq Request /\ WaitersOf(p) \subseteq Request
         /\ p.held \cap WaitersOf(p) = {}
  BY DEF PoolInv, Pool, WaitersOf

LEMMA ObjectParts ==
  /\ \A o \in Object :
       o[1] \in Provider /\ o[2] \in Slot /\ o = <<o[1], o[2]>>
  /\ \A v \in Provider, g \in Slot :
       <<v, g>> \in Object /\ <<v, g>>[1] = v /\ <<v, g>>[2] = g
  /\ 0 \notin Slot
  /\ \A o \in Object : o \in Listed <=> providers[o[1]] = o[2]
  /\ Listed \subseteq Object
<1>1. 0 \notin Slot
  BY DEF Slot
<1> QED  BY <1>1 DEF Object, Listed

\* The Map before and after a pool is set or deleted.
LEMMA ListedMore ==
  ASSUME RegistryTyped, NEW o \in Object,
         o \in Listed \/ providers[o[1]] = 0,
         providers' = [providers EXCEPT ![o[1]] = o[2]]
  PROVE  /\ Listed' = Listed \cup {o}
         /\ providers' \in [Provider -> Slot \cup {0}]
<1>1. /\ o[1] \in Provider /\ o[2] \in Slot /\ 0 \notin Slot
      /\ providers \in [Provider -> Slot \cup {0}]
  BY ObjectParts DEF RegistryTyped
<1>2. ASSUME NEW x \in Object
      PROVE  x \in Listed' <=> x \in Listed \/ x = o
  <2>1. /\ x[1] \in Provider /\ x[2] \in Slot
        /\ x \in Listed <=> providers[x[1]] = x[2]
        /\ x = <<x[1], x[2]>> /\ o = <<o[1], o[2]>>
        /\ o \in Listed <=> providers[o[1]] = o[2]
    BY ObjectParts
  <2>2. x \in Listed' <=> providers'[x[1]] = x[2]
    BY DEF Listed
  <2>3. CASE x[1] = o[1]
    <3>1. providers'[x[1]] = o[2]
      BY <1>1, <2>3
    <3>2. x[2] = o[2] => x = o
      BY <2>1, <2>3, Zenon
    <3>3. x \in Listed => x[2] = o[2]
      BY <1>1, <2>1, <2>3
    <3> QED  BY <2>2, <3>1, <3>2, <3>3
  <2>4. CASE x[1] # o[1]
    <3>1. providers'[x[1]] = providers[x[1]]
      BY <1>1, <2>1, <2>4
    <3> QED  BY <2>1, <2>2, <2>4, <3>1
  <2> QED  BY <2>3, <2>4
<1>3. Listed' \subseteq Object /\ Listed \subseteq Object
  BY DEF Listed
<1> QED  BY <1>1, <1>2, <1>3

LEMMA ListedLess ==
  ASSUME RegistryTyped, NEW o \in Object, o \in Listed,
         providers' = [providers EXCEPT ![o[1]] = 0]
  PROVE  /\ Listed' = Listed \ {o}
         /\ providers' \in [Provider -> Slot \cup {0}]
<1>1. /\ o[1] \in Provider /\ o[2] \in Slot /\ 0 \notin Slot
      /\ providers \in [Provider -> Slot \cup {0}]
  BY ObjectParts DEF RegistryTyped
<1>2. ASSUME NEW x \in Object
      PROVE  x \in Listed' <=> x \in Listed /\ x # o
  <2>1. /\ x[1] \in Provider /\ x[2] \in Slot
        /\ x \in Listed <=> providers[x[1]] = x[2]
        /\ x = <<x[1], x[2]>> /\ o = <<o[1], o[2]>>
        /\ providers[o[1]] = o[2]
    BY ObjectParts
  <2>2. x \in Listed' <=> providers'[x[1]] = x[2]
    BY DEF Listed
  <2>3. CASE x[1] = o[1]
    <3>1. providers'[x[1]] = 0
      BY <1>1, <2>3
    <3>2. x \in Listed => x[2] = o[2]
      BY <2>1, <2>3
    <3>3. x[2] = o[2] => x = o
      BY <2>1, <2>3, Zenon
    <3>4. x[2] # 0
      BY <1>1, <2>1
    <3> QED  BY <2>2, <3>1, <3>2, <3>3, <3>4
  <2>4. CASE x[1] # o[1]
    <3>1. providers'[x[1]] = providers[x[1]]
      BY <1>1, <2>1, <2>4
    <3> QED  BY <2>1, <2>2, <2>4, <3>1
  <2> QED  BY <2>3, <2>4
<1>3. Listed' \subseteq Object /\ Listed \subseteq Object
  BY DEF Listed
<1> QED  BY <1>1, <1>2, <1>3

\* A caller that refers to no object leaves a slot of its provider free.
LEMMA SlotLeft ==
  ASSUME RegistryTyped,
         NEW q \in Request, uses[q] = None, NEW v \in Provider
  PROVE  \E g \in Slot : \A x \in Request : uses[x] # <<v, g>>
<1> DEFINE S == Request \ {q}
           T == {g \in Slot : \E x \in S : uses[x] = <<v, g>>}
           N == Cardinality(Request)
<1>1. IsFiniteSet(Request) /\ N \in Nat /\ IsFiniteSet(S) /\ Cardinality(S) = N - 1
  BY FS_CardinalityType, FS_RemoveElement, CapacityAssumption
<1>2. IsFiniteSet(Slot) /\ Cardinality(Slot) = N
  <2>1. Slot = 1 .. N /\ 1 \in Int
    BY DEF Slot
  <2>2. IsFiniteSet(1 .. N) /\ Cardinality(1 .. N) = N
    BY <1>1, FS_Interval
  <2> QED  BY <2>1, <2>2
<1>3. IsFiniteSet(T) /\ Cardinality(T) <= Cardinality(S)
  <2> DEFINE f == [x \in S |-> IF uses[x] = None THEN 0 ELSE uses[x][2]]
             U == {f[x] : x \in S}
  <2>1. IsFiniteSet(U) /\ Cardinality(U) <= Cardinality(S)
    <3>1. f \in Surjection(S, U)
      BY DEF Surjection
    <3> HIDE DEF f, U
    <3> QED  BY <1>1, <3>1, FS_Surjection
  <2>2. T \subseteq U
    <3> SUFFICES ASSUME NEW g \in T PROVE g \in U
      OBVIOUS
    <3>1. PICK x \in S : uses[x] = <<v, g>>
      OBVIOUS
    <3>2. <<v, g>> \in Object /\ <<v, g>>[2] = g
      BY ObjectParts
    <3>3. uses[x] # None
      <4>1. None \notin Object
        BY <1>1, CapacityAssumption DEF Object, Slot
      <4> QED  BY <3>1, <3>2, <4>1
    <3>4. f[x] = g
      BY <3>1, <3>2, <3>3
    <3> QED  BY <3>4
  <2> HIDE DEF T, U
  <2>3. IsFiniteSet(T) /\ Cardinality(T) <= Cardinality(U)
    BY <2>1, <2>2, FS_Subset
  <2>4. /\ Cardinality(T) \in Nat /\ Cardinality(U) \in Nat /\ Cardinality(S) \in Nat
    BY <1>1, <2>1, <2>3, FS_CardinalityType
  <2> QED  BY <2>1, <2>3, <2>4
<1>4. T # Slot
  <2> HIDE DEF T, S, N
  <2> QED  BY <1>1, <1>2, <1>3
<1>5. PICK g \in Slot : g \notin T
  BY <1>4
<1>6. uses[q] # <<v, g>>
  <2>1. None \notin Object
    BY <1>1, CapacityAssumption DEF Object, Slot
  <2> QED  BY <2>1, ObjectParts
<1> QED  BY <1>5, <1>6

LEMMA NoneIsNoObject == None \notin Object
<1>1. Slot \subseteq Nat
  BY FS_CardinalityType, CapacityAssumption DEF Slot
<1> QED  BY <1>1, CapacityAssumption DEF Object

\* The object acquireProvider works on: the one of the Map, or one that nobody
\* refers to.  Either way the pool p it starts from has the parties of pools[o].
LEMMA PoolFound ==
  ASSUME RegistryInv, ~closed,
         NEW q \in Request, stage[q] = "idle", NEW v \in Provider,
         NEW o, o = PoolFor(v),
         NEW p, p = IF providers[v] # 0 THEN pools[o] ELSE EmptyPool
  PROVE  /\ o \in Object /\ o[1] = v
         /\ o \in Listed \/ providers[v] = 0
         /\ PoolInv(p) /\ p.held = pools[o].held /\ WaitersOf(p) = WaitersOf(pools[o])
<1> USE DEF RegistryInv
<1>1. CASE providers[v] # 0
  <2>1. o = <<v, providers[v]>> /\ p = pools[o] /\ providers[v] \in Slot
    BY <1>1 DEF PoolFor, RegistryTyped
  <2>2. o \in Object /\ o[1] = v /\ o[2] = providers[v]
    BY <2>1, ObjectParts
  <2> QED  BY <2>1, <2>2, ObjectParts DEF PoolsHold
<1>2. CASE providers[v] = 0
  <2> DEFINE Free(g) == \A x \in Request : uses[x] # <<v, g>>
             g0 == CHOOSE g \in Slot : Free(g)
  <2>1. uses[q] = None
    BY DEF RegistryTyped
  <2>2. \E g \in Slot : Free(g)
    BY <2>1, SlotLeft
  <2>3. o = <<v, g0>> /\ p = EmptyPool
    BY <1>2 DEF PoolFor
  <2>4. g0 \in Slot /\ Free(g0)
    <3> HIDE DEF Free
    <3> QED  BY <2>2
  <2> HIDE DEF g0
  <2>5. o \in Object /\ o[1] = v
    BY <2>3, <2>4, ObjectParts
  <2>6. \A x \in Request : uses[x] # o
    BY <2>3, <2>4
  <2>7. pools[o].held = {} /\ WaitersOf(pools[o]) = {}
    <3>1. pools[o].held \subseteq Request /\ WaitersOf(pools[o]) \subseteq Request
      BY <2>5, PartiesTyped DEF PoolsHold
    <3> QED  BY <2>5, <2>6, <3>1 DEF PartiesKnown
  <2>8. PoolInv(p) /\ p.held = {} /\ WaitersOf(p) = {}
    BY <2>3, EmptyPoolHolds
  <2> QED  BY <1>2, <2>5, <2>7, <2>8
<1> QED  BY <1>1, <1>2

\* One object's pool changes.
LEMMA PoolSet ==
  ASSUME RegistryInv, NEW o \in Object, NEW u, PoolInv(u),
         pools' = [pools EXCEPT ![o] = u]
  PROVE  /\ pools' \in [Object -> Pool] /\ pools'[o] = u
         /\ \A x \in Object : x # o => pools'[x] = pools[x]
         /\ PoolsHold'
<1>1. u \in Pool /\ pools \in [Object -> Pool]
  BY DEF PoolInv, RegistryInv, RegistryTyped
<1>2. /\ pools' \in [Object -> Pool] /\ pools'[o] = u
      /\ \A x \in Object : x # o => pools'[x] = pools[x]
  BY <1>1
<1>3. \A x \in Object : PoolInv(pools'[x])
  BY <1>2 DEF RegistryInv, PoolsHold
<1> QED  BY <1>2, <1>3 DEF PoolsHold

\* acquireProvider() that is refused: the caller refers to an object of the Map.
LEMMA RefusedKeeps ==
  ASSUME RegistryInv, ~closed, UNCHANGED closed,
         NEW q \in Request, stage[q] = "idle", NEW o \in Object,
         o \in Listed \/ providers[o[1]] = 0,
         NEW p, PoolInv(p), p.held = pools[o].held, WaitersOf(p) = WaitersOf(pools[o]),
         providers' = [providers EXCEPT ![o[1]] = o[2]],
         pools' = [pools EXCEPT ![o] = p],
         uses' = [uses EXCEPT ![q] = o],
         stage' = [stage EXCEPT ![q] = "rejected"]
  PROVE  RegistryInv'
<1> USE DEF RegistryInv
<1>1. /\ pools' \in [Object -> Pool] /\ pools'[o] = p /\ PoolsHold'
      /\ \A x \in Object : x # o => pools'[x] = pools[x]
  BY PoolSet
<1>2. /\ Listed' = Listed \cup {o}
      /\ providers' \in [Provider -> Slot \cup {0}]
  BY ListedMore
<1>3. \A x \in Object :
        pools'[x].held = pools[x].held /\ WaitersOf(pools'[x]) = WaitersOf(pools[x])
  BY <1>1
<1>4. RegistryTyped'
  BY <1>1, <1>2, NoneIsNoObject DEF RegistryTyped
<1>5. uses'[q] = o /\ stage'[q] = "rejected" /\ uses[q] = None
      /\ \A x \in Request : x # q => uses'[x] = uses[x] /\ stage'[x] = stage[x]
  BY DEF RegistryTyped
<1>6. /\ \A x \in Object :
           pools[x].held \subseteq Request /\ WaitersOf(pools[x]) \subseteq Request
      /\ \A x \in Request : stage[x] = "leased" => uses[x] \in Object
  BY PartiesTyped DEF PoolsHold, RegistryTyped
<1>7. PartiesKnown'
  BY <1>3, <1>5, <1>6 DEF PartiesKnown
<1>8. \A x \in Object : Parties(pools'[x]) = Parties(pools[x])
  BY <1>3 DEF Parties
<1>9. Object' = Object /\ Listed \subseteq Object
  BY ObjectParts DEF Object, Slot
<1>10. MapExact'
  BY <1>2, <1>5, <1>8, <1>9 DEF MapExact
<1> QED  BY <1>1, <1>4, <1>7, <1>10

\* acquireProvider() that waits or is served at once.
LEMMA AcceptedKeeps ==
  ASSUME RegistryInv, ~closed, UNCHANGED closed,
         NEW q \in Request, stage[q] = "idle", NEW o \in Object,
         o \in Listed \/ providers[o[1]] = 0,
         NEW p, PoolInv(p), p.held = pools[o].held, WaitersOf(p) = WaitersOf(pools[o]),
         ~Full(p, q), DrainAt(o, Enqueue(p, q)),
         providers' = [providers EXCEPT ![o[1]] = o[2]],
         uses' = [uses EXCEPT ![q] = o],
         stage' = [stage EXCEPT ![q] = "awaiting"]
  PROVE  RegistryInv'
<1> USE DEF RegistryInv
<1>1. q \notin p.held /\ q \notin WaitersOf(p)
  BY DEF PartiesKnown
<1>2. p.waiting < MaxWaiting - (IF q \in Nested THEN 0 ELSE QueueReserve)
  <2>1. p.waiting \in Nat
    BY IdleIsEmpty
  <2> QED  BY <2>1, ReserveBounds DEF Full
<1> DEFINE e == Enqueue(p, q)
<1>3. PoolInv(e) /\ e.held = p.held /\ WaitersOf(e) = WaitersOf(p) \cup {q}
  <2>1. ~Queued(p, q)
    BY <1>1 DEF WaitersOf
  <2> QED  BY <1>1, <1>2, <2>1, EntryJoins
<1>4. DrainAt(o, e)
  OBVIOUS
<1> HIDE DEF e
<1>5. PICK u : /\ pools' = [pools EXCEPT ![o] = u]
               /\ PoolInv(u) /\ Parties(u) = Parties(e) /\ e.held \subseteq u.held
  BY <1>3, <1>4, DrainMoves
<1>6. /\ pools' \in [Object -> Pool] /\ pools'[o] = u /\ PoolsHold'
      /\ \A x \in Object : x # o => pools'[x] = pools[x]
  BY <1>5, PoolSet
<1>7. /\ Listed' = Listed \cup {o}
      /\ providers' \in [Provider -> Slot \cup {0}]
  BY ListedMore
<1>8. RegistryTyped'
  BY <1>6, <1>7, NoneIsNoObject DEF RegistryTyped
<1>9. /\ uses'[q] = o /\ stage'[q] = "awaiting" /\ uses[q] = None
      /\ \A x \in Request : x # q => uses'[x] = uses[x] /\ stage'[x] = stage[x]
  BY DEF RegistryTyped
<1>10. /\ \A x \in Object :
            pools[x].held \subseteq Request /\ WaitersOf(pools[x]) \subseteq Request
       /\ \A x \in Request : stage[x] = "leased" => uses[x] \in Object
       /\ u.held \cap WaitersOf(u) = {} /\ u.held \subseteq Request
       /\ WaitersOf(u) \subseteq Request
  BY <1>5, PartiesTyped DEF PoolsHold, RegistryTyped
<1>11. /\ u.held \cup WaitersOf(u) = pools[o].held \cup WaitersOf(pools[o]) \cup {q}
       /\ pools[o].held \subseteq u.held
  BY <1>3, <1>5 DEF Parties
<1>12. PartiesKnown'
  <2>1. ASSUME NEW x \in Object, NEW y \in pools'[x].held
        PROVE  uses'[y] = x /\ stage'[y] \in {"awaiting", "leased"}
    BY <1>6, <1>9, <1>10, <1>11 DEF PartiesKnown
  <2>2. ASSUME NEW x \in Object, NEW y \in WaitersOf(pools'[x])
        PROVE  uses'[y] = x /\ stage'[y] = "awaiting"
    BY <1>6, <1>9, <1>10, <1>11 DEF PartiesKnown
  <2>3. ASSUME NEW y \in Request, stage'[y] = "leased"
        PROVE  y \in pools'[uses'[y]].held
    BY <2>3, <1>6, <1>9, <1>10, <1>11 DEF PartiesKnown
  <2> QED  BY <2>1, <2>2, <2>3 DEF PartiesKnown
<1>13. q \in Parties(pools'[o])
  BY <1>6, <1>11 DEF Parties
<1>14. Object' = Object /\ Listed \subseteq Object
  BY ObjectParts DEF Object, Slot
<1>15. MapExact'
  BY <1>6, <1>7, <1>9, <1>13, <1>14 DEF MapExact
<1> QED  BY <1>6, <1>8, <1>12, <1>15

LEMMA AcquireProviderKeeps ==
  ASSUME RegistryInv, NEW q \in Request, NEW v \in Provider,
         AcquireProvider(q, v)
  PROVE  RegistryInv'
<1> DEFINE o == PoolFor(v)
           p == IF providers[v] # 0 THEN pools[o] ELSE EmptyPool
<1>1. ~closed /\ stage[q] = "idle" /\ UNCHANGED closed
  BY DEF AcquireProvider
<1>2. PICK refused \in {Full(p, q), TRUE} :
        /\ providers' = [providers EXCEPT ![v] = o[2]]
        /\ IF refused THEN pools' = [pools EXCEPT ![o] = p]
           ELSE DrainAt(o, Enqueue(p, q))
        /\ uses' = [uses EXCEPT ![q] = o]
        /\ stage' = [stage EXCEPT ![q] = IF refused THEN "rejected" ELSE "awaiting"]
  BY Zenon DEF AcquireProvider
<1>3. /\ o \in Object /\ o[1] = v
      /\ o \in Listed \/ providers[v] = 0
      /\ PoolInv(p) /\ p.held = pools[o].held /\ WaitersOf(p) = WaitersOf(pools[o])
  <2> HIDE DEF o
  <2> QED  BY <1>1, PoolFound DEF o
<1> HIDE DEF o, p
<1>4. CASE refused
  <2>1. /\ pools' = [pools EXCEPT ![o] = p] /\ uses' = [uses EXCEPT ![q] = o]
        /\ stage' = [stage EXCEPT ![q] = "rejected"]
        /\ providers' = [providers EXCEPT ![o[1]] = o[2]]
    BY <1>2, <1>3, <1>4
  <2> QED  BY <1>1, <1>3, <2>1, RefusedKeeps
<1>5. CASE ~refused
  <2>1. /\ DrainAt(o, Enqueue(p, q)) /\ uses' = [uses EXCEPT ![q] = o]
        /\ stage' = [stage EXCEPT ![q] = "awaiting"]
        /\ providers' = [providers EXCEPT ![o[1]] = o[2]]
    BY <1>2, <1>3, <1>5
  <2>2. ~Full(p, q)
    BY <1>5
  <2> QED  BY <1>1, <1>3, <2>1, <2>2, AcceptedKeeps
<1> QED  BY <1>4, <1>5

\* The wait deadline: the waiter leaves, and others may take their turn.
LEMMA CancelWaitKeeps ==
  ASSUME RegistryInv, NEW q \in Request, CancelWait(q)
  PROVE  RegistryInv'
<1> USE DEF RegistryInv
<1> DEFINE o == uses[q]
           p == pools[o]
           e == Withdraw(p, q)
<1>1. /\ stage[q] = "awaiting" /\ Queued(p, q) /\ DrainAt(o, e)
      /\ stage' = [stage EXCEPT ![q] = "rejected"] /\ UNCHANGED <<providers, uses, closed>>
  BY DEF CancelWait
<1>2. o \in Object /\ PoolInv(p)
  BY <1>1 DEF RegistryTyped, PoolsHold
<1> HIDE DEF o
<1>3. PoolInv(e) /\ e.held = p.held /\ WaitersOf(e) = WaitersOf(p) \ {q}
  BY <1>1, <1>2, WithdrawKeeps
<1> HIDE DEF e
<1>4. PICK u : /\ pools' = [pools EXCEPT ![o] = u]
               /\ PoolInv(u) /\ Parties(u) = Parties(e) /\ e.held \subseteq u.held
  BY <1>1, <1>3, DrainMoves
<1>5. /\ pools' \in [Object -> Pool] /\ pools'[o] = u /\ PoolsHold'
      /\ \A x \in Object : x # o => pools'[x] = pools[x]
  BY <1>2, <1>4, PoolSet
<1>6. RegistryTyped'
  BY <1>1, <1>5 DEF RegistryTyped, Object, Slot
<1>7. /\ stage'[q] = "rejected" /\ uses' = uses /\ uses[q] = o
      /\ \A x \in Request : x # q => stage'[x] = stage[x]
  BY <1>1 DEF RegistryTyped, o
<1>8. /\ q \in WaitersOf(p) /\ q \notin p.held
      /\ \A x \in Object :
           pools[x].held \subseteq Request /\ WaitersOf(pools[x]) \subseteq Request
      /\ \A x \in Request : stage[x] = "leased" => uses[x] \in Object
      /\ u.held \cap WaitersOf(u) = {} /\ u.held \subseteq Request
      /\ WaitersOf(u) \subseteq Request
  <2>1. q \in WaitersOf(p)
    BY <1>1 DEF WaitersOf
  <2>2. p.held \cap WaitersOf(p) = {}
    BY <1>2, PartiesTyped
  <2> QED  BY <2>1, <2>2, <1>4, PartiesTyped DEF PoolsHold, RegistryTyped
<1>9. /\ u.held \cup WaitersOf(u) = p.held \cup (WaitersOf(p) \ {q})
      /\ p.held \subseteq u.held
  BY <1>3, <1>4 DEF Parties
<1>10. PartiesKnown'
  <2>1. ASSUME NEW x \in Object, NEW y \in pools'[x].held
        PROVE  uses'[y] = x /\ stage'[y] \in {"awaiting", "leased"}
    BY <1>2, <1>5, <1>7, <1>8, <1>9 DEF PartiesKnown, p
  <2>2. ASSUME NEW x \in Object, NEW y \in WaitersOf(pools'[x])
        PROVE  uses'[y] = x /\ stage'[y] = "awaiting"
    BY <1>2, <1>5, <1>7, <1>8, <1>9 DEF PartiesKnown, p
  <2>3. ASSUME NEW y \in Request, stage'[y] = "leased"
        PROVE  y \in pools'[uses'[y]].held
    BY <2>3, <1>2, <1>5, <1>7, <1>8, <1>9 DEF PartiesKnown, p
  <2>4. Object' = Object
    BY DEF Object, Slot
  <2> QED  BY <2>1, <2>2, <2>3, <2>4 DEF PartiesKnown
<1>11. MapExact'
  <2>1. Listed' = Listed /\ Object' = Object
    BY <1>1 DEF Listed, Object, Slot
  <2>2. ~closed => o \in Listed
    BY <1>2, <1>8 DEF MapExact, Parties, p
  <2>3. ~closed => \A x \in Object \ Listed : Parties(pools'[x]) = {}
    BY <2>2, <1>5 DEF MapExact
  <2>4. ASSUME NEW x \in Listed
        PROVE  \/ Parties(pools'[x]) # {}
               \/ \E y \in Request : uses'[y] = x /\ stage'[y] = "rejected"
    <3>1. CASE x = o
      BY <3>1, <1>7
    <3>2. CASE x # o
      <4>1. pools'[x] = pools[x]
        BY <3>2, <1>5, ObjectParts
      <4>2. stage[q] # "rejected"
        BY <1>1
      <4> QED  BY <4>1, <4>2, <1>7 DEF MapExact
    <3> QED  BY <3>1, <3>2
  <2> QED  BY <1>1, <2>1, <2>3, <2>4 DEF MapExact
<1> QED  BY <1>5, <1>6, <1>10, <1>11

LEMMA ResolveKeeps ==
  ASSUME RegistryInv, NEW q \in Request, Resolve(q)
  PROVE  RegistryInv'
<1> USE DEF RegistryInv
<1>1. /\ stage[q] = "awaiting" /\ q \in pools[uses[q]].held
      /\ stage' = [stage EXCEPT ![q] = "leased"]
      /\ UNCHANGED <<pools, providers, uses, closed>>
  BY DEF Resolve
<1>2. /\ stage'[q] = "leased" /\ \A x \in Request : x # q => stage'[x] = stage[x]
      /\ uses[q] \in Object
  BY <1>1 DEF RegistryTyped
<1>3. /\ Listed' = Listed /\ Object' = Object
      /\ Slot' = Slot
  BY <1>1 DEF Listed, Object, Slot
<1>4. RegistryTyped'
  BY <1>1, <1>2, <1>3 DEF RegistryTyped
<1>5. PoolsHold'
  BY <1>1, <1>3 DEF PoolsHold
<1>6. \A x \in Object :
        /\ pools[x].held \subseteq Request /\ WaitersOf(pools[x]) \subseteq Request
        /\ pools[x].held \cap WaitersOf(pools[x]) = {}
  BY PartiesTyped DEF PoolsHold
<1>7. PartiesKnown'
  BY <1>1, <1>2, <1>3, <1>6 DEF PartiesKnown
<1>8. MapExact'
  BY <1>1, <1>2, <1>3 DEF MapExact
<1> QED  BY <1>4, <1>5, <1>7, <1>8

\* removeIdleProvider(): the object leaves the Map if nobody is at it.
LEMMA Removed ==
  ASSUME RegistryTyped, NEW o \in Object, NEW p, PoolInv(p),
         providers' = Unlisted(o, p)
  PROVE  /\ providers' \in [Provider -> Slot \cup {0}]
         /\ Listed' = IF Parties(p) = {} THEN Listed \ {o}
                               ELSE Listed
<1>1. Idle(p) <=> Parties(p) = {}
  BY IdleIsEmpty DEF Idle, Parties
<1>2. CASE Parties(p) = {} /\ o \in Listed
  <2>1. providers' = [providers EXCEPT ![o[1]] = 0]
    BY <1>1, <1>2, ObjectParts DEF Unlisted
  <2> QED  BY <1>2, <2>1, ListedLess
<1>3. CASE ~(Parties(p) = {} /\ o \in Listed)
  <2>1. providers' = providers
    BY <1>1, <1>3, ObjectParts DEF Unlisted
  <2>2. Listed' = Listed
    BY <2>1 DEF Listed, Object, Slot
  <2> QED  BY <1>3, <2>1, <2>2 DEF RegistryTyped
<1> QED  BY <1>2, <1>3

LEMMA CaughtKeeps ==
  ASSUME RegistryInv, NEW q \in Request, Caught(q)
  PROVE  RegistryInv'
<1> USE DEF RegistryInv
<1> DEFINE o == uses[q]
<1>1. /\ stage[q] = "rejected" /\ providers' = Unlisted(o, pools[o])
      /\ uses' = [uses EXCEPT ![q] = None] /\ stage' = [stage EXCEPT ![q] = "idle"]
      /\ UNCHANGED <<pools, closed>>
  BY DEF Caught
<1>2. o \in Object /\ PoolInv(pools[o])
  BY <1>1 DEF RegistryTyped, PoolsHold
<1>3. /\ uses'[q] = None /\ stage'[q] = "idle" /\ uses[q] = o
      /\ \A x \in Request : x # q => uses'[x] = uses[x] /\ stage'[x] = stage[x]
  BY <1>1 DEF RegistryTyped
<1> HIDE DEF o
<1>4. /\ providers' \in [Provider -> Slot \cup {0}]
      /\ Listed' = IF Parties(pools[o]) = {} THEN Listed \ {o}
                            ELSE Listed
  BY <1>1, <1>2, Removed
<1>5. Object' = Object /\ Slot' = Slot
  BY DEF Object, Slot
<1>6. RegistryTyped'
  BY <1>1, <1>3, <1>4, <1>5 DEF RegistryTyped
<1>7. PoolsHold'
  BY <1>1, <1>5 DEF PoolsHold
<1>8. \A x \in Object :
        pools[x].held \subseteq Request /\ WaitersOf(pools[x]) \subseteq Request
  BY PartiesTyped DEF PoolsHold
<1>9. PartiesKnown'
  BY <1>1, <1>3, <1>5, <1>8 DEF PartiesKnown
<1>10. MapExact'
  <2>1. ASSUME ~closed, NEW x \in Object \ Listed'
        PROVE  Parties(pools[x]) = {}
    BY <2>1, <1>4 DEF MapExact
  <2>2. ASSUME NEW x \in Listed'
        PROVE  \/ Parties(pools[x]) # {}
               \/ \E y \in Request : uses'[y] = x /\ stage'[y] = "rejected"
    <3>1. CASE x = o
      BY <3>1, <1>4
    <3>2. CASE x # o
      <4>1. x \in Listed
        BY <1>4
      <4>2. \A y \in Request : uses[y] = x => y # q
        BY <3>2, <1>3
      <4> QED  BY <4>1, <4>2, <1>3 DEF MapExact
    <3> QED  BY <3>1, <3>2
  <2>3. closed => Listed' = {}
    BY <1>4 DEF MapExact
  <2> QED  BY <2>1, <2>2, <2>3, <1>1, <1>5 DEF MapExact
<1> QED  BY <1>6, <1>7, <1>9, <1>10

\* release(): the lease goes back, and the pool leaves the Map with its last.
LEMMA ReleaseProviderKeeps ==
  ASSUME RegistryInv, NEW q \in Request, ReleaseProvider(q)
  PROVE  RegistryInv'
<1> USE DEF RegistryInv
<1> DEFINE o == uses[q]
           p == pools[o]
           e == Vacate(p, q)
<1>1. /\ stage[q] = "leased" /\ DrainAt(o, e)
      /\ providers' = Unlisted(o, pools'[o])
      /\ uses' = [uses EXCEPT ![q] = None] /\ stage' = [stage EXCEPT ![q] = "idle"]
      /\ UNCHANGED closed
  BY DEF ReleaseProvider
<1>2. o \in Object /\ PoolInv(p) /\ q \in p.held
  BY <1>1 DEF RegistryTyped, PoolsHold, PartiesKnown
<1>3. /\ uses'[q] = None /\ stage'[q] = "idle" /\ uses[q] = o
      /\ \A x \in Request : x # q => uses'[x] = uses[x] /\ stage'[x] = stage[x]
  BY <1>1 DEF RegistryTyped
<1> HIDE DEF o
<1>4. PoolInv(e) /\ e.held = p.held \ {q} /\ WaitersOf(e) = WaitersOf(p)
  BY <1>2, VacateKeeps
<1> HIDE DEF e
<1>5. PICK u : /\ pools' = [pools EXCEPT ![o] = u]
               /\ PoolInv(u) /\ Parties(u) = Parties(e) /\ e.held \subseteq u.held
  BY <1>1, <1>4, DrainMoves
<1>6. /\ pools' \in [Object -> Pool] /\ pools'[o] = u /\ PoolsHold'
      /\ \A x \in Object : x # o => pools'[x] = pools[x]
  BY <1>2, <1>5, PoolSet
<1>7. /\ providers' \in [Provider -> Slot \cup {0}]
      /\ Listed' = IF Parties(u) = {} THEN Listed \ {o}
                            ELSE Listed
  BY <1>1, <1>2, <1>5, <1>6, Removed
<1>8. Object' = Object /\ Slot' = Slot
  BY DEF Object, Slot
<1>9. RegistryTyped'
  BY <1>1, <1>3, <1>6, <1>7, <1>8 DEF RegistryTyped
<1>10. /\ \A x \in Object :
            pools[x].held \subseteq Request /\ WaitersOf(pools[x]) \subseteq Request
       /\ \A x \in Request : stage[x] = "leased" => uses[x] \in Object
       /\ u.held \cap WaitersOf(u) = {} /\ u.held \subseteq Request
       /\ WaitersOf(u) \subseteq Request /\ p.held \cap WaitersOf(p) = {}
  BY <1>2, <1>5, PartiesTyped DEF PoolsHold, RegistryTyped
<1>11. /\ u.held \cup WaitersOf(u) = (p.held \cup WaitersOf(p)) \ {q}
       /\ p.held \ {q} \subseteq u.held
  BY <1>2, <1>4, <1>5, <1>10 DEF Parties
<1>12. PartiesKnown'
  <2>1. ASSUME NEW x \in Object, NEW y \in pools'[x].held
        PROVE  uses'[y] = x /\ stage'[y] \in {"awaiting", "leased"}
    BY <1>2, <1>3, <1>6, <1>10, <1>11 DEF PartiesKnown, p
  <2>2. ASSUME NEW x \in Object, NEW y \in WaitersOf(pools'[x])
        PROVE  uses'[y] = x /\ stage'[y] = "awaiting"
    BY <1>2, <1>3, <1>6, <1>10, <1>11 DEF PartiesKnown, p
  <2>3. ASSUME NEW y \in Request, stage'[y] = "leased"
        PROVE  y \in pools'[uses'[y]].held
    BY <2>3, <1>2, <1>3, <1>6, <1>10, <1>11 DEF PartiesKnown, p
  <2> QED  BY <2>1, <2>2, <2>3, <1>8 DEF PartiesKnown
<1>13. MapExact'
  <2>1. ASSUME ~closed, NEW x \in Object \ Listed'
        PROVE  Parties(pools'[x]) = {}
    <3>1. o \in Listed
      BY <2>1, <1>2 DEF MapExact, Parties, p
    <3>2. CASE x = o
      BY <3>1, <3>2, <1>6, <1>7
    <3>3. CASE x # o
      BY <2>1, <3>3, <1>6, <1>7 DEF MapExact
    <3> QED  BY <3>2, <3>3
  <2>2. ASSUME NEW x \in Listed'
        PROVE  \/ Parties(pools'[x]) # {}
               \/ \E y \in Request : uses'[y] = x /\ stage'[y] = "rejected"
    <3>1. CASE x = o
      BY <3>1, <1>6, <1>7
    <3>2. CASE x # o
      <4>1. x \in Listed /\ x \in Object
        BY <1>7, ObjectParts
      <4>2. \A y \in Request : uses[y] = x => y # q
        BY <3>2, <1>3
      <4>3. pools'[x] = pools[x]
        BY <3>2, <4>1, <1>6
      <4> QED  BY <4>1, <4>2, <4>3, <1>3 DEF MapExact
    <3> QED  BY <3>1, <3>2
  <2>3. closed => Listed' = {}
    BY <1>7 DEF MapExact
  <2> QED  BY <2>1, <2>2, <2>3, <1>1, <1>8 DEF MapExact
<1> QED  BY <1>6, <1>9, <1>12, <1>13

\* close(): the waiters of the Map's pools are refused, leases stay valid.
LEMMA CloseKeeps ==
  ASSUME RegistryInv, CloseRegistry
  PROVE  RegistryInv'
<1> USE DEF RegistryInv
<1>1. /\ ~closed /\ closed' = TRUE /\ uses' = uses
      /\ pools' = [o \in Object |-> IF o \in Listed
                                             THEN ClosedPool(pools[o]) ELSE pools[o]]
      /\ providers' = [v \in Provider |-> 0]
      /\ stage' = [q \in Request |->
                     IF uses[q] \in Listed /\ Queued(pools[uses[q]], q)
                     THEN "rejected" ELSE stage[q]]
  BY DEF CloseRegistry
<1>2. Object' = Object /\ Slot' = Slot
  BY DEF Object, Slot
<1>3. ASSUME NEW o \in Object
      PROVE  PoolInv(pools'[o]) /\ pools'[o].held = pools[o].held /\ WaitersOf(pools'[o]) = {}
  <2>1. CASE o \in Listed
    BY <2>1, <1>1, ClosedPoolHolds DEF PoolsHold
  <2>2. CASE o \notin Listed
    BY <2>2, <1>1 DEF PoolsHold, MapExact, Parties
  <2> QED  BY <2>1, <2>2
<1>4. PoolsHold'
  BY <1>2, <1>3 DEF PoolsHold
<1>5. RegistryTyped'
  <2>1. pools' \in [Object -> Pool]
    BY <1>1, <1>3, PartiesTyped
  <2>2. None \notin Listed
    BY NoneIsNoObject, ObjectParts
  <2>3. \A q \in Request : stage'[q] \in {stage[q], "rejected"}
    BY <1>1
  <2>4. \A q \in Request : uses[q] = None => stage'[q] = stage[q]
    BY <1>1, <2>2
  <2> QED  BY <2>1, <2>3, <2>4, <1>1, <1>2 DEF RegistryTyped
<1>6. ASSUME NEW o \in Object, NEW q \in pools[o].held
      PROVE  stage'[q] = stage[q]
  <2>1. q \in Request /\ q \notin WaitersOf(pools[o]) /\ uses[q] = o
    BY PartiesTyped DEF PoolsHold, PartiesKnown
  <2>2. ~Queued(pools[o], q)
    BY <2>1 DEF WaitersOf
  <2> QED  BY <2>1, <2>2, <1>1
<1>7. \A q \in Request :
        stage'[q] = "leased" => stage[q] = "leased" /\ uses[q] \in Object
  BY <1>1 DEF RegistryTyped
<1>8. PartiesKnown'
  <2>1. ASSUME NEW x \in Object, NEW y \in pools'[x].held
        PROVE  uses'[y] = x /\ stage'[y] \in {"awaiting", "leased"}
    BY <1>1, <1>3, <1>6 DEF PartiesKnown
  <2>2. ASSUME NEW y \in Request, stage'[y] = "leased"
        PROVE  y \in pools'[uses'[y]].held
    BY <2>2, <1>1, <1>3, <1>7 DEF PartiesKnown
  <2> QED  BY <1>2, <1>3, <2>1, <2>2 DEF PartiesKnown
<1>9. Listed' = {}
  <2>1. \A o \in Object : providers'[o[1]] # o[2]
    BY <1>1, ObjectParts
  <2> QED  BY <2>1, <1>2 DEF Listed
<1>10. MapExact'
  BY <1>1, <1>9 DEF MapExact
<1> QED  BY <1>4, <1>5, <1>8, <1>10

LEMMA RegistryInitHolds ==
  ASSUME RegistryInit
  PROVE  RegistryInv
<1>1. /\ pools = [o \in Object |-> EmptyPool]
      /\ providers = [v \in Provider |-> 0] /\ uses = [q \in Request |-> None]
      /\ stage = [q \in Request |-> "idle"] /\ closed = FALSE
  BY DEF RegistryInit
<1>2. PoolInv(EmptyPool) /\ EmptyPool \in Pool /\ EmptyPool.held = {} /\ WaitersOf(EmptyPool) = {}
  BY EmptyPoolHolds, PartiesTyped
<1>3. Listed = {}
  <2>1. \A o \in Object : providers[o[1]] # o[2]
    BY <1>1, ObjectParts
  <2> QED  BY <2>1 DEF Listed
<1>4. RegistryTyped
  BY <1>1, <1>2 DEF RegistryTyped
<1>5. PoolsHold /\ PartiesKnown
  BY <1>1, <1>2 DEF PoolsHold, PartiesKnown
<1>6. MapExact
  BY <1>1, <1>2, <1>3 DEF MapExact, Parties
<1> QED  BY <1>4, <1>5, <1>6 DEF RegistryInv

LEMMA RegistryStepKeeps ==
  ASSUME RegistryInv, [RegistryNext]_registryVars
  PROVE  RegistryInv'
<1>1. ASSUME NEW q \in Request, NEW v \in Provider, AcquireProvider(q, v)
      PROVE  RegistryInv'
  BY <1>1, AcquireProviderKeeps
<1>2. ASSUME NEW q \in Request, CancelWait(q) PROVE RegistryInv'
  BY <1>2, CancelWaitKeeps
<1>3. ASSUME NEW q \in Request, Resolve(q) PROVE RegistryInv'
  BY <1>3, ResolveKeeps
<1>4. ASSUME NEW q \in Request, Caught(q) PROVE RegistryInv'
  BY <1>4, CaughtKeeps
<1>5. ASSUME NEW q \in Request, ReleaseProvider(q) PROVE RegistryInv'
  BY <1>5, ReleaseProviderKeeps
<1>6. CASE CloseRegistry
  BY <1>6, CloseKeeps
<1>7. CASE UNCHANGED registryVars
  <2>1. /\ pools' = pools /\ providers' = providers /\ uses' = uses /\ stage' = stage
        /\ closed' = closed
    BY <1>7 DEF registryVars
  <2>2. /\ Object' = Object /\ Slot' = Slot
        /\ Listed' = Listed
    BY <2>1 DEF Object, Slot, Listed
  <2> QED  BY <2>1, <2>2 DEF RegistryInv, RegistryTyped, PoolsHold, PartiesKnown, MapExact
<1> QED  BY <1>1, <1>2, <1>3, <1>4, <1>5, <1>6, <1>7 DEF RegistryNext

-----------------------------------------------------------------------------
(* The theorems about the registry *)

\* The leases of all the objects of a provider are those of one pool.
LEMMA OnePoolServes ==
  ASSUME RegistryInv, ~closed, NEW v \in Provider
  PROVE  \E p : /\ PoolInv(p)
                /\ p.held = UNION {pools[o].held : o \in {o \in Object : o[1] = v}}
<1> DEFINE held == UNION {pools[o].held : o \in {o \in Object : o[1] = v}}
<1>1. ASSUME NEW o \in Object, o[1] = v, providers[v] # o[2]
      PROVE  pools[o].held = {}
  BY <1>1, ObjectParts DEF RegistryInv, MapExact, Parties
<1>2. CASE providers[v] = 0
  <2>1. held = {}
    BY <1>1, <1>2, ObjectParts
  <2> QED  BY <2>1, EmptyPoolHolds
<1>3. CASE providers[v] # 0
  <2> DEFINE m == <<v, providers[v]>>
  <2>1. m \in Object /\ m[1] = v
    BY <1>3, ObjectParts DEF RegistryInv, RegistryTyped
  <2>2. \A o \in Object : o[1] = v /\ o # m => pools[o].held = {}
    BY <1>1, ObjectParts
  <2> HIDE DEF m
  <2>3. held = pools[m].held
    BY <2>1, <2>2
  <2>4. PoolInv(pools[m])
    BY <2>1 DEF RegistryInv, PoolsHold
  <2> QED  BY <2>3, <2>4
<1> QED  BY <1>2, <1>3

LEMMA ProviderKeepsLimits ==
  ASSUME RegistryInv, ~closed, NEW v \in Provider
  PROVE  ProviderLimited(v)
<1> DEFINE held == UNION {pools[o].held : o \in {o \in Object : o[1] = v}}
<1>1. PICK p : PoolInv(p) /\ p.held = held
  BY OnePoolServes
<1> HIDE DEF held
<1>2. Cardinality(held) <= Limit
  BY <1>1 DEF PoolInv, LeaseInv, LeasesCounted, LeasesBounded
<1>3. ASSUME NEW r \in Room
      PROVE  Cardinality({q \in held : RoomOf[q] = r}) <= PerRoom
  BY <1>1 DEF PoolInv, LeaseInv, LeasesCounted, LeasesBounded, InRoom
<1> QED  BY <1>2, <1>3 DEF ProviderLimited, held

\* Every step of every caller of acquireProvider keeps the registry consistent:
\* whoever waits or holds a lease refers to the object it is at, and the Map
\* holds the objects that somebody is at.
THEOREM RegistryInvariance == RegistrySpec => []RegistryInv
<1>1. RegistryInit => RegistryInv
  BY RegistryInitHolds
<1>2. RegistryInv /\ [RegistryNext]_registryVars => RegistryInv'
  BY RegistryStepKeeps
<1> QED  BY <1>1, <1>2, PTL DEF RegistrySpec

\* However often the pools of a provider are removed and made anew between the
\* steps of the callers that await them, all its leases together keep to its
\* limits, nobody holds or waits at a pool that a new turn would not find, and
\* no idle pool stays in the Map.
THEOREM RegistryKept == RegistrySpec => []RegistrySound
<1>1. RegistryInv => RegistrySound
  <2> SUFFICES ASSUME RegistryInv PROVE RegistrySound
    OBVIOUS
  <2>1. RegistryTypeOK
    BY DEF RegistryInv, RegistryTyped, RegistryTypeOK
  <2>2. ASSUME NEW o \in Object
        PROVE  Busy(o) <=> Parties(pools[o]) # {}
    BY IdleIsEmpty DEF RegistryInv, PoolsHold, Busy, Parties
  <2>3. ~closed => \A v \in Provider : ProviderLimited(v)
    BY ProviderKeepsLimits
  <2> QED  BY <2>1, <2>2, <2>3, ObjectParts DEF RegistryInv, MapExact, RegistrySound
<1> QED  BY <1>1, RegistryInvariance, PTL

=============================================================================

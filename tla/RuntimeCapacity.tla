---------------------------- MODULE RuntimeCapacity ----------------------------
(***************************************************************************)
(* The registry of provider pools of src/core/runtime-capacity.ts, one     *)
(* PoolRecords state per object: a pool is made when the first turn asks   *)
(* for its provider and taken out of the Map when it is idle.  Callers are *)
(* those of src/core/provider-capacity.ts and of the routed session.       *)
(*                                                                         *)
(* acquireProvider awaits the pool, so a caller holds a reference to a     *)
(* pool object across steps of others.  An object is named by its provider *)
(* and a slot; a slot is free again when no caller refers to its object.   *)
(***************************************************************************)
EXTENDS PoolRecords

CONSTANTS
  Provider,      \* names of model providers
  MaxProviders,  \* pools in the Map at once (64 in the code)
  None

ASSUME CapacityAssumption ==
  /\ IsFiniteSet(Request) /\ MaxProviders \in Nat \ {0} /\ None \notin Provider \X Nat

VARIABLES
  pools,      \* the pool objects
  providers,  \* the Map: the slot of each provider's pool, 0 if it has none
  uses,       \* the pool object a caller refers to, None when it is done
  stage,      \* where the caller is in acquireProvider
  closed

registryVars == <<pools, providers, uses, stage, closed>>

\* A caller that needs a new object has none, so there is always a slot left.
Slot == 1 .. Cardinality(Request)
Object == Provider \X Slot

\* pools' when drain() runs on p, the object o (as DrainFrom of FairCapacityPool).
DrainAt(o, p) ==
  \E s \in {p} : \E t \in {GrantNext(s)} : \E u \in {GrantNext(t)} :
    pools' = [pools EXCEPT ![o] = u]

Listed == {o \in Object : providers[o[1]] = o[2]}
Size == Cardinality({v \in Provider : providers[v] # 0})

IdleWithLeases(p) == p.waiting = 0

\* removeIdleProvider's snapshot.
Idle(p) == p.active = 0 /\ p.waiting = 0

\* removeIdleProvider(): providers' when the caller's object is o.
Unlisted(o, p) ==
  IF Idle(p) /\ providers[o[1]] = o[2] THEN [providers EXCEPT ![o[1]] = 0] ELSE providers

RegistryInit ==
  /\ pools = [o \in Object |-> EmptyPool]
  /\ providers = [v \in Provider |-> 0]
  /\ uses = [q \in Request |-> None]
  /\ stage = [q \in Request |-> "idle"]
  /\ closed = FALSE

\* The object acquireProvider finds in the Map, or a new one.
PoolFor(v) ==
  IF providers[v] # 0 THEN <<v, providers[v]>>
  ELSE <<v, CHOOSE g \in Slot : \A q \in Request : uses[q] # <<v, g>> >>

Full(p, q) == p.waiting >= MaxWaiting - (IF q \in Nested THEN 0 ELSE QueueReserve)

\* acquireProvider() up to its await: a closed registry and a full Map refuse;
\* a full wait queue or a signal that is aborted already rejects the promise.
AcquireProvider(q, v) ==
  /\ ~closed /\ stage[q] = "idle"
  /\ providers[v] # 0 \/ Size < MaxProviders
  /\ \E o \in {PoolFor(v)} :
     \E p \in {IF providers[v] # 0 THEN pools[o] ELSE EmptyPool} :
     \E refused \in {Full(p, q), TRUE} :
       /\ providers' = [providers EXCEPT ![v] = o[2]]
       /\ IF refused THEN pools' = [pools EXCEPT ![o] = p] ELSE DrainAt(o, Enqueue(p, q))
       /\ uses' = [uses EXCEPT ![q] = o]
       /\ stage' = [stage EXCEPT ![q] = IF refused THEN "rejected" ELSE "awaiting"]
  /\ UNCHANGED closed

\* The wait deadline passes or the signal aborts while q waits.
CancelWait(q) ==
  /\ stage[q] = "awaiting" /\ Queued(pools[uses[q]], q)
  /\ DrainAt(uses[q], Withdraw(pools[uses[q]], q))
  /\ stage' = [stage EXCEPT ![q] = "rejected"]
  /\ UNCHANGED <<providers, uses, closed>>

\* acquireProvider goes on with a lease, with or without the caller's interest.
Resolve(q) ==
  /\ stage[q] = "awaiting" /\ q \in pools[uses[q]].held
  /\ stage' = [stage EXCEPT ![q] = "leased"]
  /\ UNCHANGED <<pools, providers, uses, closed>>

\* Its catch clause.
Caught(q) ==
  /\ stage[q] = "rejected"
  /\ providers' = Unlisted(uses[q], pools[uses[q]])
  /\ uses' = [uses EXCEPT ![q] = None] /\ stage' = [stage EXCEPT ![q] = "idle"]
  /\ UNCHANGED <<pools, closed>>

\* release() of the lease it returned.
ReleaseProvider(q) ==
  /\ stage[q] = "leased"
  /\ DrainAt(uses[q], Vacate(pools[uses[q]], q))
  /\ providers' = Unlisted(uses[q], pools'[uses[q]])
  /\ uses' = [uses EXCEPT ![q] = None] /\ stage' = [stage EXCEPT ![q] = "idle"]
  /\ UNCHANGED closed

\* close(): the pools of the Map reject their waiters.
CloseRegistry ==
  /\ ~closed /\ closed' = TRUE
  /\ pools' = [o \in Object |-> IF o \in Listed THEN ClosedPool(pools[o]) ELSE pools[o]]
  /\ providers' = [v \in Provider |-> 0]
  /\ stage' = [q \in Request |->
                 IF uses[q] \in Listed /\ Queued(pools[uses[q]], q)
                 THEN "rejected" ELSE stage[q]]
  /\ UNCHANGED uses

RegistryNext ==
  \/ \E q \in Request :
       \/ \E v \in Provider : AcquireProvider(q, v)
       \/ CancelWait(q) \/ Resolve(q) \/ Caught(q) \/ ReleaseProvider(q)
  \/ CloseRegistry

RegistrySpec == RegistryInit /\ [][RegistryNext]_registryVars

\* A promise that is settled is seen, and a turn that holds a lease ends.
FairSpec ==
  /\ RegistrySpec
  /\ \A q \in Request : /\ WF_registryVars(Resolve(q)) /\ WF_registryVars(Caught(q))
                        /\ WF_registryVars(ReleaseProvider(q))

-----------------------------------------------------------------------------
(* Properties *)

Busy(o) == pools[o].active # 0 \/ pools[o].waiting # 0

\* Every variable holds what its declaration says, and a caller refers to an
\* object exactly while it is inside acquireProvider or holds a lease.
RegistryTypeOK ==
  /\ \A o \in Object : pools[o] \in Pool
  /\ providers \in [Provider -> Slot \cup {0}]
  /\ uses \in [Request -> Object \cup {None}]
  /\ stage \in [Request -> {"idle", "awaiting", "rejected", "leased"}]
  /\ \A q \in Request : uses[q] = None <=> stage[q] = "idle"

ProviderLimited(v) ==
  LET held == UNION {pools[o].held : o \in {o \in Object : o[1] = v}}
  IN /\ Cardinality(held) <= Limit
     /\ \A r \in Room : Cardinality({q \in held : RoomOf[q] = r}) <= PerRoom

\* However often pools are removed and made anew, all the leases of a provider
\* together keep to its limits, nobody holds or waits at a pool that a new turn
\* would not find, and no idle pool stays in the Map, using up a place for good.
RegistrySound ==
  /\ RegistryTypeOK
  /\ ~closed => \A v \in Provider : ProviderLimited(v)
  /\ ~closed => \A o \in Object \ Listed : ~Busy(o)
  /\ \A o \in Listed : Busy(o) \/ \E q \in Request : uses[q] = o /\ stage[q] = "rejected"

\* Whoever waits for a provider is served or refused, whatever turns come
\* after it, when every lease is released in the end and no place is reserved.
EveryWaiterServed ==
  \A q \in Request : stage[q] = "awaiting" ~> stage[q] # "awaiting"
=============================================================================

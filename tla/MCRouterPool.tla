---------------------------- MODULE MCRouterPool ----------------------------
(***************************************************************************)
(* The session router and the pool its cold starts wait at, for TLC, in    *)
(* two parts with an instance each: the router abstracts the pool to its   *)
(* limits, and the pool has requests of any kind.  They share no state, so *)
(* that a behaviour moves only one of them.                                *)
(***************************************************************************)
EXTENDS MCSessionRouter, FairCapacityPool

\* Rooms and requests of the pool; requests n* are nested, and a is the busy room.
CONSTANTS a, b, c, a1, a2, na3, na4, b1, b2, c1, nc2

VARIABLE part  \* the part that moves, chosen at the start

ThreeRooms == {a, b, c}

MixedRequests == {a1, a2, na3, na4, b1, b2, c1, nc2}
NestedRequests == {na3, na4, nc2}
MixedRoomOf ==
  [q \in MixedRequests |-> IF q \in {a1, a2, na3, na4} THEN a
                           ELSE IF q \in {b1, b2} THEN b ELSE c]

PartsInit == Init /\ PoolInit /\ part \in {"router", "pool"}

PartsNext ==
  \/ part = "router" /\ Next /\ UNCHANGED <<poolVars, part>>
  \/ part = "pool" /\ PoolNext /\ UNCHANGED <<vars, part>>

FairParts ==
  PartsInit /\ [][PartsNext]_<<vars, poolVars, part>> /\ GoesOn /\ LeavesEnd
=============================================================================

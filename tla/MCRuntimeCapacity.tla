--------------------------- MODULE MCRuntimeCapacity ---------------------------
(* Two providers, one pool at a time, one place in it; a is the busy room. *)
EXTENDS RuntimeCapacity

CONSTANTS a, b, a1, a2, a3, b1

TwoRooms == {a, b}
FourRequests == {a1, a2, a3, b1}
FourRoomOf == [q \in FourRequests |-> IF q = b1 THEN b ELSE a]
=============================================================================

---------------------------- MODULE MCSessionRouter ----------------------------
(* x is the parent of y; one of them can have a runtime at a time.           *)
EXTENDS SessionRouter

CONSTANTS x, y

Parent == [i \in {x, y} |-> IF i = x THEN {x, y} ELSE {y}]
SameRoom == [i \in {x, y} |-> x]
OwnRoom == [i \in {x, y} |-> i]
=============================================================================

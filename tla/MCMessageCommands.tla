--------------------------- MODULE MCMessageCommands ---------------------------
(* Two commands, for one session or for two, each session in its own room. *)
EXTENDS MessageCommands

CONSTANTS a, b

TwoCommands == 1..2
OwnRoom == [s \in Session |-> s]
=============================================================================

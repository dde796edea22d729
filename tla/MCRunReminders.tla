---------------------------- MODULE MCRunReminders ----------------------------
(***************************************************************************)
(* The instance of RunReminders that TLC checks: a loop has started the    *)
(* first run, and a user or the loop asks for one more turn.               *)
(***************************************************************************)
EXTENDS RunReminders

CONSTANT goal

Goals == {goal}
Goal == goal
=============================================================================

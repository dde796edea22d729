--------------------------- MODULE MCRoutedSession ---------------------------
(* Instances of RoutedSession for TLC: m* are messages, r* run reminders and *)
(* c1 is a compact action.                                                   *)
EXTENDS RoutedSession

CONSTANTS m1, m2, r1, r2, c1
=============================================================================

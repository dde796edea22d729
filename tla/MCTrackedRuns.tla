----------------------------- MODULE MCTrackedRuns -----------------------------
(***************************************************************************)
(* Tracked runs for TLC, in two parts: the registry of one process that    *)
(* ends and starts again, with one run in its store, and the reminders of  *)
(* a session's runs.  Each part abstracts the other to its own variables,  *)
(* so that they share no state and a behaviour moves only one of them.     *)
(***************************************************************************)
EXTENDS MCRunRegistry, MCRunReminders

VARIABLE part  \* the part that moves, chosen at the start

PartsInit == Init /\ RemindersInit /\ part \in {"registry", "reminders"}

PartsNext ==
  \/ part = "registry" /\ Next /\ UNCHANGED <<reminderVars, part>>
  \/ part = "reminders" /\ RemindersNext /\ UNCHANGED <<vars, part>>

FairParts ==
  PartsInit /\ [][PartsNext]_<<vars, reminderVars, part>> /\ GoesOn
=============================================================================

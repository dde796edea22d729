------------------------ MODULE MCOutputPersistence ------------------------
(***************************************************************************)
(* Instances of OutputPersistence for TLC: processes and outputs as model  *)
(* values, none of which the specification distinguishes.                  *)
(***************************************************************************)
EXTENDS OutputPersistence, TLC

Symmetry == Permutations(Process) \cup Permutations(Key)
=============================================================================

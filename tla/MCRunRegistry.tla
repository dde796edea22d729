---------------------------- MODULE MCRunRegistry ----------------------------
(***************************************************************************)
(* Instances of RunRegistry for TLC.                                       *)
(***************************************************************************)
EXTENDS RunRegistry

OneOrigin == [r \in Run |-> "message"]
=============================================================================

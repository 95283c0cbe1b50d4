------------------------- MODULE MCApprovedCommand -------------------------
(***************************************************************************)
(* Instances of ApprovedCommand for TLC.                                   *)
(***************************************************************************)
EXTENDS ApprovedCommand, TLC

\* Requests are interchangeable.
CallerSymmetry == Permutations(Callers)
=============================================================================

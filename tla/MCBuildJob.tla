----------------------------- MODULE MCBuildJob -----------------------------
(* BuildJob on instances small enough for TLC. *)
EXTENDS BuildJob, TLC

(* Build processes are interchangeable. *)
Symmetry == Permutations(Workers)
=============================================================================

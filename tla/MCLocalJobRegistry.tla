-------------------------- MODULE MCLocalJobRegistry ---------------------------
(* Instances of the job registry for TLC.                                   *)
EXTENDS LocalJobRegistry, TLC

(* Identifiers and owners are interchangeable: no operator orders them.     *)
Symmetry == Permutations(JobId) \cup Permutations(Owner)
================================================================================

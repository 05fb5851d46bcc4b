---------------------------- MODULE MCLocalJobStore ----------------------------
(* Instances of the job store for TLC.                                      *)
EXTENDS LocalJobStore, TLC

Symmetry == Permutations(JobId) \cup Permutations(Client)
================================================================================

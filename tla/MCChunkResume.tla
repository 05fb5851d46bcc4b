----------------------------- MODULE MCChunkResume -----------------------------
(* Instances of chunk resume for TLC: contents of two chunks, and one that  *)
(* is small enough not to be split.                                         *)
EXTENDS ChunkResume, TLC

CONSTANTS s1, s2, small

Versions   == {s1, s2, small}
VersionsOf == [s \in Versions |-> IF s = small THEN 0 ELSE 2]

Symmetry == Permutations(Process)
================================================================================

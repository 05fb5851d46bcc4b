------------------------- MODULE MCDocumentGeneration --------------------------
(* Instances of document generation for TLC.                                *)
EXTENDS DocumentGeneration

TwoThenOne == <<2, 1>>
================================================================================

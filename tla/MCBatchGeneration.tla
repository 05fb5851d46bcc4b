--------------------------- MODULE MCBatchGeneration ---------------------------
(* Instances of the Python batch for TLC.                                   *)
EXTENDS BatchGeneration

SplitThenWhole == <<2, 0>>
TwoWhole       == <<0, 0>>
OneChunk       == <<1>>
================================================================================

-------------------------- MODULE MCIndexPipeline --------------------------
(***************************************************************************)
(* Instances of the index pipeline for TLC.                                *)
(***************************************************************************)
EXTENDS IndexPipeline

CONSTANTS x1, x2

MCDocIds == {x1, x2}
OneDocId == {x1}
=============================================================================

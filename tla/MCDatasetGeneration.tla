------------------------- MODULE MCDatasetGeneration -------------------------
(* Three threads, five jobs of two items, a spawn that may fail.             *)
EXTENDS DatasetGeneration
=============================================================================

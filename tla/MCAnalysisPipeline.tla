------------------------- MODULE MCAnalysisPipeline -------------------------
(* Small instance of AnalysisPipeline for TLC. *)
EXTENDS AnalysisPipeline, TLC

CONSTANTS t1, t2, p1, p2, i1, i2

Symmetry == Permutations(Tracks) \cup Permutations(Procs)
=============================================================================

--------------------------- MODULE MCBackgroundJobs ---------------------------
(* Small instance of BackgroundJobs for TLC. *)
EXTENDS BackgroundJobs, TLC

CONSTANTS j1, j2, p1, p2

Symmetry == Permutations(Jobs) \cup Permutations(Pids)
===============================================================================

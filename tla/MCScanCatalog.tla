---------------------------- MODULE MCScanCatalog ----------------------------
(* Small instance of ScanCatalog for TLC: an audio file and a directory in   *)
(* one source, a DJ artifact in another.                                     *)
EXTENDS ScanCatalog, TLC

CONSTANTS f1, d1, g1, a, b, s1, s2

Home == [f \in Files |-> IF f = g1 THEN b ELSE a]
Kind == [f \in Files |-> IF f = f1 THEN "audio" ELSE IF f = d1 THEN "directory" ELSE "artifact"]

\* The commands are alike.
Symmetry == Permutations(Scanners)
=============================================================================

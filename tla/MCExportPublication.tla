------------------------- MODULE MCExportPublication -------------------------
(* Small instance of ExportPublication for TLC. *)
EXTENDS ExportPublication, TLC

CONSTANTS p1, p2

Symmetry == Permutations(Publishers)
==============================================================================

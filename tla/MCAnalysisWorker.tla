-------------------------- MODULE MCAnalysisWorker --------------------------
(* Responses up to one unit beyond the limit, in pipes of two units. *)
EXTENDS AnalysisWorker

MCLimit == [s \in Streams |-> IF s = "stdout" THEN 2 ELSE 1]
=============================================================================

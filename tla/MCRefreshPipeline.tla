------------------------- MODULE MCRefreshPipeline -------------------------
(* A set-eligible, analysed source and another one, one file in each. *)
EXTENDS RefreshPipeline, TLC

CONSTANTS t1, t2, s1, s2

MCSourceOf == t1 :> s1 @@ t2 :> s2
MCId == t1 :> 1 @@ t2 :> 2
=============================================================================

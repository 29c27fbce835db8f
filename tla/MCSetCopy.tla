----------------------------- MODULE MCSetCopy -----------------------------
(* Two commands over a library of two tracks of different sources.  Others *)
(* use a name of the set and one beside it.                                *)
EXTENDS SetCopy

CONSTANTS f1, f2

MCFiles == {f1, f2}
MCSourceOf == [f \in MCFiles |-> IF f = f1 THEN "a" ELSE "b"]
MCCurations == {<<f1, f2>>, <<f2>>}
MCExtra == <<f1>>
MCPlaylists == {<< >>, <<Track(f2), Group("A")>>, <<Group("A"), Track(f1), Group("#B")>>}
MCHashed == {"#B"}
MCNames == {[order |-> 1, file |-> f2, group |-> NoGroup], [order |-> 9, file |-> f2, group |-> "A"]}
=============================================================================

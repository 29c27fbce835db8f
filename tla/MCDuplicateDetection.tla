------------------------ MODULE MCDuplicateDetection ------------------------
(* Small instance of DuplicateDetection for TLC: two copies of a recording in *)
(* one source and a third in another; an edit turns t2 into a different one.  *)
EXTENDS DuplicateDetection, TLC

CONSTANTS t1, t2, u, a, b, h, g, p1, p2

Home  == [t \in Tracks |-> IF t = u THEN b ELSE a]
Audio == [t \in Tracks |-> [v \in 1..MaxVersion |-> IF t = t2 /\ v = 2 THEN g ELSE h]]
Order == [t \in Tracks |-> CASE t = t1 -> 1 [] t = t2 -> 2 [] OTHER -> 3]

Facts(lossless, depth, bitrate) ==
    [lossless |-> lossless, bit_depth |-> depth, sample_rate |-> 44, bitrate |-> bitrate]
Probed == [t \in Tracks |-> [v \in 1..MaxVersion |->
    CASE t = t1 -> IF v = 1 THEN Facts("no", 0, 320) ELSE Facts("yes", 24, 0)
      [] t = t2 -> Facts("yes", 16, 0)
      [] OTHER  -> Facts("unknown", 0, 0)]]

Everything == {[scope |-> AllSources, mark |-> TRUE, mastering |-> TRUE]}

Symmetry == Permutations(Procs)
=============================================================================

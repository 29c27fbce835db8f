---------------------------- MODULE Enumeration ----------------------------
(***************************************************************************)
(* Finite sets of numbers in order: what an ORDER BY or a sorted() of the  *)
(* code lists, and where the matching lines of a text stand.               *)
(***************************************************************************)
EXTENDS Integers, FiniteSets

\* The elements of S from the least to the greatest.
Ascending(S) ==
    CHOOSE s \in [1..Cardinality(S) -> S] : \A i, j \in DOMAIN s : i < j => s[i] < s[j]
=============================================================================

---------------------------- MODULE MCSimilarity ----------------------------
(***************************************************************************)
(* Instances of SimilarityCache for TLC.                                   *)
(***************************************************************************)
EXTENDS SimilarityCache

CONSTANTS t1, t2, t3, m1, m2, c1, c2

OneQuery == {1}
Ascending ==
  [q \in Queries |-> [t \in Tickets |-> IF t = t1 THEN 1 ELSE IF t = t2 THEN 2 ELSE 3]]
EveryModelNamed == {m1, m2}
SomeUnnamed == {m1, NoModel}
=============================================================================

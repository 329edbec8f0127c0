--------------------------- MODULE MCQuestionGraph ---------------------------
(***************************************************************************)
(* Finite instances of QuestionGraph.  Three questions with a revision     *)
(* each, the first may have a second one; three prerequisites that form a  *)
(* cycle together, and a related edge.                                     *)
(***************************************************************************)
EXTENDS QuestionGraph, TLC

CONSTANTS keyA, keyB, keyC, revA, revA2, revB, revC, ab, bc, ca, ba, rel

MCQuestionOf == [r \in Revisions |-> CASE r \in {revA, revA2} -> keyA [] r = revB -> keyB
                                       [] OTHER -> keyC]
MCFrom == [e \in Edges |-> CASE e = ab -> revA [] e \in {bc, ba} -> revB [] e = ca -> revC
                             [] OTHER -> revA]
MCTo == [e \in Edges |-> CASE e \in {ab, rel} -> revB [] e = bc -> revC [] OTHER -> revA]
MCPrerequisite == Edges \ {rel}

Symmetry == Permutations(Reviewers) \cup Permutations(Publishers)
=============================================================================

------------------------ MODULE MCEditorialReleases ------------------------
(***************************************************************************)
(* Finite instance of EditorialReleases: two questions, the first with a   *)
(* second revision under another topic, the second with one that has no    *)
(* topic, and three editorial files.                                       *)
(***************************************************************************)
EXTENDS EditorialReleases, TLC

CONSTANTS r1, r1b, r2, r2b, t1, t2, v1, v2

MCQuestionOf == [r \in Revisions |-> IF r \in {r2, r2b} THEN 2 ELSE 1]
MCTopicOf == [r \in Revisions |-> CASE r = r1b -> t2 [] r = r2b -> NoTopic [] OTHER -> t1]

Entry(q, rev, value) == [q |-> q, rev |-> rev, value |-> value]

(* The second file differs from the first in one question, the third is    *)
(* for the other revision of the first question.                           *)
MCManifests == {{Entry(1, r1, v1), Entry(2, r2, v1)}, {Entry(1, r1, v1), Entry(2, r2, v2)},
                {Entry(1, r1b, v2), Entry(2, r2, v1)}}

Symmetry == Permutations(Sessions)
=============================================================================

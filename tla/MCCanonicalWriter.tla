-------------------------- MODULE MCCanonicalWriter --------------------------
(***************************************************************************)
(* Finite instance of CanonicalWriter: the values its configurations give  *)
(* to the constants that are functions or sets of hashes.                  *)
(***************************************************************************)
EXTENDS CanonicalWriter

CONSTANT h1

(* The card with hash h1 carries a degenerate Russian prompt and a topic,  *)
(* any other card neither a Russian locale nor a topic.                    *)
MCRuOf == [h \in Hashes |-> IF h = h1 THEN "degenerate" ELSE "none"]
MCHasTopic == {h1}
=============================================================================

--------------------------- MODULE MCOutboxIndexer ---------------------------
(***************************************************************************)
(* Finite instances of OutboxIndexer: one event per kind.  The events are  *)
(* named after what they announce, the first revision is r1.               *)
(***************************************************************************)
EXTENDS OutboxIndexer, TLC

CONSTANTS r1, r2, pub, pub2, roll, trans, fix, graph

MCKindOf == [e \in Events |->
                CASE e \in {pub, pub2} -> "publication" [] e = roll -> "rollback"
                  [] e = trans -> "translation" [] e = fix -> "repair"
                  [] OTHER -> "graph"]
MCRevOf == [e \in Events |-> IF e = pub2 THEN r2 ELSE r1]

Symmetry == Permutations(Workers)
=============================================================================

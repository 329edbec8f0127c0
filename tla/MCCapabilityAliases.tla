------------------------- MODULE MCCapabilityAliases -------------------------
(***************************************************************************)
(* Finite instances of CapabilityAliases: two workspaces, three active     *)
(* capabilities, one deprecated, and a historical name.                    *)
(***************************************************************************)
EXTENDS CapabilityAliases, TLC

CONSTANTS w1, w2, a, b, c, old, name

P(ws, action, src, dst) == [ws |-> ws, action |-> action, src |-> src, dst |-> dst]

(* A cycle a, b, c that two workspaces could close, a second successor of  *)
(* a, a name with two meanings.                                            *)
MCProposals == {P(w1, "supersedes", a, b), P(w2, "supersedes", b, c),
                P(w1, "supersedes", c, a), P(w2, "supersedes", a, c),
                P(w1, "alias", name, a), P(w2, "alias", name, b)}

(* The deprecated capability has both facts, as in the migration.          *)
MCSeed == [kind \in Kinds |-> [k \in Keys |-> IF k = old THEN a ELSE None]]

Symmetry == Permutations(Sessions)
=============================================================================

---------------------------- MODULE MCVaultImport ----------------------------
(***************************************************************************)
(* Finite instances of VaultImport: the cards that files may hold.         *)
(***************************************************************************)
EXTENDS VaultImport, TLC

CONSTANTS q1, h1, h2

OneQuestion == {[q |-> q1, h |-> h1], [q |-> q1, h |-> h2]}

Symmetry == Permutations(Runs)
=============================================================================

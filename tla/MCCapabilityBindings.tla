------------------------ MODULE MCCapabilityBindings ------------------------
(***************************************************************************)
(* A finite instance of CapabilityBindings: one question, whose mapping    *)
(* moves between an accepted path that binds it and another one that is    *)
(* only proposed; a neighbour suggests the first station in another role,  *)
(* and an editor may bind a station of the second path.                    *)
(***************************************************************************)
EXTENDS CapabilityBindings, TLC

CONSTANTS key, revA, primary, support, foreign, station, other, path, away

MCQuestionOf == [r \in Revisions |-> key]
MCRevisionOf == [b \in Bindings |-> revA]
MCSlotOf == [b \in Bindings |-> IF b = foreign THEN other ELSE station]
MCPathOf == [b \in Bindings |-> IF b = foreign THEN away ELSE path]
MCMappings ==
    {[path |-> path, accepted |-> TRUE, crosswalk |-> {primary}],
     [path |-> away, accepted |-> FALSE, crosswalk |-> {foreign}]}
MCFirst == {[pin |-> {revA}, cards |-> {revA}, bound |-> {primary}]}
Symmetry == Permutations(Operators)
=============================================================================

-------------------------- MODULE LearnerProjection --------------------------
(***************************************************************************)
(* What a learner's reader may rely on of the capability bindings of one   *)
(* workspace: at every moment it gets the bindings of one whole release,   *)
(* one for each station that the release binds, never a mixture of two     *)
(* releases and never half of one.                                         *)
(***************************************************************************)
CONSTANTS
    Bindings,   \* a revision, its path, a capability and a role
    SlotOf      \* the station of a binding: all of it except the role

VARIABLES
    bound,      \* the bindings of the release in force
    shown       \* the bindings that readers get

vars == <<bound, shown>>

Slots(B) == {SlotOf[b] : b \in B}
OnePerSlot(B) == \A b, c \in B : SlotOf[b] = SlotOf[c] => b = c
Choices(B) == {W \in SUBSET B : OnePerSlot(W) /\ Slots(W) = Slots(B)}

Init == bound \in SUBSET Bindings /\ shown \in Choices(bound)
Switch == bound' \in SUBSET Bindings /\ shown' \in Choices(bound')
Spec == Init /\ [][Switch]_vars
=============================================================================

--------------------------- MODULE ReleaseRegister ---------------------------
(***************************************************************************)
(* What the releases of one workspace's question graph promise, with the   *)
(* review, the statements of a release and its races hidden: at most one   *)
(* release is in force, a release comes into force once, and one that was  *)
(* withdrawn never does again.                                             *)
(***************************************************************************)
CONSTANT Releases

VARIABLES
    inForce,    \* the release that readers get, if any
    issued      \* the releases that have ever been in force

vars == <<inForce, issued>>

Issue(r) ==
    /\ r \notin issued
    /\ issued' = issued \cup {r}
    /\ inForce' = {r}

Withdraw ==
    /\ inForce # {}
    /\ inForce' = {}
    /\ UNCHANGED issued

Init == inForce = {} /\ issued = {}
Next == Withdraw \/ \E r \in Releases : Issue(r)
Spec == Init /\ [][Next]_vars
=============================================================================

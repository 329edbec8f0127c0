-------------------------- MODULE EmbeddingDelivery --------------------------
(***************************************************************************)
(* What the outbox and its indexers promise, with leases, retries and      *)
(* workers hidden: an event is finished only when every locale that was    *)
(* there when it was created is indexed, nothing indexed or finished is    *)
(* undone, and every event is finished in the end.                         *)
(***************************************************************************)
CONSTANTS Events, Locales

VARIABLES
    due,        \* the locales each event was created for
    created,    \* the events of the outbox
    finished,   \* the events that need no more work
    indexed     \* the locales that have a vector

vars == <<due, created, finished, indexed>>

Create(e, L) ==
    /\ e \notin created
    /\ created' = created \cup {e}
    /\ due' = [due EXCEPT ![e] = L]
    /\ UNCHANGED <<finished, indexed>>

Index(l) ==
    /\ indexed' = indexed \cup {l}
    /\ UNCHANGED <<due, created, finished>>

Finish(e) ==
    /\ e \in created
    /\ due[e] \subseteq indexed
    /\ finished' = finished \cup {e}
    /\ UNCHANGED <<due, created, indexed>>

Init ==
    /\ due = [e \in Events |-> {}]
    /\ created = {}
    /\ finished = {}
    /\ indexed = {}

Next ==
    \/ \E e \in Events : Finish(e) \/ \E L \in SUBSET Locales : Create(e, L)
    \/ \E l \in Locales : Index(l)

Safe == Init /\ [][Next]_vars
=============================================================================

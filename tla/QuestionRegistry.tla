-------------------------- MODULE QuestionRegistry --------------------------
(***************************************************************************)
(* What the canonical writer promises its readers, with the transactions   *)
(* hidden: a question is a stable identity over a growing set of immutable *)
(* revisions, its pointer names one of them, and a question that is not    *)
(* published becomes published only by an explicit release or rollback.    *)
(***************************************************************************)
CONSTANTS Questions, Hashes, NoRev

VARIABLES
    status,     \* content.question.status, "absent" when there is no row
    current,    \* content.question.current_revision_id, as a content hash
    revs        \* the revisions of each question, keyed by content hash

vars == <<status, current, revs>>

(* A revision is recorded and becomes current; only an explicit release    *)
(* makes the question visible, anything else leaves the status of an       *)
(* existing row alone.                                                     *)
Accept(q, h, publish) ==
    /\ revs' = [revs EXCEPT ![q] = @ \cup {h}]
    /\ current' = [current EXCEPT ![q] = h]
    /\ status' = [status EXCEPT ![q] = IF publish THEN "published"
                                       ELSE IF @ = "absent" THEN "draft" ELSE @]

(* The pointer moves to a revision the question already has.               *)
Restore(q, h) ==
    /\ h \in revs[q]
    /\ current' = [current EXCEPT ![q] = h]
    /\ status' = [status EXCEPT ![q] = "published"]
    /\ UNCHANGED revs

(* Existing questions are withdrawn; pointers and revisions stay.          *)
Retire(S) ==
    /\ \A q \in S : status[q] # "absent"
    /\ status' = [q \in Questions |-> IF q \in S THEN "archived" ELSE status[q]]
    /\ UNCHANGED <<current, revs>>

Init ==
    /\ status = [q \in Questions |-> "absent"]
    /\ current = [q \in Questions |-> NoRev]
    /\ revs = [q \in Questions |-> {}]

Next ==
    \/ \E q \in Questions, h \in Hashes :
          \/ \E publish \in BOOLEAN : Accept(q, h, publish)
          \/ Restore(q, h)
    \/ \E S \in SUBSET Questions : Retire(S)

Spec == Init /\ [][Next]_vars
=============================================================================

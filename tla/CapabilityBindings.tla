-------------------------- MODULE CapabilityBindings -------------------------
(***************************************************************************)
(* The capability bindings of one workspace: the commands that write a     *)
(* manifest and stage semantic neighbours, the review of proposals, and    *)
(* the release and rollback that switch what learners get                  *)
(* (internal/store/capability_binding.go, capability_review.go).           *)
(*                                                                         *)
(* A manifest is the question release it pins, the cards it lists and the  *)
(* bindings of those cards; the code names a release after a hash of it,   *)
(* here the manifest is its own name.  A question release is likewise the  *)
(* set of served revisions.  One capability registry, all of it active;    *)
(* dispositions without bindings are one; review rows, audit rows,         *)
(* confidence and evidence are left out.                                   *)
(*                                                                         *)
(* The path of a revision is a row of question_curriculum_mapping, which   *)
(* every curriculum mapping release may rewrite; the commands here read it *)
(* in statements of their own, and rows that are placed keep their path.   *)
(* EditorialReleases has the statements of a mapping release.              *)
(***************************************************************************)
EXTENDS FiniteSets, Naturals

CONSTANTS
    Questions,      \* stable keys
    Revisions,      \* revisions of all questions
    QuestionOf,     \* the question of a revision
    Bindings,       \* a revision, its path, a capability and a role
    RevisionOf,     \* the revision of a binding
    SlotOf,         \* the key of question_capability: all but the role
    Paths,          \* curriculum paths
    NoPath,         \* the path of an unmapped revision
    PathOf,         \* the path of a binding
    Mappings,       \* the rows that editors may release for a revision
    Neighbours,     \* bindings that reviewed exemplars suggest
    Edits,          \* what an editor may bind the cards of a manifest to
    First,          \* first releases that a workspace may have
    Operators,      \* command processes
    MaxReleases     \* bound on the releases of one behaviour

(* A row has a path, is accepted or not, and its capability, if it has     *)
(* one, stands for a binding.                                              *)
MappingRow == [path : Paths \cup {NoPath}, accepted : BOOLEAN, crosswalk : SUBSET Bindings]

Manifest == [pin : SUBSET Revisions, cards : SUBSET Revisions, bound : SUBSET Bindings]

ASSUME ConstantsAssumption ==
    /\ QuestionOf \in [Revisions -> Questions]
    /\ RevisionOf \in [Bindings -> Revisions]
    /\ DOMAIN SlotOf = Bindings
    /\ \A b, c \in Bindings : SlotOf[b] = SlotOf[c] => RevisionOf[b] = RevisionOf[c]
    /\ PathOf \in [Bindings -> Paths] /\ NoPath \notin Paths
    /\ Mappings \subseteq MappingRow
    /\ \A row \in Mappings : row.accepted => row.path # NoPath
    /\ \A row \in Mappings : \A b \in row.crosswalk : PathOf[b] = row.path
    /\ Neighbours \subseteq Bindings
    /\ Edits \subseteq SUBSET Bindings
    /\ First \subseteq Manifest
    /\ \A m \in First : \A b, c \in m.bound : SlotOf[b] = SlotOf[c] => b = c
    /\ MaxReleases \in Nat

VARIABLES
    current,    \* content.question.current_revision_id
    visible,    \* the published questions
    mapping,    \* question_curriculum_mapping, by revision
    pasts,      \* history: the paths that the mapping has given at some time
    proposal,   \* status of the proposal of a binding, "none" for no row
    pinOf,      \* the question release a proposal was stored with
    issued,     \* the rows of question_capability_binding_release
    active,     \* those of status active
    projection, \* the rows of question_capability
    work        \* where each command is, and the manifest it handles

content == <<current, visible>>
curriculum == <<mapping, pasts>>
review == <<proposal, pinOf>>
releases == <<issued, active, projection>>
vars == <<content, curriculum, review, releases, work>>

Row == [binding : Bindings, release : Manifest]
Steps == {"idle", "pinned", "listed", "candidates", "held", "matched", "checked",
          "retiring", "chosen", "switching"}
Command ==
    [step : Steps, manifest : Manifest, seen : SUBSET Manifest, along : SUBSET Bindings]
Empty == [pin |-> {}, cards |-> {}, bound |-> {}]
Idle == [step |-> "idle", manifest |-> Empty, seen |-> {}, along |-> {}]

(* What readers of questions get; its hash is the question release.        *)
Served == {current[q] : q \in visible}
On(cards) == {b \in Bindings : RevisionOf[b] \in cards}

(* The paths of the mapping, accepted or not, and the bindings along them. *)
PathsNow == [r \in Revisions |-> mapping[r].path]
Along(paths) == {b \in Bindings : PathOf[b] = paths[RevisionOf[b]]}
Accepted(b) == mapping[RevisionOf[b]].accepted

Slots(B) == {SlotOf[b] : b \in B}
OnePerSlot(B) == \A b, c \in B : SlotOf[b] = SlotOf[c] => b = c
(* Rows written one by one: the last one of a slot stays.                  *)
Choices(B) == {W \in SUBSET B : OnePerSlot(W) /\ Slots(W) = Slots(B)}

-----------------------------------------------------------------------------
(* The canonical writer moves a question, or archives it.                  *)
MoveQuestion(r) ==
    /\ current' = [current EXCEPT ![QuestionOf[r]] = r]
    /\ visible' = visible \cup {QuestionOf[r]}
    /\ UNCHANGED <<curriculum, review, releases, work>>

ArchiveQuestion(q) ==
    /\ visible' = visible \ {q}
    /\ UNCHANGED <<current, curriculum, review, releases, work>>

(* A mapping release covers one revision of each question, which was       *)
(* current when it listed them, and overwrites their rows.                 *)
ReleaseCurriculumMapping(cards) ==
    /\ \A r, s \in cards : QuestionOf[r] = QuestionOf[s] => r = s
    /\ \E rows \in [cards -> Mappings] :
          mapping' = [r \in Revisions |-> IF r \in cards THEN rows[r] ELSE mapping[r]]
    /\ pasts' = pasts \cup {PathsNow'}
    /\ UNCHANGED <<content, review, releases, work>>

-----------------------------------------------------------------------------
Set(o, step, manifest, seen) ==
    work' = [work EXCEPT ![o] =
        [step |-> step, manifest |-> manifest, seen |-> seen, along |-> {}]]
At(o, step) == work[o].step = step
End(o) == work' = [work EXCEPT ![o] = Idle]
Reads == UNCHANGED <<content, curriculum, review, releases>>

(* Release, which both generating and staging begin with, refuses a        *)
(* workspace without an active binding release.                            *)
ReadRelease(o) ==
    /\ At(o, "idle")
    /\ active # {}
    /\ Set(o, "pinned", [Empty EXCEPT !.pin = Served], {})
    /\ Reads

(* What accepted mappings bind by themselves.                              *)
Crosswalk(cards) ==
    {b \in On(cards) : Accepted(b) /\ b \in mapping[RevisionOf[b]].crosswalk}

(* GenerateCapabilityBindingManifest: the current cards with the bindings  *)
(* of their accepted mappings, in a statement of its own; their paths are  *)
(* kept for the merge.                                                     *)
ListCards(o) ==
    /\ At(o, "pinned")
    /\ work' = [work EXCEPT ![o] =
          [step |-> "listed", seen |-> {},
           manifest |-> [@.manifest EXCEPT !.cards = Served, !.bound = Crosswalk(Served)],
           along |-> {b \in On(Served) \cap Along(PathsNow) : Accepted(b)}]]
    /\ Reads

AcceptedFor(m) ==
    {b \in On(m.cards \cap Served) : proposal[b] = "accepted" /\ pinOf[b] = m.pin}

(* Accepted proposals of the pinned release are merged; one that is off    *)
(* the path that was listed fails the command.                             *)
MergeAccepted(o) ==
    LET m == work[o].manifest IN
    /\ At(o, "listed")
    /\ AcceptedFor(m) \subseteq work[o].along
    /\ Set(o, "held", [m EXCEPT !.bound = m.bound \cup AcceptedFor(m)], {})
    /\ Reads

(* The manifest is a file for editorial work before it is released.        *)
EditManifest(o) ==
    /\ At(o, "held")
    /\ \E B \in Edits :
          Set(o, "held", [work[o].manifest EXCEPT !.bound = B \cap On(work[o].manifest.cards)], {})
    /\ Reads

(* StageCapabilityNeighborProposals: the profile ranks some neighbours.    *)
ListNeighbours(o) ==
    /\ At(o, "pinned")
    /\ \E B \in SUBSET (Neighbours \cap On(Served)) :
          Set(o, "candidates", [work[o].manifest EXCEPT !.cards = Served, !.bound = B], {})
    /\ Reads

(* Faulty: the conflicting row starts a new review.                        *)
StagedAgain(b) == "proposed"
(* The conflicting row keeps its status, and its release.                  *)
Staged(b) == IF proposal[b] = "none" THEN "proposed" ELSE proposal[b]

StoreProposals(o) ==
    LET m == work[o].manifest IN
    /\ At(o, "candidates")
    /\ proposal' = [b \in Bindings |-> IF b \in m.bound THEN Staged(b) ELSE proposal[b]]
    /\ pinOf' = [b \in Bindings |->
          IF b \in m.bound /\ proposal[b] = "none" THEN m.pin ELSE pinOf[b]]
    /\ End(o)
    /\ UNCHANGED <<content, curriculum, releases>>

-----------------------------------------------------------------------------
(* A compare-and-set from proposed, and one from accepted.                 *)
DecideCapabilityBindingProposal(b, decision) ==
    /\ proposal[b] = "proposed"
    /\ proposal' = [proposal EXCEPT ![b] = decision]
    /\ UNCHANGED <<content, curriculum, pinOf, releases, work>>

RevokeCapabilityBindingProposal(b) ==
    /\ proposal[b] = "accepted"
    /\ proposal' = [proposal EXCEPT ![b] = "rejected"]
    /\ UNCHANGED <<content, curriculum, pinOf, releases, work>>

-----------------------------------------------------------------------------
(* ReleaseCapabilityBindings with approval; without it nothing is written. *)
(* A manifest without entries is refused before anything is read.          *)
CheckPin(o) ==
    /\ At(o, "held")
    /\ work[o].manifest.cards # {}
    /\ active # {}
    /\ work[o].manifest.pin = Served
    /\ Set(o, "matched", work[o].manifest, {})
    /\ Reads

(* Faulty: the paths of the bindings are not compared.                     *)
CoversCards(m) == m.cards = Served
(* Every current card is listed at its revision, on the path of its        *)
(* mapping, whatever the state of that mapping is.                         *)
Covers(m) == m.cards = Served /\ m.bound \subseteq Along(PathsNow)

(* A blocked release leaves the file as it is.                             *)
CheckCards(o) ==
    /\ At(o, "matched")
    /\ Set(o, IF Covers(work[o].manifest) THEN "checked" ELSE "held", work[o].manifest, {})
    /\ Reads

(* The first statement sees what is active when it starts, and waits for   *)
(* whoever has that row locked.                                            *)
StartRetire(o) ==
    /\ At(o, "checked")
    /\ Set(o, "retiring", work[o].manifest, active)
    /\ Reads

(* Faulty: the index does not exist.                                       *)
Unrestricted(kept, m) == TRUE
(* The partial unique index on active releases.                            *)
Exclusive(kept, m) == kept \subseteq {m}

(* Faulty: rows of the release before stay.                                *)
NothingCleared(gone) == projection
Cleared(gone) == {row \in projection : row.release \notin gone}

(* Rows of release m, over the kept rows of the same slots.                *)
Placed(kept, m, W) ==
    {row \in kept : SlotOf[row.binding] \notin Slots(W)}
        \cup {[binding |-> b, release |-> m] : b \in W}

(* What is released counts as accepted, whatever was decided before; only  *)
(* new proposals take the release of the manifest.                         *)
Accept(m) ==
    /\ proposal' = [b \in Bindings |-> IF b \in m.bound THEN "accepted" ELSE proposal[b]]
    /\ pinOf' = [b \in Bindings |->
          IF b \in m.bound /\ proposal[b] = "none" THEN m.pin ELSE pinOf[b]]

(* The rest of the transaction excludes every other one by its row locks.  *)
CommitRelease(o) ==
    LET m == work[o].manifest
        kept == active \ work[o].seen
    IN  /\ At(o, "retiring")
        /\ m \in issued \/ Cardinality(issued) < MaxReleases
        /\ Exclusive(kept, m)
        /\ issued' = issued \cup {m}
        /\ active' = kept \cup {m}
        /\ \E W \in Choices(m.bound) :
              projection' = Placed(Cleared(issued \ kept), m, W)
        /\ Accept(m)
        /\ End(o)
        /\ UNCHANGED <<content, curriculum>>

-----------------------------------------------------------------------------
(* RollbackCapabilityBindings with approval.                               *)
ChooseTarget(o, m) ==
    /\ At(o, "idle")
    /\ m \in issued \ active
    /\ Set(o, "chosen", m, {})
    /\ Reads

LockActive(o) ==
    /\ At(o, "chosen")
    /\ Set(o, "switching", work[o].manifest, active)
    /\ Reads

(* The items are placed by one statement, which cannot update a row twice  *)
(* and compares no path.                                                   *)
Restorable(m) == OnePerSlot(m.bound)

(* Nothing is left to do if the locked release is the target itself.       *)
CommitRollback(o) ==
    LET m == work[o].manifest
        previous == active \cap work[o].seen
    IN  /\ At(o, "switching")
        /\ m \notin previous
        /\ Exclusive(active \ previous, m)
        /\ Restorable(m)
        /\ active' = (active \ previous) \cup {m}
        /\ projection' = Placed(Cleared(previous), m, m.bound)
        /\ End(o)
        /\ UNCHANGED <<content, curriculum, review, issued>>

-----------------------------------------------------------------------------
(* A command fails, is stopped, or finds nothing to do.                    *)
Abandon(o) ==
    /\ ~At(o, "idle")
    /\ End(o)
    /\ Reads

(* The first release of a workspace was made before Release asked for one. *)
(* It is in force, on the paths of the mapping that was released last, and *)
(* its bindings are accepted.                                              *)
Init ==
    /\ current \in {f \in [Questions -> Revisions] :
                       \A q \in Questions : QuestionOf[f[q]] = q}
    /\ visible = Questions
    /\ mapping \in [Revisions -> Mappings]
    /\ pasts = {PathsNow}
    /\ issued \in {{}} \cup {{m} : m \in First}
    /\ active = issued
    /\ \A m \in issued : m.bound \subseteq Along(PathsNow)
    /\ proposal = [b \in Bindings |-> IF \E m \in issued : b \in m.bound THEN "accepted" ELSE "none"]
    /\ pinOf = [b \in Bindings |-> UNION {m.pin : m \in {n \in issued : b \in n.bound}}]
    /\ projection = UNION {{[binding |-> b, release |-> m] : b \in m.bound} : m \in issued}
    /\ work = [o \in Operators |-> Idle]

GenerateCapabilityBindingManifest(o) ==
    ReadRelease(o) \/ ListCards(o) \/ MergeAccepted(o) \/ EditManifest(o)

StageCapabilityNeighborProposals(o) == ListNeighbours(o) \/ StoreProposals(o)

ReleaseCapabilityBindings(o) ==
    CheckPin(o) \/ CheckCards(o) \/ StartRetire(o) \/ CommitRelease(o)

RollbackCapabilityBindings(o) ==
    (\E m \in issued : ChooseTarget(o, m)) \/ LockActive(o) \/ CommitRollback(o)

Next ==
    \/ \E r \in Revisions : MoveQuestion(r)
    \/ \E q \in Questions : ArchiveQuestion(q)
    \/ \E cards \in SUBSET Revisions : ReleaseCurriculumMapping(cards)
    \/ \E b \in Bindings, decision \in {"accepted", "rejected"} :
          DecideCapabilityBindingProposal(b, decision)
    \/ \E b \in Bindings : RevokeCapabilityBindingProposal(b)
    \/ \E o \in Operators :
          \/ GenerateCapabilityBindingManifest(o)
          \/ StageCapabilityNeighborProposals(o)
          \/ ReleaseCapabilityBindings(o)
          \/ RollbackCapabilityBindings(o)
          \/ Abandon(o)

Spec == Init /\ [][Next]_vars

-----------------------------------------------------------------------------
TypeOK ==
    /\ current \in [Questions -> Revisions]
    /\ \A q \in Questions : QuestionOf[current[q]] = q
    /\ visible \subseteq Questions
    /\ mapping \in [Revisions -> MappingRow]
    /\ pasts \subseteq [Revisions -> Paths \cup {NoPath}]
    /\ proposal \in [Bindings -> {"none", "proposed", "accepted", "rejected"}]
    /\ pinOf \in [Bindings -> SUBSET Revisions]
    /\ issued \subseteq Manifest
    /\ active \subseteq issued
    /\ \A m, n \in active : m = n
    /\ projection \subseteq Row
    /\ work \in [Operators -> Command]

(* Whatever releases and rollbacks run at once, what learners get is the   *)
(* choice of one whole release: no row of an earlier release survives it   *)
(* and none of its stations is missing.                                    *)
Learner == INSTANCE LearnerProjection WITH
    bound <- UNION {m.bound : m \in active},
    shown <- {row.binding : row \in projection}
ImplementsProjection == Learner!Spec

(* Nothing that a reviewer has still to decide, and nothing that was only  *)
(* suggested by an embedding, reaches a learner, then or after a rollback. *)
ShownWasDecided ==
    \A row \in projection : proposal[row.binding] \in {"accepted", "rejected"}

(* What learners get lay, at one moment, on the paths of the mapping, all  *)
(* of it together: neither an accepted proposal, nor an edited manifest,   *)
(* nor a rollback, nor a mapping release between two statements shows a    *)
(* binding on a path its card never had, or a mixture of two mappings.     *)
ShownWasMapped ==
    \E paths \in pasts : \A row \in projection : row.binding \in Along(paths)

-----------------------------------------------------------------------------
(* Statements of the repository's documents that the code does not keep;   *)
(* the README has their traces.                                            *)

(* A revoked placement is not in the next release: what was rejected is    *)
(* never accepted by a command that decides nothing.                       *)
RevokedStaysOut ==
    [][\A b \in Bindings : proposal[b] = "rejected" => proposal'[b] = "rejected"]_vars

(* Accepting a proposal leaks no foreign path into a learner projection:   *)
(* what learners get is on the path that its card has now.  A mapping      *)
(* release after the check, or a rollback after one, makes it so.          *)
NoForeignPath == \A row \in projection : row.binding \in Along(PathsNow)

(* A bound card has an accepted path when its release is checked.          *)
AcceptedPathsOnly ==
    [][\A o \in Operators : At(o, "matched") /\ work'[o].step = "checked" =>
          \A b \in work[o].manifest.bound : Accepted(b)]_vars

(* Earlier releases can be restored by a rollback.                         *)
EveryReleaseRestorable == \A m \in issued : Restorable(m)

(* A release pins the question release whose cards it lists.               *)
PinsAgree == \A m \in issued : m.pin = m.cards
=============================================================================

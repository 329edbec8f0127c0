---------------------------- MODULE QuestionGraph ----------------------------
(***************************************************************************)
(* The reviewed question graph of internal/store/question_graph.go in one  *)
(* workspace.  A proposal links two revisions; a reviewer's transaction    *)
(* locks it, looks for a prerequisite cycle in what is committed and       *)
(* writes its decision.  A release reads the accepted proposals, counts    *)
(* cycles and looks for an earlier release of the same set in statements   *)
(* of their own, and only then opens the transaction that retires the      *)
(* active release and inserts the new one.                                 *)
(*                                                                         *)
(* A release is named after its set of proposals, of which the code takes  *)
(* a hash.  Rejected and superseded are one status here; evidence and      *)
(* provenance are in order; the recorded question release, the audit row   *)
(* and the outbox row of a release are left out.                           *)
(***************************************************************************)
CONSTANTS
    Questions,      \* stable keys
    Revisions,      \* revisions of all questions
    QuestionOf,     \* the question of a revision
    Edges,          \* proposals anybody may make
    From, To,       \* their endpoints
    Prerequisite,   \* those of kind prerequisite
    Reviewers,      \* decision requests in flight
    Publishers      \* approved release requests in flight

ASSUME ConstantsAssumption ==
    /\ QuestionOf \in [Revisions -> Questions]
    /\ From \in [Edges -> Revisions] /\ To \in [Edges -> Revisions]
    /\ \A e \in Edges : From[e] # To[e]
    /\ Prerequisite \subseteq Edges

Releases == SUBSET Edges
Statuses == {"none", "proposed", "accepted", "declined"}

VARIABLES
    current,    \* content.question.current_revision_id
    visible,    \* the published questions
    status,     \* question_edge_proposal.status, "none" for no row
    release,    \* question_graph_release.status, "none" for no row
    reviewer,   \* the open decision transaction of each request
    publisher,  \* where each release request is, and what it has read
    sound,      \* history: accepted sets seen with every endpoint current
    overlapped  \* history: the proposals accepted beside a proposal

content == <<current, visible>>
history == <<sound, overlapped>>
vars == <<content, status, release, reviewer, publisher, history>>

Idle == [step |-> "idle"]
Decision == [step : {"checked"}, edge : Edges, choice : {"accepted", "declined"}]
Request == [step : {"read", "acyclic", "unused", "retiring"}, edges : Releases,
            seen : SUBSET Releases]

Accepted == {e \in Edges : status[e] = "accepted"}
Active == {r \in Releases : release[r] = "active"}

(* The nodes that the recursive query reaches over the edges of A.         *)
ClosedUnder(A, S) == \A e \in A : From[e] \in S => To[e] \in S
Reach(A, node) ==
    {r \in Revisions : \A S \in SUBSET Revisions :
        ClosedUnder(A, S) /\ (\A e \in A : From[e] = node => To[e] \in S) => r \in S}
Acyclic(A) == \A r \in Revisions : r \notin Reach(A, r)

Fresh(e) == \A r \in {From[e], To[e]} :
               current[QuestionOf[r]] = r /\ QuestionOf[r] \in visible

(* What the set of accepted proposals has been while all were fresh.       *)
Observe ==
    /\ sound' = sound \cup (IF \A e \in Accepted' : Fresh(e)' THEN {Accepted'} ELSE {})
    /\ UNCHANGED overlapped

-----------------------------------------------------------------------------
(* The canonical writer moves a question, or archives it.                  *)
MoveQuestion(r) ==
    /\ current' = [current EXCEPT ![QuestionOf[r]] = r]
    /\ visible' = visible \cup {QuestionOf[r]}
    /\ UNCHANGED <<status, release, reviewer, publisher>>
    /\ Observe

ArchiveQuestion(q) ==
    /\ visible' = visible \ {q}
    /\ UNCHANGED <<current, status, release, reviewer, publisher>>
    /\ Observe

(* Between current revisions of published questions; a known proposal      *)
(* keeps its decision.                                                     *)
CreateEdgeProposal(e) ==
    /\ Fresh(e)
    /\ status[e] = "none"
    /\ status' = [status EXCEPT ![e] = "proposed"]
    /\ UNCHANGED <<content, release, reviewer, publisher>>
    /\ Observe

-----------------------------------------------------------------------------
(* DecideEdgeProposal.                                                     *)

(* Faulty: only the edges that meet the new one are looked at.             *)
ClosesLoop(e) == \E f \in Accepted \cap Prerequisite : From[f] = To[e] /\ To[f] = From[e]
(* The target reaches the source over the accepted prerequisites.          *)
ClosesCycle(e) == From[e] \in Reach(Accepted \cap Prerequisite, To[e])

(* Faulty: the proposal is read without a lock.                            *)
Unlocked(e) == FALSE
(* Its row is locked by the first statement of a decision.                 *)
Locked(e) == \E v \in Reviewers : reviewer[v] # Idle /\ reviewer[v].edge = e

(* What is about to be accepted by open decisions.                         *)
Accepting == {e \in Edges : \E v \in Reviewers :
    reviewer[v] # Idle /\ reviewer[v].edge = e /\ reviewer[v].choice = "accepted"}
Beside(e) == [f \in Edges |-> overlapped[f] \cup
    (IF f = e THEN Accepting ELSE IF f \in Accepting THEN {e} ELSE {})]

BeginDecision(v, e, choice) ==
    /\ reviewer[v] = Idle
    /\ status[e] \notin {"none", choice}
    /\ ~Locked(e)
    /\ ~(choice = "accepted" /\ e \in Prerequisite /\ ClosesCycle(e))
    /\ reviewer' = [reviewer EXCEPT ![v] =
          [step |-> "checked", edge |-> e, choice |-> choice]]
    /\ overlapped' = IF choice = "accepted" THEN Beside(e) ELSE overlapped
    /\ UNCHANGED <<content, status, release, publisher, sound>>

CommitDecision(v) ==
    /\ reviewer[v] # Idle
    /\ status' = [status EXCEPT ![reviewer[v].edge] = reviewer[v].choice]
    /\ reviewer' = [reviewer EXCEPT ![v] = Idle]
    /\ UNCHANGED <<content, release, publisher>>
    /\ Observe

AbortDecision(v) ==
    /\ reviewer[v] # Idle
    /\ reviewer' = [reviewer EXCEPT ![v] = Idle]
    /\ UNCHANGED <<content, status, release, publisher, history>>

-----------------------------------------------------------------------------
(* ReleaseQuestionGraph with approval; without it nothing is written.      *)
Goto(p, step) == publisher' = [publisher EXCEPT ![p].step = step]
End(p) == publisher' = [publisher EXCEPT ![p] = Idle]
Reads == UNCHANGED <<content, status, release, reviewer, history>>

(* Faulty: an endpoint may have moved on as long as it is published.       *)
ReleasableVisible == \A e \in Accepted : \A r \in {From[e], To[e]} : QuestionOf[r] \in visible
(* Nothing accepted is stale, archived or unpublished.                     *)
Releasable == \A e \in Accepted : Fresh(e)

ReadAccepted(p) ==
    /\ publisher[p] = Idle
    /\ Releasable
    /\ publisher' = [publisher EXCEPT ![p] =
          [step |-> "read", edges |-> Accepted, seen |-> {}]]
    /\ Reads

CountPrerequisiteCycles(p) ==
    /\ publisher[p].step = "read"
    /\ IF Acyclic(Accepted \cap Prerequisite) THEN Goto(p, "acyclic") ELSE End(p)
    /\ Reads

(* Active already: nothing to do.  Rolled back: refused.                   *)
CheckExisting(p) ==
    /\ publisher[p].step = "acyclic"
    /\ IF release[publisher[p].edges] = "none" THEN Goto(p, "unused") ELSE End(p)
    /\ Reads

(* The update that retires the active release sees what is committed when  *)
(* it starts, and waits for whoever has that row locked.                   *)
StartRetire(p) ==
    /\ publisher[p].step = "unused"
    /\ publisher' = [publisher EXCEPT ![p].step = "retiring", ![p].seen = Active]
    /\ Reads

(* Faulty: the insert overwrites the status of a known release.            *)
InsertOverwriting(r, retired) == [retired EXCEPT ![r] = "active"]
(* The insert does nothing for a known release and fails, leaving the      *)
(* table as it was, if another one is active.                              *)
Insert(r, retired) ==
    IF retired[r] # "none" THEN retired
    ELSE IF \E s \in Releases : retired[s] = "active" THEN release
    ELSE [retired EXCEPT ![r] = "active"]

(* The rest of the transaction excludes every other one by its row locks.  *)
CommitRelease(p) ==
    LET seen == publisher[p].seen
        retired == [r \in Releases |-> IF r \in seen /\ release[r] = "active"
                                       THEN "rolled_back" ELSE release[r]]
    IN  /\ publisher[p].step = "retiring"
        /\ release' = Insert(publisher[p].edges, retired)
        /\ End(p)
        /\ UNCHANGED <<content, status, reviewer, history>>

AbandonRelease(p) ==
    /\ publisher[p] # Idle
    /\ End(p)
    /\ Reads

RollbackQuestionGraph(r) ==
    /\ release[r] = "active"
    /\ release' = [release EXCEPT ![r] = "rolled_back"]
    /\ UNCHANGED <<content, status, reviewer, publisher, history>>

-----------------------------------------------------------------------------
Init ==
    /\ current \in {f \in [Questions -> Revisions] :
                       \A q \in Questions : QuestionOf[f[q]] = q}
    /\ visible = Questions
    /\ status = [e \in Edges |-> "none"]
    /\ release = [r \in Releases |-> "none"]
    /\ reviewer = [v \in Reviewers |-> Idle]
    /\ publisher = [p \in Publishers |-> Idle]
    /\ sound = {{}}
    /\ overlapped = [e \in Edges |-> {}]

ReleaseQuestionGraph(p) ==
    \/ ReadAccepted(p)
    \/ CountPrerequisiteCycles(p)
    \/ CheckExisting(p)
    \/ StartRetire(p)
    \/ CommitRelease(p)
    \/ AbandonRelease(p)

DecideEdgeProposal(v) ==
    \/ \E e \in Edges, choice \in {"accepted", "declined"} : BeginDecision(v, e, choice)
    \/ CommitDecision(v)
    \/ AbortDecision(v)

Next ==
    \/ \E r \in Revisions : MoveQuestion(r)
    \/ \E q \in Questions : ArchiveQuestion(q)
    \/ \E e \in Edges : CreateEdgeProposal(e)
    \/ \E v \in Reviewers : DecideEdgeProposal(v)
    \/ \E p \in Publishers : ReleaseQuestionGraph(p)
    \/ \E r \in Releases : RollbackQuestionGraph(r)

Spec == Init /\ [][Next]_vars

-----------------------------------------------------------------------------
TypeOK ==
    /\ current \in [Questions -> Revisions]
    /\ \A q \in Questions : QuestionOf[current[q]] = q
    /\ visible \subseteq Questions
    /\ status \in [Edges -> Statuses]
    /\ release \in [Releases -> {"none", "active", "rolled_back"}]
    /\ reviewer \in [Reviewers -> Decision \cup {Idle}]
    /\ \A v \in Reviewers : reviewer[v] # Idle => status[reviewer[v].edge] # "none"
    /\ \A v, w \in Reviewers : reviewer[v] # Idle /\ reviewer[w] # Idle
          /\ reviewer[v].edge = reviewer[w].edge => v = w
    /\ publisher \in [Publishers -> Request \cup {Idle}]
    /\ sound \subseteq Releases
    /\ overlapped \in [Edges -> Releases]

(* Whatever two requests do at once, readers find one release at most, and *)
(* one that was retired or rolled back never comes back: the unique index, *)
(* the arbiter of the insert and the snapshot of the update keep it so.    *)
Register == INSTANCE ReleaseRegister WITH
    inForce <- Active, issued <- {r \in Releases : release[r] # "none"}
ImplementsRegister == Register!Spec

(* Every release is a set of proposals that were the accepted ones, all    *)
(* between current revisions of published questions, at one single moment. *)
ReleasedTogether == \A r \in Releases : release[r] # "none" => r \in sound

(* Among proposals that were accepted one after another the prerequisites  *)
(* form no cycle, however many decisions run and whatever is declined and  *)
(* accepted again: every cycle of accepted prerequisites has two in it     *)
(* whose decisions were open at once, and the check of neither saw the     *)
(* other accepted.                                                         *)
Serial(S) == \A e \in S : S \cap overlapped[e] = {}
SerialAcyclic(A) == \A S \in SUBSET (A \cap Prerequisite) : Serial(S) => Acyclic(S)
CyclesNeedOverlap == SerialAcyclic(Accepted)

(* So does every cycle that is released.                                   *)
ReleasedCyclesNeedOverlap == \A r \in Releases : release[r] # "none" => SerialAcyclic(r)

-----------------------------------------------------------------------------
(* Statements of the repository's documents that the code does not keep;   *)
(* the README has their traces.                                            *)

(* Accepted prerequisites form no cycle.                                   *)
AcceptedAcyclic == Acyclic(Accepted \cap Prerequisite)

(* A prerequisite cycle is never released.                                 *)
ReleasedAcyclic == \A r \in Releases : release[r] # "none" => Acyclic(r \cap Prerequisite)

(* Only accepted proposals between current revisions enter a release.      *)
ReleasedWhileAccepted ==
    [][\A r \in Releases : release[r] = "none" /\ release'[r] # "none"
          => \A e \in r : status[e] = "accepted" /\ Fresh(e)]_vars

(* Approving what is active already changes nothing: the release in force  *)
(* is retired for another one only, or by a rollback.                      *)
ApprovalIdempotent ==
    [][(\E p \in Publishers : CommitRelease(p)) /\ Active # {} => Active' # {}]_vars
=============================================================================

------------------------- MODULE QuestionGraphProofs -------------------------
(***************************************************************************)
(* Proofs about QuestionGraph, for every set of questions, revisions,      *)
(* proposals, reviewers and publishers.                                    *)
(***************************************************************************)
EXTENDS QuestionGraph, TLAPS

-----------------------------------------------------------------------------
(* Types.                                                                  *)

LEMMA OverlapTyped ==
  ASSUME TypeOK, NEW e \in Edges
  PROVE  Beside(e) \in [Edges -> Releases]
<1>1. Accepting \in Releases
  BY DEF Accepting, Releases
<1>2. \A f \in Edges : overlapped[f] \in Releases
  BY DEF TypeOK
<1>3. \A f \in Edges : overlapped[f] \cup
         (IF f = e THEN Accepting ELSE IF f \in Accepting THEN {e} ELSE {}) \in Releases
  BY <1>1, <1>2 DEF Releases
<1> QED
  BY <1>3 DEF Beside

LEMMA ReviewTyped ==
  ASSUME TypeOK, NEW v \in Reviewers, DecideEdgeProposal(v)
  PROVE  TypeOK'
<1>1. ASSUME NEW e \in Edges, NEW choice \in {"accepted", "declined"},
             BeginDecision(v, e, choice)
      PROVE  TypeOK'
  <2> DEFINE t == [step |-> "checked", edge |-> e, choice |-> choice]
  <2>1. t \in Decision /\ t # Idle /\ t.edge = e
    BY DEF Decision, Idle
  <2>2. reviewer' = [reviewer EXCEPT ![v] = t]
    BY <1>1 DEF BeginDecision
  <2>3. \A w \in Reviewers \ {v} : reviewer'[w] = reviewer[w]
    BY <2>2 DEF TypeOK
  <2>4. reviewer'[v] = t
    BY <2>2 DEF TypeOK
  <2>5. \A w \in Reviewers : reviewer[w] # Idle => reviewer[w].edge # e
    BY <1>1 DEF BeginDecision, Locked
  <2>6. status[e] # "none"
    BY <1>1 DEF BeginDecision
  <2>7. UNCHANGED <<current, visible, status, release, publisher, sound>>
    BY <1>1 DEF BeginDecision, content
  <2>8. reviewer' \in [Reviewers -> Decision \cup {Idle}]
    BY <2>1, <2>2 DEF TypeOK
  <2>9. \A w \in Reviewers : reviewer'[w] # Idle => status'[reviewer'[w].edge] # "none"
    BY <2>1, <2>3, <2>4, <2>6, <2>7 DEF TypeOK
  <2>10. \A w, u \in Reviewers : reviewer'[w] # Idle /\ reviewer'[u] # Idle
            /\ reviewer'[w].edge = reviewer'[u].edge => w = u
    BY <2>1, <2>3, <2>4, <2>5 DEF TypeOK
  <2>11. overlapped' \in [Edges -> Releases]
    BY <1>1, OverlapTyped DEF BeginDecision, TypeOK
  <2> QED
    BY <2>7, <2>8, <2>9, <2>10, <2>11 DEF TypeOK
<1>2. ASSUME CommitDecision(v)
      PROVE  TypeOK'
  <2>1. reviewer[v] \in Decision
    BY <1>2 DEF CommitDecision, TypeOK
  <2>2. reviewer[v].edge \in Edges /\ reviewer[v].choice \in {"accepted", "declined"}
    BY <2>1 DEF Decision
  <2>3. status' \in [Edges -> Statuses]
    BY <1>2, <2>2 DEF CommitDecision, TypeOK, Statuses
  <2>4. \A e \in Edges : status[e] # "none" => status'[e] # "none"
    BY <1>2, <2>2 DEF CommitDecision, TypeOK
  <2>5. reviewer' \in [Reviewers -> Decision \cup {Idle}]
    BY <1>2 DEF CommitDecision, TypeOK
  <2>6. \A w \in Reviewers : reviewer'[w] # Idle => reviewer'[w] = reviewer[w]
    BY <1>2 DEF CommitDecision, TypeOK
  <2>7. \A w \in Reviewers : reviewer[w] # Idle => reviewer[w].edge \in Edges
    BY DEF TypeOK, Decision
  <2>8. sound' \subseteq Releases
    BY <1>2 DEF CommitDecision, Observe, TypeOK, Releases, Accepted
  <2>9. UNCHANGED <<current, visible, release, publisher, overlapped>>
    BY <1>2 DEF CommitDecision, content, Observe
  <2>10. \A w \in Reviewers : reviewer'[w] # Idle => status'[reviewer'[w].edge] # "none"
    BY <2>4, <2>6, <2>7 DEF TypeOK
  <2>11. \A w, u \in Reviewers : reviewer'[w] # Idle /\ reviewer'[u] # Idle
            /\ reviewer'[w].edge = reviewer'[u].edge => w = u
    BY <2>6 DEF TypeOK
  <2> QED
    BY <2>3, <2>5, <2>8, <2>9, <2>10, <2>11 DEF TypeOK
<1>3. ASSUME AbortDecision(v)
      PROVE  TypeOK'
  <2>1. reviewer' \in [Reviewers -> Decision \cup {Idle}]
    BY <1>3 DEF AbortDecision, TypeOK
  <2>2. \A w \in Reviewers : reviewer'[w] # Idle => reviewer'[w] = reviewer[w]
    BY <1>3 DEF AbortDecision, TypeOK
  <2>3. UNCHANGED <<current, visible, status, release, publisher, sound, overlapped>>
    BY <1>3 DEF AbortDecision, content, history
  <2> QED
    BY <2>1, <2>2, <2>3 DEF TypeOK
<1> QED
  BY <1>1, <1>2, <1>3 DEF DecideEdgeProposal

(* Every step of a request keeps what it read; only the last one writes.   *)
LEMMA RequestMoves ==
  ASSUME TypeOK, NEW p \in Publishers, NEW step \in {"acyclic", "unused", "retiring"},
         publisher[p] # Idle, Goto(p, step)
  PROVE  /\ publisher' \in [Publishers -> Request \cup {Idle}]
         /\ publisher'[p].edges = publisher[p].edges
  BY DEF Goto, TypeOK, Request

LEMMA BusyRequest ==
  ASSUME TypeOK, NEW p \in Publishers,
         publisher[p].step \in {"read", "acyclic", "unused", "retiring"}
  PROVE  publisher[p] # Idle /\ publisher[p] \in Request /\ publisher[p].edges \in Releases
  BY DEF TypeOK, Request, Idle

LEMMA RequestEnds ==
  ASSUME TypeOK, NEW p \in Publishers, End(p)
  PROVE  /\ publisher' \in [Publishers -> Request \cup {Idle}]
         /\ \A o \in Publishers : publisher'[o] # Idle => publisher'[o] = publisher[o]
  BY DEF End, TypeOK

(* What a step of a request does to its record: another one keeps its own, *)
(* and the set of edges is the accepted one when the request starts.       *)
LEMMA RequestTyped ==
  ASSUME TypeOK, NEW p \in Publishers, ReleaseQuestionGraph(p)
  PROVE  /\ publisher' \in [Publishers -> Request \cup {Idle}]
         /\ \A o \in Publishers : publisher'[o] # Idle =>
               \/ publisher[o] # Idle /\ publisher'[o].edges = publisher[o].edges
               \/ Releasable /\ publisher'[o].edges = Accepted
<1>1. CASE ReadAccepted(p)
  <2> DEFINE t == [step |-> "read", edges |-> Accepted, seen |-> {}]
  <2>1. Accepted \in Releases
    BY DEF Accepted, Releases
  <2>2. t \in Request /\ t.edges = Accepted
    BY <2>1 DEF Request
  <2>3. publisher' = [publisher EXCEPT ![p] = t] /\ Releasable
    BY <1>1 DEF ReadAccepted
  <2>4. publisher' \in [Publishers -> Request \cup {Idle}]
    BY <2>2, <2>3 DEF TypeOK
  <2>5. publisher'[p] = t /\ \A o \in Publishers \ {p} : publisher'[o] = publisher[o]
    BY <2>3 DEF TypeOK
  <2> QED
    BY <2>2, <2>3, <2>4, <2>5
<1>2. ASSUME NEW step \in {"acyclic", "unused", "retiring"},
             publisher[p].step \in {"read", "acyclic", "unused"}, Goto(p, step)
      PROVE  /\ publisher' \in [Publishers -> Request \cup {Idle}]
             /\ \A o \in Publishers : publisher'[o] # Idle =>
                   publisher[o] # Idle /\ publisher'[o].edges = publisher[o].edges
  <2>1. publisher[p] # Idle
    BY <1>2, BusyRequest
  <2>2. \A o \in Publishers \ {p} : publisher'[o] = publisher[o]
    BY <1>2 DEF Goto, TypeOK
  <2> QED
    BY <1>2, <2>1, <2>2, RequestMoves
<1>3. CASE CountPrerequisiteCycles(p)
  BY <1>2, <1>3, RequestEnds DEF CountPrerequisiteCycles
<1>4. CASE CheckExisting(p)
  BY <1>2, <1>4, RequestEnds DEF CheckExisting
<1>5. CASE StartRetire(p)
  <2>1. publisher[p] # Idle /\ publisher[p] \in Request
    BY <1>5, BusyRequest DEF StartRetire
  <2>2. Active \in SUBSET Releases
    BY DEF Active
  <2>3. publisher' = [publisher EXCEPT ![p] =
           [publisher[p] EXCEPT !.step = "retiring", !.seen = Active]]
    BY <1>5, <2>1 DEF StartRetire, TypeOK
  <2>4. [publisher[p] EXCEPT !.step = "retiring", !.seen = Active] \in Request
    BY <2>1, <2>2 DEF Request
  <2>5. [publisher[p] EXCEPT !.step = "retiring", !.seen = Active].edges = publisher[p].edges
    BY <2>1 DEF Request
  <2> QED
    BY <2>1, <2>3, <2>4, <2>5 DEF TypeOK
<1>6. CASE CommitRelease(p)
  BY <1>6, RequestEnds DEF CommitRelease
<1>7. CASE AbandonRelease(p)
  BY <1>7, RequestEnds DEF AbandonRelease
<1> QED
  BY <1>1, <1>3, <1>4, <1>5, <1>6, <1>7 DEF ReleaseQuestionGraph

(* The table before the insert of a release: some active rows are retired. *)
Retired(p) == [r \in Releases |-> IF r \in publisher[p].seen /\ release[r] = "active"
                                  THEN "rolled_back" ELSE release[r]]

LEMMA CommitEffect ==
  ASSUME TypeOK, NEW p \in Publishers, CommitRelease(p)
  PROVE  /\ release' = Insert(publisher[p].edges, Retired(p))
         /\ Retired(p) \in [Releases -> {"none", "active", "rolled_back"}]
         /\ publisher[p].edges \in Releases
         /\ publisher[p] # Idle
<1>1. publisher[p] # Idle /\ publisher[p].edges \in Releases
  BY BusyRequest DEF CommitRelease
<1>2. release' = Insert(publisher[p].edges, Retired(p))
  BY DEF CommitRelease, Retired
<1>3. Retired(p) \in [Releases -> {"none", "active", "rolled_back"}]
  BY DEF Retired, TypeOK
<1> QED
  BY <1>1, <1>2, <1>3

LEMMA ReleaseTyped ==
  ASSUME TypeOK, NEW p \in Publishers, ReleaseQuestionGraph(p)
  PROVE  /\ release' \in [Releases -> {"none", "active", "rolled_back"}]
         /\ CommitRelease(p) \/ release' = release
         /\ UNCHANGED <<current, visible, status, reviewer, sound, overlapped>>
<1>1. CASE CommitRelease(p)
  <2>1. release' \in [Releases -> {"none", "active", "rolled_back"}]
    BY <1>1, CommitEffect DEF Insert, TypeOK
  <2> QED
    BY <1>1, <2>1 DEF CommitRelease, content, history
<1>2. CASE ~CommitRelease(p)
  BY <1>2 DEF ReleaseQuestionGraph, ReadAccepted, CountPrerequisiteCycles, CheckExisting,
     StartRetire, AbandonRelease, Reads, content, history, TypeOK
<1> QED
  BY <1>1, <1>2

LEMMA TypesStep ==
  ASSUME TypeOK, [Next]_vars
  PROVE  TypeOK'
<1>1. ASSUME NEW r \in Revisions, MoveQuestion(r)
      PROVE  TypeOK'
  <2>1. QuestionOf[r] \in Questions
    BY ConstantsAssumption
  <2>2. current' \in [Questions -> Revisions] /\ visible' \subseteq Questions
    BY <1>1, <2>1 DEF MoveQuestion, TypeOK
  <2>3. \A q \in Questions : QuestionOf[current'[q]] = q
    BY <1>1, <2>1 DEF MoveQuestion, TypeOK
  <2>4. sound' \subseteq Releases
    BY <1>1 DEF MoveQuestion, Observe, TypeOK, Releases, Accepted
  <2> QED
    BY <1>1, <2>2, <2>3, <2>4 DEF MoveQuestion, Observe, TypeOK
<1>2. ASSUME NEW q \in Questions, ArchiveQuestion(q)
      PROVE  TypeOK'
  BY <1>2 DEF ArchiveQuestion, Observe, TypeOK, Releases, Accepted
<1>3. ASSUME NEW e \in Edges, CreateEdgeProposal(e)
      PROVE  TypeOK'
  <2>1. status' \in [Edges -> Statuses]
        /\ \A d \in Edges : status[d] # "none" => status'[d] # "none"
    BY <1>3 DEF CreateEdgeProposal, TypeOK, Statuses
  <2>2. \A v \in Reviewers : reviewer[v] # Idle => reviewer[v].edge \in Edges
    BY DEF TypeOK, Decision
  <2>3. sound' \subseteq Releases
    BY <1>3 DEF CreateEdgeProposal, Observe, TypeOK, Releases, Accepted
  <2> QED
    BY <1>3, <2>1, <2>2, <2>3 DEF CreateEdgeProposal, content, Observe, TypeOK
<1>4. ASSUME NEW p \in Publishers, ReleaseQuestionGraph(p)
      PROVE  TypeOK'
  BY <1>4, RequestTyped, ReleaseTyped DEF TypeOK
<1>5. ASSUME NEW r \in Releases, RollbackQuestionGraph(r)
      PROVE  TypeOK'
  BY <1>5 DEF RollbackQuestionGraph, content, history, TypeOK
<1>6. CASE UNCHANGED vars
  BY <1>6 DEF vars, content, history, TypeOK
<1> QED
  BY <1>1, <1>2, <1>3, <1>4, <1>5, <1>6, ReviewTyped DEF Next

LEMMA TypesInit == Init => TypeOK
  BY ConstantsAssumption DEF Init, TypeOK, Statuses, Releases, Idle

(* Every reachable state is well typed and no proposal has two open        *)
(* decisions: the first statement of DecideEdgeProposal locks its row.     *)
THEOREM TypesHold == Spec => []TypeOK
  BY TypesInit, TypesStep, PTL DEF Spec

-----------------------------------------------------------------------------
(* Releases are sets that were accepted together.  What a request has read *)
(* stays in the history, so the set it inserts is there whatever happened  *)
(* between the read and the insert.                                        *)

Vetted ==
    /\ ReleasedTogether
    /\ \A p \in Publishers : publisher[p] # Idle => publisher[p].edges \in sound
    /\ (\A e \in Accepted : Fresh(e)) => Accepted \in sound

LEMMA VettedStep ==
  ASSUME TypeOK, Vetted, [Next]_vars
  PROVE  Vetted'
<1>1. ASSUME Observe, UNCHANGED <<release, publisher>>
      PROVE  Vetted'
  <2>1. sound \subseteq sound'
    BY <1>1 DEF Observe
  <2>2. (\A e \in Accepted' : Fresh(e)') => Accepted' \in sound'
    BY <1>1 DEF Observe
  <2> QED
    BY <1>1, <2>1, <2>2 DEF Vetted, ReleasedTogether
<1>2. ASSUME UNCHANGED <<current, visible, status, release, publisher, sound>>
      PROVE  Vetted'
  BY <1>2 DEF Vetted, ReleasedTogether, Accepted, Fresh
<1>3. ASSUME NEW p \in Publishers, ReleaseQuestionGraph(p)
      PROVE  Vetted'
  <2>1. UNCHANGED <<current, visible, status, sound>>
    BY <1>3, ReleaseTyped
  <2>2. Releasable => Accepted \in sound
    BY DEF Vetted, Releasable
  <2>3. \A o \in Publishers : publisher'[o] # Idle => publisher'[o].edges \in sound'
    BY <1>3, <2>1, <2>2, RequestTyped DEF Vetted
  <2>4. \A r \in Releases : release'[r] # "none" => r \in sound'
    <3>1. CASE CommitRelease(p)
      <4>1. \A r \in Releases : Retired(p)[r] # "none" => release[r] # "none"
        BY DEF Retired, TypeOK
      <4>2. publisher[p].edges \in sound
        BY <3>1, CommitEffect DEF Vetted
      <4>3. \A r \in Releases : release'[r] # "none" =>
               release[r] # "none" \/ r = publisher[p].edges
        BY <3>1, <4>1, CommitEffect DEF Insert, TypeOK
      <4> QED
        BY <2>1, <4>2, <4>3 DEF Vetted, ReleasedTogether
    <3>2. CASE release' = release
      BY <2>1, <3>2 DEF Vetted, ReleasedTogether
    <3> QED
      BY <1>3, <3>1, <3>2, ReleaseTyped
  <2>5. (\A e \in Accepted' : Fresh(e)') => Accepted' \in sound'
    BY <2>1 DEF Vetted, Accepted, Fresh
  <2> QED
    BY <2>3, <2>4, <2>5 DEF Vetted, ReleasedTogether
<1>4. ASSUME NEW r \in Releases, RollbackQuestionGraph(r)
      PROVE  Vetted'
  <2>1. UNCHANGED <<current, visible, status, publisher, sound>>
    BY <1>4 DEF RollbackQuestionGraph, content, history
  <2>2. \A s \in Releases : release'[s] # "none" => release[s] # "none"
    BY <1>4 DEF RollbackQuestionGraph, TypeOK
  <2> QED
    BY <2>1, <2>2 DEF Vetted, ReleasedTogether, Accepted, Fresh
<1>5. ASSUME NEW v \in Reviewers, DecideEdgeProposal(v)
      PROVE  Vetted'
  <2>1. CASE CommitDecision(v)
    BY <1>1, <2>1 DEF CommitDecision
  <2>2. CASE ~CommitDecision(v)
    BY <1>2, <1>5, <2>2 DEF DecideEdgeProposal, BeginDecision, AbortDecision, content, history
  <2> QED
    BY <2>1, <2>2
<1>6. ASSUME NEW r \in Revisions, MoveQuestion(r)
      PROVE  Vetted'
  BY <1>1, <1>6 DEF MoveQuestion
<1>7. ASSUME NEW q \in Questions, ArchiveQuestion(q)
      PROVE  Vetted'
  BY <1>1, <1>7 DEF ArchiveQuestion
<1>8. ASSUME NEW e \in Edges, CreateEdgeProposal(e)
      PROVE  Vetted'
  BY <1>1, <1>8 DEF CreateEdgeProposal
<1>9. CASE UNCHANGED vars
  BY <1>2, <1>9 DEF vars, content, history
<1> QED
  BY <1>3, <1>4, <1>5, <1>6, <1>7, <1>8, <1>9 DEF Next

LEMMA VettedInit == Init => Vetted
  BY DEF Init, Vetted, ReleasedTogether, Accepted, Idle

(* A release never holds proposals that were not the accepted ones, all    *)
(* fresh, at one moment: ReleaseQuestionGraph reads them in one statement. *)
THEOREM TogetherHolds == Spec => []ReleasedTogether
<1>1. Vetted => ReleasedTogether
  BY DEF Vetted
<1> QED
  BY <1>1, TypesHold, VettedInit, VettedStep, PTL DEF Spec

-----------------------------------------------------------------------------
(* The table of releases implements the register.                          *)

Issued == {r \in Releases : release[r] # "none"}
OneActive == \A r, s \in Active : r = s

LEMMA RegisterUnchanged ==
  ASSUME release' = release
  PROVE  /\ UNCHANGED Register!vars
         /\ Active' = Active
  BY DEF Register!vars, Active

LEMMA CommitRegisters ==
  ASSUME TypeOK, OneActive, NEW p \in Publishers, CommitRelease(p)
  PROVE  OneActive' /\ [Register!Next]_(Register!vars)
<1> DEFINE new == publisher[p].edges
           old == Retired(p)
<1>1. /\ release' = Insert(new, old)
      /\ old \in [Releases -> {"none", "active", "rolled_back"}]
      /\ new \in Releases
  BY CommitEffect
<1>2. \A r \in Releases : /\ old[r] = "none" <=> release[r] = "none"
                          /\ old[r] = "active" => release[r] = "active"
  BY DEF Retired, TypeOK
<1>3. CASE old[new] # "none"
  <2>1. release' = old
    BY <1>1, <1>3 DEF Insert
  <2>2. Active' \subseteq Active /\ Issued' = Issued
    BY <1>2, <2>1 DEF Active, Issued
  <2>3. OneActive'
    BY <2>2 DEF OneActive
  <2>4. Active' = Active \/ (Active' = {} /\ Active # {})
    BY <2>2 DEF OneActive
  <2>5. CASE Active' = Active
    BY <2>2, <2>3, <2>5 DEF Register!vars, Issued
  <2>6. CASE Active' = {} /\ Active # {}
    BY <2>2, <2>3, <2>6 DEF Register!Next, Register!Withdraw, Issued
  <2> QED
    BY <2>3, <2>4, <2>5, <2>6
<1>4. CASE old[new] = "none" /\ \E s \in Releases : old[s] = "active"
  <2>1. release' = release
    BY <1>1, <1>4 DEF Insert
  <2> QED
    BY <2>1, RegisterUnchanged DEF OneActive
<1>5. CASE old[new] = "none" /\ \A s \in Releases : old[s] # "active"
  <2>1. release' = [old EXCEPT ![new] = "active"]
    BY <1>1, <1>5 DEF Insert
  <2>2. Active' = {new}
    BY <1>1, <1>5, <2>1 DEF Active
  <2>3. Issued' = Issued \cup {new} /\ new \notin Issued
    BY <1>1, <1>2, <1>5, <2>1 DEF Issued
  <2>4. OneActive'
    BY <2>2 DEF OneActive
  <2>5. Register!Next
    BY <1>1, <2>2, <2>3 DEF Register!Next, Register!Issue, Issued
  <2> QED
    BY <2>4, <2>5
<1> QED
  BY <1>3, <1>4, <1>5

LEMMA RegisterStep ==
  ASSUME TypeOK, OneActive, [Next]_vars
  PROVE  OneActive' /\ [Register!Next]_(Register!vars)
<1>1. ASSUME release' = release
      PROVE  OneActive' /\ [Register!Next]_(Register!vars)
  BY <1>1, RegisterUnchanged DEF OneActive
<1>2. ASSUME NEW p \in Publishers, ReleaseQuestionGraph(p)
      PROVE  OneActive' /\ [Register!Next]_(Register!vars)
  BY <1>1, <1>2, ReleaseTyped, CommitRegisters
<1>3. ASSUME NEW r \in Releases, RollbackQuestionGraph(r)
      PROVE  OneActive' /\ [Register!Next]_(Register!vars)
  <2>1. Active = {r}
    BY <1>3 DEF RollbackQuestionGraph, Active, OneActive
  <2>2. release' = [release EXCEPT ![r] = "rolled_back"]
    BY <1>3 DEF RollbackQuestionGraph
  <2>3. \A s \in Releases : release'[s] = IF s = r THEN "rolled_back" ELSE release[s]
    BY <2>2 DEF TypeOK
  <2>4. Active' = {}
    BY <2>1, <2>3 DEF Active
  <2>5. Issued' = Issued
    BY <1>3, <2>3 DEF Issued, RollbackQuestionGraph
  <2> QED
    BY <2>1, <2>4, <2>5 DEF OneActive, Register!Next, Register!Withdraw, Issued
<1>4. ASSUME NEW v \in Reviewers, DecideEdgeProposal(v)
      PROVE  release' = release
  BY <1>4 DEF DecideEdgeProposal, BeginDecision, CommitDecision, AbortDecision
<1>5. CASE UNCHANGED vars
  BY <1>1, <1>5 DEF vars
<1> QED
  BY <1>1, <1>2, <1>3, <1>4, <1>5 DEF Next, MoveQuestion, ArchiveQuestion, CreateEdgeProposal

LEMMA RegisterInit == Init => OneActive /\ Register!Init
  BY DEF Init, OneActive, Active, Register!Init

(* Whatever releases and rollbacks of the graph overlap, at most one       *)
(* release is in force and none comes into force twice.                    *)
THEOREM RegisterHolds == Spec => ImplementsRegister
  BY TypesHold, RegisterInit, RegisterStep, PTL
     DEF Spec, ImplementsRegister, Register!Spec

-----------------------------------------------------------------------------
(* Reachability: Reach(A, n) is the least set that holds the successors of *)
(* n and is closed under A.                                                *)

LEMMA ReachClosed ==
  ASSUME NEW A \in SUBSET Edges, NEW n \in Revisions
  PROVE  /\ Reach(A, n) \subseteq Revisions
         /\ \A e \in A : From[e] = n => To[e] \in Reach(A, n)
         /\ \A e \in A : From[e] \in Reach(A, n) => To[e] \in Reach(A, n)
<1>1. \A e \in A : To[e] \in Revisions
  BY ConstantsAssumption
<1>2. \A e \in A : From[e] = n => To[e] \in Reach(A, n)
  BY <1>1 DEF Reach
<1>3. \A e \in A : From[e] \in Reach(A, n) => To[e] \in Reach(A, n)
  BY <1>1 DEF Reach, ClosedUnder
<1> QED
  BY <1>2, <1>3 DEF Reach

LEMMA ReachLeast ==
  ASSUME NEW A \in SUBSET Edges, NEW n \in Revisions, NEW S \in SUBSET Revisions,
         \A e \in A : From[e] = n => To[e] \in S,
         \A e \in A : From[e] \in S => To[e] \in S
  PROVE  Reach(A, n) \subseteq S
  BY DEF Reach, ClosedUnder

LEMMA ReachTransitive ==
  ASSUME NEW A \in SUBSET Edges, NEW m \in Revisions, NEW n \in Reach(A, m)
  PROVE  Reach(A, n) \subseteq Reach(A, m)
<1>1. n \in Revisions
  BY ReachClosed
<1> QED
  BY <1>1, ReachClosed, ReachLeast

(* Fewer edges reach less.                                                 *)
LEMMA AcyclicSubset ==
  ASSUME NEW A \in SUBSET Edges, NEW B \in SUBSET A, Acyclic(A)
  PROVE  Acyclic(B)
<1>1. ASSUME NEW n \in Revisions
      PROVE  Reach(B, n) \subseteq Reach(A, n)
  <2>1. /\ Reach(A, n) \subseteq Revisions
        /\ \A e \in B : From[e] = n => To[e] \in Reach(A, n)
        /\ \A e \in B : From[e] \in Reach(A, n) => To[e] \in Reach(A, n)
    BY ReachClosed
  <2> QED
    BY <2>1, ReachLeast
<1> QED
  BY <1>1 DEF Acyclic

(* An edge whose target does not reach its source closes no cycle.         *)
LEMMA AcyclicExtend ==
  ASSUME NEW A \in SUBSET Edges, NEW e \in Edges, Acyclic(A),
         From[e] \notin Reach(A, To[e])
  PROVE  Acyclic(A \cup {e})
<1> DEFINE B == A \cup {e}
<1>1. From[e] \in Revisions /\ To[e] \in Revisions /\ From[e] # To[e]
  BY ConstantsAssumption
<1>2. ASSUME NEW r \in Revisions
      PROVE  r \notin Reach(B, r)
  <2>1. /\ Reach(A, r) \subseteq Revisions /\ r \notin Reach(A, r)
        /\ \A f \in A : From[f] = r => To[f] \in Reach(A, r)
        /\ \A f \in A : From[f] \in Reach(A, r) => To[f] \in Reach(A, r)
    BY ReachClosed DEF Acyclic
  <2>2. CASE From[e] = r \/ From[e] \in Reach(A, r)
    <3> DEFINE S == Reach(A, r) \cup {To[e]} \cup Reach(A, To[e])
    <3>1. /\ Reach(A, To[e]) \subseteq Revisions
          /\ \A f \in A : From[f] = To[e] => To[f] \in Reach(A, To[e])
          /\ \A f \in A : From[f] \in Reach(A, To[e]) => To[f] \in Reach(A, To[e])
      BY <1>1, ReachClosed
    <3>2. S \in SUBSET Revisions
      BY <1>1, <2>1, <3>1
    <3>3. \A f \in B : From[f] = r => To[f] \in S
      BY <2>1
    <3>4. \A f \in B : From[f] \in S => To[f] \in S
      BY <2>1, <3>1
    <3>5. Reach(B, r) \subseteq S
      <4> HIDE DEF S
      <4> QED
        BY <3>2, <3>3, <3>4, ReachLeast
    <3>6. r # To[e]
      BY <1>1, <2>2
    <3>7. r \notin Reach(A, To[e])
      <4>1. ASSUME r \in Reach(A, To[e])
            PROVE  FALSE
        <5>1. Reach(A, r) \subseteq Reach(A, To[e])
          BY <1>1, <4>1, ReachTransitive
        <5> QED
          BY <2>2, <4>1, <5>1
      <4> QED
        BY <4>1
    <3> QED
      BY <2>1, <3>5, <3>6, <3>7
  <2>3. CASE From[e] # r /\ From[e] \notin Reach(A, r)
    <3>1. Reach(B, r) \subseteq Reach(A, r)
      <4>1. /\ \A f \in B : From[f] = r => To[f] \in Reach(A, r)
            /\ \A f \in B : From[f] \in Reach(A, r) => To[f] \in Reach(A, r)
        BY <2>1, <2>3
      <4> QED
        BY <2>1, <4>1, ReachLeast
    <3> QED
      BY <2>1, <3>1
  <2> QED
    BY <2>2, <2>3
<1> QED
  BY <1>2 DEF Acyclic

-----------------------------------------------------------------------------
(* What the check of a decision saw is still accepted when the decision is *)
(* written, except what was being decided beside it.                       *)

Prerequisites == Accepted \cap Prerequisite
(* What cannot have escaped the check of e.                                *)
Known(e) == {f \in Prerequisites : f \notin overlapped[e]}
Apart(e) == From[e] \notin Reach(Known(e), To[e])

Accepts(v, e) == reviewer[v] # Idle /\ reviewer[v].choice = "accepted" /\ reviewer[v].edge = e

Checked == \A v \in Reviewers, e \in Prerequisite : Accepts(v, e) => Apart(e)

Beheld ==
    \A v, w \in Reviewers, e, f \in Edges :
        v # w /\ Accepts(v, e) /\ Accepts(w, f) => f \in overlapped[e]

Symmetric == \A e, f \in Edges : f \in overlapped[e] => e \in overlapped[f]

InSeries == CyclesNeedOverlap /\ Checked /\ Beheld /\ Symmetric

LEMMA ReachMonotone ==
  ASSUME NEW A \in SUBSET Edges, NEW B \in SUBSET A, NEW n \in Revisions
  PROVE  Reach(B, n) \subseteq Reach(A, n)
<1>1. /\ Reach(A, n) \subseteq Revisions
      /\ \A e \in B : From[e] = n => To[e] \in Reach(A, n)
      /\ \A e \in B : From[e] \in Reach(A, n) => To[e] \in Reach(A, n)
  BY ReachClosed
<1> QED
  BY <1>1, ReachLeast

(* The operators of the graph read no variable.                            *)
LEMMA GraphRigid ==
  /\ CyclesNeedOverlap' <=>
        \A S \in SUBSET Prerequisites' :
            (\A e \in S : S \cap overlapped'[e] = {}) => Acyclic(S)
  /\ \A e : Apart(e)' <=> From[e] \notin Reach(Known(e)', To[e])
<1>1. CyclesNeedOverlap' <=>
        \A S \in SUBSET Prerequisites' :
            (\A e \in S : S \cap overlapped'[e] = {}) => Acyclic(S)
  BY DEF CyclesNeedOverlap, SerialAcyclic, Serial, Prerequisites, Acyclic, Reach, ClosedUnder
<1>2. \A e : Apart(e)' <=> From[e] \notin Reach(Known(e)', To[e])
  BY DEF Apart, Reach, ClosedUnder
<1> QED
  BY <1>1, <1>2

(* Overlaps are never forgotten: a decision that begins adds what is open. *)
LEMMA OverlapsGrow ==
  ASSUME TypeOK, NEW v \in Reviewers, NEW e \in Edges, NEW choice \in {"accepted", "declined"},
         BeginDecision(v, e, choice), Symmetric
  PROVE  /\ \A f \in Edges : overlapped[f] \subseteq overlapped'[f]
         /\ Symmetric'
         /\ choice = "accepted" =>
               \A f \in Accepting : f \in overlapped'[e] /\ e \in overlapped'[f]
<1>1. CASE choice = "accepted"
  <2>1. \A f \in Edges : overlapped'[f] = overlapped[f] \cup
           (IF f = e THEN Accepting ELSE IF f \in Accepting THEN {e} ELSE {})
    BY <1>1 DEF BeginDecision, Beside
  <2>2. Accepting \subseteq Edges /\ e \notin Accepting
    BY DEF Accepting, BeginDecision, Locked
  <2>3. Symmetric'
    <3>1. ASSUME NEW f \in Edges, NEW g \in Edges, g \in overlapped'[f]
          PROVE  f \in overlapped'[g]
      <4>1. CASE g \in overlapped[f]
        BY <2>1, <4>1 DEF Symmetric
      <4>2. CASE f = e /\ g \in Accepting
        BY <2>1, <2>2, <4>2
      <4>3. CASE f \in Accepting /\ g = e
        BY <2>1, <4>3
      <4> QED
        BY <2>1, <3>1, <4>1, <4>2, <4>3
    <3> QED
      BY <3>1 DEF Symmetric
  <2> QED
    BY <2>1, <2>2, <2>3
<1>2. CASE choice = "declined"
  <2>1. overlapped' = overlapped
    BY <1>2 DEF BeginDecision
  <2> QED
    BY <1>2, <2>1 DEF Symmetric
<1> QED
  BY <1>1, <1>2

(* Fewer accepted proposals and more overlaps are no new cycle.            *)
LEMMA FewerAccepted ==
  ASSUME TypeOK, Accepted' \subseteq Accepted,
         \A f \in Edges : overlapped[f] \subseteq overlapped'[f]
  PROVE  /\ CyclesNeedOverlap => CyclesNeedOverlap'
         /\ \A e \in Edges : Apart(e) => Apart(e)'
<1>1. Prerequisites' \subseteq Prerequisites /\ Prerequisites \subseteq Edges
  BY DEF Prerequisites, Accepted
<1>2. ASSUME CyclesNeedOverlap
      PROVE  CyclesNeedOverlap'
  <2>1. ASSUME NEW S \in SUBSET Prerequisites', \A e \in S : S \cap overlapped'[e] = {}
        PROVE  Acyclic(S)
    <3>1. \A e \in S : S \cap overlapped[e] = {}
      BY <1>1, <2>1
    <3> QED
      BY <1>1, <1>2, <3>1 DEF CyclesNeedOverlap, SerialAcyclic, Serial, Prerequisites
  <2> QED
    BY <2>1, GraphRigid
<1>3. ASSUME NEW e \in Edges, Apart(e)
      PROVE  Apart(e)'
  <2>1. Known(e)' \in SUBSET Known(e) /\ Known(e) \in SUBSET Edges
    BY <1>1 DEF Known
  <2>2. Reach(Known(e)', To[e]) \subseteq Reach(Known(e), To[e])
    BY <2>1, ReachMonotone, ConstantsAssumption
  <2> QED
    BY <1>3, <2>2, GraphRigid DEF Apart
<1> QED
  BY <1>2, <1>3

LEMMA InSeriesKept ==
  ASSUME TypeOK, InSeries, Accepted' \subseteq Accepted, overlapped' = overlapped,
         \A v \in Reviewers : reviewer'[v] = Idle \/ reviewer'[v] = reviewer[v]
  PROVE  InSeries'
<1>1. \A v \in Reviewers, e \in Edges : Accepts(v, e)' => Accepts(v, e)
  BY DEF Accepts
<1>2. CyclesNeedOverlap' /\ \A e \in Edges : Apart(e) => Apart(e)'
  BY FewerAccepted DEF InSeries
<1>3. Checked'
  BY <1>1, <1>2, ConstantsAssumption DEF InSeries, Checked
<1>4. Beheld' /\ Symmetric'
  BY <1>1 DEF InSeries, Beheld, Symmetric
<1> QED
  BY <1>2, <1>3, <1>4 DEF InSeries

LEMMA BeginInSeries ==
  ASSUME TypeOK, InSeries,
         NEW v \in Reviewers, NEW e \in Edges, NEW choice \in {"accepted", "declined"},
         BeginDecision(v, e, choice)
  PROVE  InSeries'
<1>1. /\ \A f \in Edges : overlapped[f] \subseteq overlapped'[f]
      /\ Symmetric'
      /\ choice = "accepted" =>
            \A f \in Accepting : f \in overlapped'[e] /\ e \in overlapped'[f]
  BY OverlapsGrow DEF InSeries
<1>2. Accepted' = Accepted /\ Prerequisites' = Prerequisites
  BY DEF BeginDecision, Accepted, Prerequisites
<1>3. CyclesNeedOverlap' /\ \A f \in Edges : Apart(f) => Apart(f)'
  BY <1>1, <1>2, FewerAccepted DEF InSeries
<1>4. reviewer'[v] = [step |-> "checked", edge |-> e, choice |-> choice]
      /\ \A w \in Reviewers \ {v} : reviewer'[w] = reviewer[w]
  BY DEF BeginDecision, TypeOK
<1>5. \A w \in Reviewers \ {v}, f \in Edges : Accepts(w, f)' <=> Accepts(w, f)
  BY <1>4 DEF Accepts
<1>6. \A f \in Edges : Accepts(v, f)' => f = e /\ choice = "accepted"
  BY <1>4 DEF Accepts
<1>7. \A w \in Reviewers, f \in Edges : Accepts(w, f) => f \in Accepting
  BY DEF Accepts, Accepting
<1>8. Checked'
  <2>1. ASSUME NEW w \in Reviewers, NEW f \in Prerequisite, Accepts(w, f)'
        PROVE  Apart(f)'
    <3>1. f \in Edges
      BY ConstantsAssumption
    <3>2. CASE w # v
      BY <1>3, <1>5, <2>1, <3>1, <3>2 DEF InSeries, Checked
    <3>3. CASE w = v
      <4>1. f = e /\ choice = "accepted"
        BY <1>6, <2>1, <3>1, <3>3
      <4>2. From[e] \notin Reach(Prerequisites, To[e])
        BY <4>1 DEF BeginDecision, ClosesCycle, Prerequisites
      <4>3. Known(e)' \in SUBSET Prerequisites /\ Prerequisites \in SUBSET Edges
        BY <1>2 DEF Known, Prerequisites, Accepted
      <4>4. Reach(Known(e)', To[e]) \subseteq Reach(Prerequisites, To[e])
        BY <4>3, ReachMonotone, ConstantsAssumption
      <4> QED
        BY <4>1, <4>2, <4>4, GraphRigid
    <3> QED
      BY <3>2, <3>3
  <2> QED
    BY <2>1 DEF Checked
<1>9. Beheld'
  <2>1. ASSUME NEW w \in Reviewers, NEW u \in Reviewers, NEW f \in Edges, NEW g \in Edges,
               w # u, Accepts(w, f)', Accepts(u, g)'
        PROVE  g \in overlapped'[f]
    <3>1. CASE w # v /\ u # v
      BY <1>1, <1>5, <2>1, <3>1 DEF InSeries, Beheld
    <3>2. CASE w = v \/ u = v
      BY <1>1, <1>5, <1>6, <1>7, <2>1, <3>2
    <3> QED
      BY <3>1, <3>2
  <2> QED
    BY <2>1 DEF Beheld
<1> QED
  BY <1>1, <1>3, <1>8, <1>9 DEF InSeries

LEMMA CommitInSeries ==
  ASSUME TypeOK, InSeries, NEW v \in Reviewers, CommitDecision(v)
  PROVE  InSeries'
<1> DEFINE e == reviewer[v].edge
<1>1. /\ reviewer[v] # Idle /\ e \in Edges
      /\ reviewer[v].choice \in {"accepted", "declined"}
  BY DEF CommitDecision, TypeOK, Decision
<1>2. status' = [status EXCEPT ![e] = reviewer[v].choice] /\ overlapped' = overlapped
  BY DEF CommitDecision, Observe
<1>3. reviewer'[v] = Idle /\ \A w \in Reviewers \ {v} : reviewer'[w] = reviewer[w]
  BY DEF CommitDecision, TypeOK
<1>4. CASE reviewer[v].choice = "accepted" /\ e \in Prerequisite
  <2>1. Accepts(v, e)
    BY <1>1, <1>4 DEF Accepts
  <2>2. Prerequisites' = Prerequisites \cup {e} /\ Prerequisites \in SUBSET Edges
    BY <1>1, <1>2, <1>4 DEF Prerequisites, Accepted, TypeOK
  <2>3. \A w \in Reviewers, f \in Edges : Accepts(w, f)' => w # v /\ Accepts(w, f)
    BY <1>3 DEF Accepts
  <2>4. Known(e) \in SUBSET Edges /\ From[e] \notin Reach(Known(e), To[e])
    BY <1>4, <2>1, <2>2 DEF InSeries, Checked, Apart, Known
  <2>5. CyclesNeedOverlap'
    <3>1. ASSUME NEW S \in SUBSET Prerequisites', \A f \in S : S \cap overlapped'[f] = {}
          PROVE  Acyclic(S)
      <4> DEFINE R == S \ {e}
      <4>1. R \in SUBSET Prerequisites /\ \A f \in R : R \cap overlapped[f] = {}
        BY <1>2, <2>2, <3>1
      <4>2. Acyclic(R)
        BY <4>1 DEF InSeries, CyclesNeedOverlap, SerialAcyclic, Serial, Prerequisites
      <4>3. CASE e \in S
        <5>1. R \in SUBSET Known(e)
          BY <1>2, <3>1, <4>1, <4>3 DEF Known
        <5>2. Reach(R, To[e]) \subseteq Reach(Known(e), To[e])
          BY <1>1, <2>4, <5>1, ReachMonotone, ConstantsAssumption
        <5>3. Acyclic(R \cup {e})
          BY <1>1, <2>2, <2>4, <4>1, <4>2, <5>2, AcyclicExtend
        <5> QED
          BY <4>3, <5>3
      <4>4. CASE e \notin S
        BY <4>2, <4>4
      <4> QED
        BY <4>3, <4>4
    <3> QED
      BY <3>1, GraphRigid
  <2>6. Checked'
    <3>1. ASSUME NEW w \in Reviewers, NEW f \in Prerequisite, Accepts(w, f)'
          PROVE  Apart(f)'
      <4>1. f \in Edges /\ w # v /\ Accepts(w, f)
        BY <2>3, <3>1, ConstantsAssumption
      <4>2. e \in overlapped[f]
        BY <1>1, <2>1, <4>1 DEF InSeries, Beheld
      <4>3. Known(f)' = Known(f)
        BY <1>2, <2>2, <4>2 DEF Known
      <4> QED
        BY <4>1, <4>3, GraphRigid DEF InSeries, Checked, Apart
    <3> QED
      BY <3>1 DEF Checked
  <2>7. Beheld' /\ Symmetric'
    BY <1>2, <2>3 DEF InSeries, Beheld, Symmetric
  <2> QED
    BY <2>5, <2>6, <2>7 DEF InSeries
<1>5. CASE reviewer[v].choice = "declined"
  <2>1. Accepted' \subseteq Accepted
    BY <1>1, <1>2, <1>5 DEF Accepted, TypeOK
  <2> QED
    BY <1>2, <1>3, <2>1, InSeriesKept
<1>6. CASE e \notin Prerequisite
  <2>1. Prerequisites' = Prerequisites
    BY <1>1, <1>2, <1>6 DEF Prerequisites, Accepted, TypeOK
  <2>2. \A w \in Reviewers, f \in Edges : Accepts(w, f)' => Accepts(w, f)
    BY <1>3 DEF Accepts
  <2>3. CyclesNeedOverlap'
    BY <1>2, <2>1, GraphRigid
       DEF InSeries, CyclesNeedOverlap, SerialAcyclic, Serial, Prerequisites
  <2>4. \A f : Known(f)' = Known(f)
    BY <1>2, <2>1 DEF Known
  <2>5. Checked'
    BY <2>2, <2>4, GraphRigid, ConstantsAssumption DEF InSeries, Checked, Apart
  <2> QED
    BY <1>2, <2>2, <2>3, <2>5 DEF InSeries, Beheld, Symmetric
<1> QED
  BY <1>1, <1>4, <1>5, <1>6

LEMMA InSeriesStep ==
  ASSUME TypeOK, InSeries, [Next]_vars
  PROVE  InSeries'
<1>1. ASSUME UNCHANGED <<status, reviewer, overlapped>>
      PROVE  InSeries'
  BY <1>1, InSeriesKept DEF Accepted
<1>2. ASSUME NEW e \in Edges, CreateEdgeProposal(e)
      PROVE  InSeries'
  <2>1. Accepted' = Accepted
    BY <1>2 DEF CreateEdgeProposal, Accepted, TypeOK
  <2>2. UNCHANGED <<reviewer, overlapped>>
    BY <1>2 DEF CreateEdgeProposal, Observe
  <2> QED
    BY <2>1, <2>2, InSeriesKept
<1>3. ASSUME NEW v \in Reviewers, AbortDecision(v)
      PROVE  InSeries'
  <2>1. \A w \in Reviewers : reviewer'[w] = Idle \/ reviewer'[w] = reviewer[w]
    BY <1>3 DEF AbortDecision, TypeOK
  <2> QED
    BY <1>3, <2>1, InSeriesKept DEF AbortDecision, Accepted, history
<1>4. ASSUME NEW v \in Reviewers, DecideEdgeProposal(v)
      PROVE  InSeries'
  BY <1>3, <1>4, BeginInSeries, CommitInSeries DEF DecideEdgeProposal
<1>5. ASSUME NEW p \in Publishers, ReleaseQuestionGraph(p)
      PROVE  InSeries'
  BY <1>1, <1>5, ReleaseTyped
<1>6. ASSUME \/ \E r \in Revisions : MoveQuestion(r)
             \/ \E q \in Questions : ArchiveQuestion(q)
             \/ \E r \in Releases : RollbackQuestionGraph(r)
      PROVE  InSeries'
  BY <1>1, <1>6 DEF MoveQuestion, ArchiveQuestion, RollbackQuestionGraph, Observe, history
<1>7. CASE UNCHANGED vars
  BY <1>1, <1>7 DEF vars, history
<1> QED
  BY <1>2, <1>4, <1>5, <1>6, <1>7 DEF Next

LEMMA EmptyAcyclic == Acyclic({})
<1>1. \A n \in Revisions : Reach({}, n) \subseteq {}
  BY ReachLeast
<1> QED
  BY <1>1 DEF Acyclic

LEMMA InSeriesInit == Init => InSeries
<1> SUFFICES ASSUME Init PROVE InSeries
  OBVIOUS
<1>1. Accepted = {}
  BY DEF Init, Accepted
<1>2. CyclesNeedOverlap
  BY <1>1, EmptyAcyclic DEF CyclesNeedOverlap, SerialAcyclic
<1> QED
  BY <1>2 DEF Init, InSeries, Checked, Beheld, Symmetric, Accepts

(* However many reviewers decide at once, every cycle of accepted          *)
(* prerequisites, of any length, has two in it whose decisions were open   *)
(* at once: the check of DecideEdgeProposal misses nothing else.           *)
THEOREM CyclesHold == Spec => []CyclesNeedOverlap
<1>1. InSeries => CyclesNeedOverlap
  BY DEF InSeries
<1>2. TypeOK /\ InSeries /\ [Next]_vars => InSeries'
  BY InSeriesStep
<1> QED
  BY <1>1, <1>2, InSeriesInit, TypesHold, PTL DEF Spec

-----------------------------------------------------------------------------
(* Neither is any other cycle released.  A release is a set that was       *)
(* accepted at one moment (ReleasedTogether), and overlaps are remembered. *)

ObservedSerial == \A A \in sound : SerialAcyclic(A)

LEMMA SerialKept ==
  ASSUME TypeOK, NEW A \in Releases, SerialAcyclic(A),
         \A f \in Edges : overlapped[f] \subseteq overlapped'[f]
  PROVE  SerialAcyclic(A)'
<1>1. ASSUME NEW S \in SUBSET (A \cap Prerequisite), \A e \in S : S \cap overlapped'[e] = {}
      PROVE  Acyclic(S)
  <2>1. S \subseteq Edges
    BY DEF Releases
  <2>2. Serial(S)
    BY <1>1, <2>1 DEF Serial
  <2> QED
    BY <2>2 DEF SerialAcyclic
<1> QED
  BY <1>1 DEF SerialAcyclic, Serial, Acyclic, Reach, ClosedUnder

LEMMA ObservedStep ==
  ASSUME TypeOK, InSeries, ObservedSerial, InSeries', [Next]_vars
  PROVE  ObservedSerial'
<1>1. sound' = sound \/ sound' \subseteq sound \cup {Accepted'}
  <2>1. ASSUME NEW p \in Publishers, ReleaseQuestionGraph(p)
        PROVE  sound' = sound
    BY <2>1, ReleaseTyped
  <2>2. ASSUME NEW v \in Reviewers, DecideEdgeProposal(v)
        PROVE  sound' = sound \/ Observe
    BY <2>2 DEF DecideEdgeProposal, BeginDecision, CommitDecision, AbortDecision, history
  <2>3. Observe => sound' \subseteq sound \cup {Accepted'}
    BY DEF Observe
  <2> QED
    BY <2>1, <2>2, <2>3 DEF Next, vars, history, MoveQuestion, ArchiveQuestion,
                            CreateEdgeProposal, RollbackQuestionGraph
<1>2. \A f \in Edges : overlapped[f] \subseteq overlapped'[f]
  <2>1. ASSUME NEW v \in Reviewers, DecideEdgeProposal(v)
        PROVE  overlapped' = overlapped \/ \A f \in Edges : overlapped[f] \subseteq overlapped'[f]
    BY <2>1, OverlapsGrow
       DEF InSeries, DecideEdgeProposal, CommitDecision, AbortDecision, Observe, history
  <2>2. ASSUME NEW p \in Publishers, ReleaseQuestionGraph(p)
        PROVE  overlapped' = overlapped
    BY <2>2, ReleaseTyped
  <2> QED
    BY <2>1, <2>2 DEF Next, vars, history, MoveQuestion, ArchiveQuestion,
                      CreateEdgeProposal, RollbackQuestionGraph, Observe
<1>3. CyclesNeedOverlap'
  BY DEF InSeries
<1>4. ASSUME NEW A \in sound
      PROVE  SerialAcyclic(A)'
  BY <1>2, <1>4, SerialKept DEF ObservedSerial, TypeOK
<1> QED
  BY <1>1, <1>3, <1>4 DEF ObservedSerial, CyclesNeedOverlap

LEMMA ObservedInit == Init => ObservedSerial
<1> SUFFICES ASSUME Init PROVE ObservedSerial
  OBVIOUS
<1>1. \A A \in sound : A = {}
  BY DEF Init
<1> QED
  BY <1>1, EmptyAcyclic DEF ObservedSerial, SerialAcyclic

(* "So a concurrent cycle cannot be released", says ReleaseQuestionGraph.  *)
(* A cycle can; but never one that holds no two proposals whose decisions  *)
(* were open at once.                                                      *)
THEOREM ReleasedCyclesHold == Spec => []ReleasedCyclesNeedOverlap
<1>1. TypeOK /\ InSeries /\ [Next]_vars => InSeries'
  BY InSeriesStep
<1>2. TypeOK /\ InSeries /\ ObservedSerial /\ InSeries' /\ [Next]_vars => ObservedSerial'
  BY ObservedStep
<1>3. ReleasedTogether /\ ObservedSerial => ReleasedCyclesNeedOverlap
  BY DEF ReleasedTogether, ObservedSerial, ReleasedCyclesNeedOverlap
<1> QED
  BY <1>1, <1>2, <1>3, InSeriesInit, ObservedInit, TypesHold, TogetherHolds, PTL DEF Spec
=============================================================================

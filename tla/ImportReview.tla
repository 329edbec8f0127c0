---------------------------- MODULE ImportReview ----------------------------
(***************************************************************************)
(* The review of imported cards in internal/store/import_review.go and the *)
(* two callers that wrap it around the canonical writer: UpsertCard of     *)
(* qb-import and PublishImportedCard of qb-release.  Staging a card is a   *)
(* series of statements, each committed on its own, and a reviewer's       *)
(* decision is a transaction that locks the candidate it is about and then *)
(* derives the status of the stage from all its candidates; that statement *)
(* reads what is committed when it starts and writes later.                *)
(*                                                                         *)
(* A card is a source_ref with a content hash and stands for the revision  *)
(* it becomes.  Which cards resemble each other, and whether the database  *)
(* or only the embedding model can tell, is a constant; the limit on       *)
(* candidates is not reached.  upsertCard is one step here, CanonicalWriter*)
(* has its statements.                                                     *)
(***************************************************************************)
EXTENDS Naturals

CONSTANTS
    Cards,          \* cards anybody may import
    Questions,      \* stable keys
    QuestionOf,     \* the question of each card
    NoCard,         \* a null current_revision_id
    Exact,          \* pairs with equal payloads
    Lexical,        \* pairs with similar prompts
    Semantic,       \* pairs with near embeddings
    Importers,      \* qb-import and qb-release processes
    Reviewers       \* requests that decide on a candidate

ASSUME ConstantsAssumption ==
    /\ QuestionOf \in [Cards -> Questions]
    /\ NoCard \notin Cards
    /\ Exact \cup Lexical \cup Semantic \subseteq Cards \X Cards

StageStatus == {"none", "staged", "cleared", "blocked", "published"}
Decisions == {"none", "open", "separate", "merge"}
Steps == {"hashed", "text", "textFound", "allFound", "computed", "staged", "ready",
          "stored", "proposed"}

VARIABLES
    stage,      \* import_review_stage.status, "none" for no row
    decision,   \* import_review_candidate.decision, "none" for no row
    revs,       \* the cards that are a question_revision
    current,    \* content.question.current_revision_id
    visible,    \* the published questions
    edges,      \* content.question_edge_proposal rows
    importer,   \* what each process is doing
    reviewer,   \* the open decision transaction of each request
    checked,    \* history: cards whose candidates were all looked for
    reviewed,   \* history: cards a derivation found without open or merge
    released,   \* history: cards that PublishImportedCard published
    crossed     \* history: cards with two derivations of a status at once

canonical == <<revs, current, visible, released>>
review == <<stage, decision, edges, checked, reviewed, crossed>>
vars == <<review, canonical, importer, reviewer>>

Idle == [step |-> "idle"]
Run == [step : Steps, card : Cards, release : BOOLEAN, known : BOOLEAN,
        todo : SUBSET Cards, outcome : {"cleared", "blocked"}, clear : BOOLEAN]
Decision == [step : {"computed"}, card : Cards, related : Cards,
             choice : {"separate", "merge"}, outcome : {"cleared", "blocked"},
             clear : BOOLEAN]

Q(c) == QuestionOf[c]
At(p, step) == importer[p].step = step
Card(p) == importer[p].card
Goto(p, step) == importer' = [importer EXCEPT ![p].step = step]
End(p) == importer' = [importer EXCEPT ![p] = Idle]

(* Faulty: a merge is a decision like any other.                           *)
MergedStatusOf(f) == IF \E d \in Cards : f[d] = "open" THEN "blocked" ELSE "cleared"
(* The status that the decisions on the candidates of a stage amount to.   *)
StatusOf(f) == IF \E d \in Cards : f[d] \in {"open", "merge"} THEN "blocked"
               ELSE "cleared"
Resolved(f) == \A d \in Cards : f[d] \in {"none", "separate"}

-----------------------------------------------------------------------------
(* StageImportCard.                                                        *)

(* The hash of the current revision is read on its own.                    *)
StartImport(p, c, release) ==
    /\ importer[p] = Idle
    /\ importer' = [importer EXCEPT ![p] =
          [step |-> "hashed", card |-> c, release |-> release, todo |-> {},
           known |-> current[Q(c)] = c, outcome |-> "blocked", clear |-> FALSE]]
    /\ UNCHANGED <<review, canonical, reviewer>>

(* A stage of the current revision that was settled is left alone.         *)
Settled(p) ==
    importer[p].known /\ stage[Card(p)] \in {"cleared", "published", "blocked"}

OpenStage(p) ==
    /\ At(p, "hashed")
    /\ IF Settled(p)
       THEN Goto(p, "staged") /\ UNCHANGED stage
       ELSE /\ Goto(p, "text")
            /\ stage' = [stage EXCEPT ![Card(p)] = IF @ = "none" THEN "staged" ELSE @]
    /\ UNCHANGED <<decision, edges, checked, reviewed, crossed, canonical, reviewer>>

(* Faulty: a card is compared with its own question.                       *)
PublishedAnywhere(c) == {d \in Cards : Q(d) \in visible /\ current[Q(d)] = d}
(* The revisions learners see now, other questions' only.                  *)
Published(c) == {d \in Cards : Q(d) # Q(c) /\ Q(d) \in visible /\ current[Q(d)] = d}
Candidates(c, pairs) == {d \in Published(c) : <<c, d>> \in pairs}

FindTextCandidates(p) ==
    /\ At(p, "text")
    /\ importer' = [importer EXCEPT ![p].step = "textFound",
                                    ![p].todo = Candidates(Card(p), Exact \cup Lexical)]
    /\ UNCHANGED <<review, canonical, reviewer>>

(* A pair that is a candidate already is not looked at again.              *)
FindSemanticCandidates(p) ==
    /\ At(p, "textFound") /\ importer[p].todo = {}
    /\ importer' = [importer EXCEPT
          ![p].step = "allFound",
          ![p].todo = {d \in Candidates(Card(p), Semantic) :
                          decision[Card(p)][d] = "none"}]
    /\ UNCHANGED <<review, canonical, reviewer>>

(* The insert keeps the decision of a known candidate.                     *)
DecisionAfterInsert(old) == IF old = "none" THEN "open" ELSE old

Held(c, d) == \E r \in Reviewers : /\ reviewer[r] # Idle
                                   /\ reviewer[r].card = c /\ reviewer[r].related = d

InsertImportCandidate(p, d) ==
    /\ importer[p].step \in {"textFound", "allFound"} /\ d \in importer[p].todo
    /\ ~Held(Card(p), d)
    /\ decision' = [decision EXCEPT ![Card(p)][d] = DecisionAfterInsert(@)]
    /\ importer' = [importer EXCEPT ![p].todo = @ \ {d}]
    /\ UNCHANGED <<stage, edges, checked, reviewed, crossed, canonical, reviewer>>

(* A status was derived for this card and is not written yet.              *)
Deriving(c) == \/ \E p \in Importers : At(p, "computed") /\ Card(p) = c
               \/ \E r \in Reviewers : reviewer[r] # Idle /\ reviewer[r].card = c
Cross(c) == crossed' = IF Deriving(c) THEN crossed \cup {c} ELSE crossed

(* refreshImportStageStatus: what it reads, and what it writes later.      *)
ComputeStageStatus(p) ==
    /\ At(p, "allFound") /\ importer[p].todo = {}
    /\ importer' = [importer EXCEPT ![p].step = "computed",
                                    ![p].outcome = StatusOf(decision[Card(p)]),
                                    ![p].clear = Resolved(decision[Card(p)])]
    /\ checked' = checked \cup {Card(p)}
    /\ Cross(Card(p))
    /\ UNCHANGED <<stage, decision, edges, reviewed, canonical, reviewer>>

Derived(c, clear) == reviewed' = IF clear THEN reviewed \cup {c} ELSE reviewed

RefreshStageStatus(p) ==
    /\ At(p, "computed")
    /\ IF stage[Card(p)] # "published"
       THEN /\ stage' = [stage EXCEPT ![Card(p)] = importer[p].outcome]
            /\ Derived(Card(p), importer[p].clear)
       ELSE UNCHANGED <<stage, reviewed>>
    /\ Goto(p, "staged")
    /\ UNCHANGED <<decision, edges, checked, crossed, canonical, reviewer>>

-----------------------------------------------------------------------------
(* Publication.                                                            *)

ReviewReady(c) == \/ stage[c] \in {"cleared", "published"}
                  \/ stage[c] = "none" /\ current[Q(c)] = c

AssertImportReviewReady(p) ==
    /\ At(p, "staged") /\ importer[p].release
    /\ IF ReviewReady(Card(p)) THEN Goto(p, "ready") ELSE End(p)
    /\ UNCHANGED <<review, canonical, reviewer>>

(* A plain import stores the revision whatever the review says.            *)
StoreRevision(p) ==
    LET c == Card(p)
        release == importer[p].release
    IN  /\ At(p, "ready") \/ (At(p, "staged") /\ ~release)
        /\ revs' = revs \cup {c}
        /\ current' = [current EXCEPT ![Q(c)] = c]
        /\ visible' = IF release THEN visible \cup {Q(c)} ELSE visible
        /\ released' = IF release THEN released \cup {c} ELSE released
        /\ IF c \notin revs THEN Goto(p, "stored")
           ELSE IF release THEN Goto(p, "proposed") ELSE End(p)
        /\ UNCHANGED <<review, reviewer>>

MaterializeEdgeProposals(p) ==
    LET c == Card(p) IN
    /\ At(p, "stored")
    /\ edges' = edges \cup {<<c, d>> : d \in {x \in Cards :
                    decision[c][x] # "none" /\ <<c, x>> \notin Exact}}
    /\ IF importer[p].release THEN Goto(p, "proposed") ELSE End(p)
    /\ UNCHANGED <<stage, decision, checked, reviewed, crossed, canonical, reviewer>>

(* Whatever became of the stage since it was found ready.                  *)
MarkImportStagePublished(p) ==
    /\ At(p, "proposed")
    /\ stage' = [stage EXCEPT ![Card(p)] = "published"]
    /\ End(p)
    /\ UNCHANGED <<decision, edges, checked, reviewed, crossed, canonical, reviewer>>

(* A statement fails, the embedding provider does, or the process ends.    *)
AbandonImport(p) ==
    /\ importer[p] # Idle
    /\ End(p)
    /\ UNCHANGED <<review, canonical, reviewer>>

-----------------------------------------------------------------------------
(* DecideImportReviewCandidate, up to the read of all decisions.  Any      *)
(* candidate may be decided again.                                         *)
BeginDecision(r, c, d, choice) ==
    /\ reviewer[r] = Idle
    /\ decision[c][d] # "none" /\ ~Held(c, d)
    /\ LET own == [decision[c] EXCEPT ![d] = choice]
       IN  reviewer' = [reviewer EXCEPT ![r] =
              [step |-> "computed", card |-> c, related |-> d, choice |-> choice,
               outcome |-> StatusOf(own), clear |-> Resolved(own)]]
    /\ Cross(c)
    /\ UNCHANGED <<stage, decision, edges, checked, reviewed, canonical, importer>>

CommitDecision(r) ==
    LET t == reviewer[r] IN
    /\ t # Idle
    /\ decision' = [decision EXCEPT ![t.card][t.related] = t.choice]
    /\ stage' = [stage EXCEPT ![t.card] = t.outcome]
    /\ Derived(t.card, t.clear)
    /\ reviewer' = [reviewer EXCEPT ![r] = Idle]
    /\ UNCHANGED <<edges, checked, crossed, canonical, importer>>

AbortDecision(r) ==
    /\ reviewer[r] # Idle
    /\ reviewer' = [reviewer EXCEPT ![r] = Idle]
    /\ UNCHANGED <<review, canonical, importer>>

(* RollbackQuestion makes any revision current and visible.                *)
RollbackQuestion(c) ==
    /\ c \in revs
    /\ current' = [current EXCEPT ![Q(c)] = c]
    /\ visible' = visible \cup {Q(c)}
    /\ UNCHANGED <<revs, released, review, importer, reviewer>>

-----------------------------------------------------------------------------
(* Questions may be older than the review tables: they have a revision and *)
(* no stage.                                                               *)
Init ==
    /\ stage = [c \in Cards |-> "none"]
    /\ decision = [c \in Cards |-> [d \in Cards |-> "none"]]
    /\ current \in {f \in [Questions -> Cards \cup {NoCard}] :
                       \A q \in Questions : f[q] # NoCard => Q(f[q]) = q}
    /\ revs = {c \in Cards : current[Q(c)] = c}
    /\ visible \in SUBSET {Q(c) : c \in revs}
    /\ edges = {}
    /\ importer = [p \in Importers |-> Idle]
    /\ reviewer = [r \in Reviewers |-> Idle]
    /\ checked = {} /\ reviewed = {} /\ released = {} /\ crossed = {}

StageImportCard(p) ==
    \/ OpenStage(p)
    \/ FindTextCandidates(p)
    \/ FindSemanticCandidates(p)
    \/ \E d \in Cards : InsertImportCandidate(p, d)
    \/ ComputeStageStatus(p)
    \/ RefreshStageStatus(p)

PublishCard(p) ==
    \/ AssertImportReviewReady(p)
    \/ StoreRevision(p)
    \/ MaterializeEdgeProposals(p)
    \/ MarkImportStagePublished(p)

Next ==
    \/ \E p \in Importers :
          \/ \E c \in Cards, release \in BOOLEAN : StartImport(p, c, release)
          \/ StageImportCard(p)
          \/ PublishCard(p)
          \/ AbandonImport(p)
    \/ \E r \in Reviewers :
          \/ \E c, d \in Cards, choice \in {"separate", "merge"} :
                BeginDecision(r, c, d, choice)
          \/ CommitDecision(r)
          \/ AbortDecision(r)
    \/ \E c \in Cards : RollbackQuestion(c)

Spec == Init /\ [][Next]_vars

-----------------------------------------------------------------------------
TypeOK ==
    /\ stage \in [Cards -> StageStatus]
    /\ decision \in [Cards -> [Cards -> Decisions]]
    /\ \A c, d \in Cards : decision[c][d] # "none" =>
          stage[c] # "none" /\ Q(c) # Q(d) /\ d \in revs
    /\ revs \subseteq Cards
    /\ current \in [Questions -> revs \cup {NoCard}]
    /\ visible \subseteq Questions
    /\ edges \subseteq revs \X revs
    /\ importer \in [Importers -> Run \cup {Idle}]
    /\ reviewer \in [Reviewers -> Decision \cup {Idle}]
    /\ checked \subseteq Cards /\ reviewed \subseteq Cards /\ crossed \subseteq Cards
    /\ released \subseteq revs

(* No card is released, and no stage is marked published, before one       *)
(* derivation of its status found no candidate of it open and none to be   *)
(* merged: neither an import that failed half-way nor a blocked review nor *)
(* a missing stage lets a card through.                                    *)
ReleaseBackedByReview ==
    \A c \in Cards : (c \in released \/ stage[c] = "published") => c \in reviewed

(* A stage tells what its decisions amount to: a merge keeps it from being *)
(* cleared, and it is blocked only by a candidate that is open or to be    *)
(* merged.  Imports insert candidates and reviewers change their minds in  *)
(* any order; only a derivation that crossed another one may be wrong, for *)
(* a decision locks a candidate and not the stage, and an import neither.  *)
StageTellsDecisions ==
    \A c \in Cards \ crossed :
        /\ stage[c] = "cleared" => \A d \in Cards : decision[c][d] # "merge"
        /\ stage[c] = "blocked" => StatusOf(decision[c]) = "blocked"

(* A pair that an editor has resolved is never open again, however often   *)
(* the card is imported and whoever imports it at the same time.           *)
ResolvedStaysResolved ==
    [][\A c, d \in Cards : decision[c][d] \in {"separate", "merge"}
                           => decision'[c][d] \in {"separate", "merge"}]_vars

-----------------------------------------------------------------------------
(* Statements of the repository's documents that the code does not keep;   *)
(* the README has their traces.                                            *)

(* A stage with an open or a merge candidate is never published.           *)
PublishedStageResolved ==
    \A c \in Cards : stage[c] = "published" => StatusOf(decision[c]) = "cleared"

(* A failed candidate provider cannot turn into an unchecked publication.  *)
UncheckedNeverReleased == released \subseteq checked

(* A merge decision keeps the stage from being cleared.                    *)
MergeNeverCleared ==
    \A c \in Cards : (\E d \in Cards : decision[c][d] = "merge")
                     => stage[c] # "cleared"

(* Once every candidate is resolved and nobody is at work, the stage is    *)
(* not blocked.                                                            *)
Quiet == /\ \A p \in Importers : importer[p] = Idle
         /\ \A r \in Reviewers : reviewer[r] = Idle
ResolvedStageUnblocked ==
    Quiet => \A c \in Cards : stage[c] = "blocked" => StatusOf(decision[c]) = "blocked"

(* The neighbours found for a released card are proposed to the graph.     *)
NeighboursProposed ==
    Quiet => \A c, d \in Cards :
                /\ stage[c] = "published"
                /\ decision[c][d] # "none" /\ <<c, d>> \notin Exact
                => <<c, d>> \in edges
=============================================================================

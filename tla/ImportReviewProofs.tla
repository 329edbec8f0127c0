-------------------------- MODULE ImportReviewProofs --------------------------
(***************************************************************************)
(* Proofs about ImportReview, for any cards, importers and reviewers.  A   *)
(* ready status is only ever written by a derivation that saw no open and  *)
(* no merge candidate, or by a release that had found one before; and a    *)
(* process that is past OpenStage has a stage row, so the way around the   *)
(* stage in AssertImportReviewReady is never taken.                        *)
(***************************************************************************)
EXTENDS ImportReview, TLAPS

Begun == {"text", "textFound", "allFound", "computed", "staged"}

(* What a process knows of the card it is working on.                      *)
ImporterSound(p) ==
    LET s == importer[p] IN
    s # Idle =>
        /\ s.step \in Begun => stage[s.card] # "none"
        /\ s.step \in {"ready", "proposed"} => s.card \in reviewed
        /\ s.step = "stored" /\ s.release => s.card \in reviewed
        /\ s.step = "computed" /\ s.outcome = "cleared" => s.clear

DecisionSound(r) ==
    reviewer[r] # Idle /\ reviewer[r].outcome = "cleared" => reviewer[r].clear

Typed ==
    /\ stage \in [Cards -> StageStatus]
    /\ decision \in [Cards -> [Cards -> Decisions]]
    /\ importer \in [Importers -> Run \cup {Idle}]
    /\ reviewer \in [Reviewers -> Decision \cup {Idle}]

(* What makes ReleaseBackedByReview inductive.                             *)
Sound ==
    /\ \A c \in Cards : stage[c] \in {"cleared", "published"} => c \in reviewed
    /\ released \subseteq reviewed
    /\ \A p \in Importers : ImporterSound(p)
    /\ \A r \in Reviewers : DecisionSound(r)

-----------------------------------------------------------------------------
(* A stage is only cleared by decisions none of which is open or a merge.  *)
LEMMA StatusIsSound ==
  ASSUME NEW f \in [Cards -> Decisions]
  PROVE  /\ StatusOf(f) \in {"cleared", "blocked"}
         /\ Resolved(f) \in BOOLEAN
         /\ StatusOf(f) = "cleared" => Resolved(f)
  BY DEF StatusOf, Resolved, Decisions

LEMMA ImporterHas ==
  ASSUME Typed, NEW p \in Importers, importer[p] # Idle
  PROVE  /\ importer[p] \in Run /\ Card(p) \in Cards
         /\ importer[p].release \in BOOLEAN /\ importer[p].step \in Steps
  BY DEF Typed, Run, Card

(* The step field of a process that is at work, and of no other, is a step.*)
LEMMA AtWork ==
  ASSUME NEW p \in Importers, importer[p].step # "idle"
  PROVE  importer[p] # Idle
  BY DEF Idle

(* Moving to another step, or ending, keeps the record of a process typed. *)
LEMMA GotoTyped ==
  ASSUME Typed, NEW p \in Importers, importer[p] # Idle, NEW step \in Steps,
         Goto(p, step)
  PROVE  /\ importer' \in [Importers -> Run \cup {Idle}]
         /\ importer'[p].step = step /\ importer'[p].card = importer[p].card
         /\ importer'[p].release = importer[p].release /\ importer'[p] # Idle
         /\ \A o \in Importers \ {p} : importer'[o] = importer[o]
<1>1. importer[p] \in Run
  BY ImporterHas
<1>2. [importer[p] EXCEPT !.step = step] \in Run
  BY <1>1 DEF Run
<1>3. importer' = [importer EXCEPT ![p] = [importer[p] EXCEPT !.step = step]]
  BY DEF Goto
<1>4. importer'[p] = [importer[p] EXCEPT !.step = step]
  BY <1>3 DEF Typed
<1>5. step # "idle"
  BY DEF Steps
<1> QED
  BY <1>1, <1>2, <1>3, <1>4, <1>5 DEF Typed, Run, Idle

LEMMA EndTyped ==
  ASSUME Typed, NEW p \in Importers, End(p)
  PROVE  /\ importer' \in [Importers -> Run \cup {Idle}] /\ importer'[p] = Idle
         /\ \A o \in Importers \ {p} : importer'[o] = importer[o]
  BY DEF Typed, End

(* A step of one process that keeps what the others know.                  *)
LEMMA ImporterStep ==
  ASSUME Sound, NEW p \in Importers, UNCHANGED reviewer,
         \A o \in Importers \ {p} : importer'[o] = importer[o],
         \A c \in Cards : stage[c] # "none" => stage'[c] # "none",
         \A o \in Importers : importer[o] # Idle => importer[o].card \in Cards,
         reviewed \subseteq reviewed', ImporterSound(p)',
         released' \subseteq reviewed',
         \A c \in Cards : stage'[c] \in {"cleared", "published"} => c \in reviewed'
  PROVE  Sound'
<1>1. \A o \in Importers : ImporterSound(o)'
  BY DEF Sound, ImporterSound
<1>2. \A r \in Reviewers : DecisionSound(r)'
  BY DEF Sound, DecisionSound
<1> QED
  BY <1>1, <1>2 DEF Sound

LEMMA CardsKnown ==
  ASSUME Typed
  PROVE  \A o \in Importers : importer[o] # Idle => importer[o].card \in Cards
  BY ImporterHas DEF Card

-----------------------------------------------------------------------------
(* The importers.                                                          *)
LEMMA StartSound ==
  ASSUME Typed, Sound, NEW p \in Importers, NEW c \in Cards, NEW release \in BOOLEAN,
         StartImport(p, c, release)
  PROVE  Typed' /\ Sound'
<1> DEFINE known == current[Q(c)] = c
           run == [step |-> "hashed", card |-> c, release |-> release, todo |-> {},
                   known |-> known, outcome |-> "blocked", clear |-> FALSE]
<1>1. UNCHANGED <<stage, decision, reviewer, reviewed, released>>
  BY DEF StartImport, review, canonical
<1>2. importer' = [importer EXCEPT ![p] = run]
  BY DEF StartImport
<1>3. known \in BOOLEAN
  OBVIOUS
<1> HIDE DEF known
<1>4. run \in Run /\ run.step = "hashed"
  BY <1>3 DEF Run, Steps
<1> HIDE DEF run
<1>5. /\ importer' \in [Importers -> Run \cup {Idle}] /\ importer'[p] = run
      /\ \A o \in Importers \ {p} : importer'[o] = importer[o]
  BY <1>2, <1>4 DEF Typed
<1>6. ImporterSound(p)'
  BY <1>4, <1>5 DEF ImporterSound, Begun
<1> QED
  BY <1>1, <1>5, <1>6, CardsKnown, ImporterStep DEF Typed, Sound

LEMMA OpenSound ==
  ASSUME Typed, Sound, NEW p \in Importers, OpenStage(p)
  PROVE  Typed' /\ Sound'
<1>1. importer[p] # Idle /\ Card(p) \in Cards
  BY AtWork, ImporterHas DEF OpenStage, At
<1>2. UNCHANGED <<decision, reviewer, reviewed, released>>
  BY DEF OpenStage, canonical
<1>3. CASE Settled(p)
  <2>1. Goto(p, "staged") /\ stage' = stage
    BY <1>3 DEF OpenStage
  <2>2. /\ importer' \in [Importers -> Run \cup {Idle}]
        /\ importer'[p].step = "staged" /\ importer'[p].card = Card(p)
        /\ \A o \in Importers \ {p} : importer'[o] = importer[o]
    BY <1>1, <2>1, GotoTyped DEF Steps, Card
  <2>3. ImporterSound(p)'
    BY <1>3, <2>1, <2>2 DEF ImporterSound, Settled, Begun
  <2> QED
    BY <1>2, <2>1, <2>2, <2>3, CardsKnown, ImporterStep DEF Typed, Sound
<1>4. CASE ~Settled(p)
  <2>1. /\ Goto(p, "text")
        /\ stage' = [stage EXCEPT ![Card(p)] = IF @ = "none" THEN "staged" ELSE @]
    BY <1>4 DEF OpenStage
  <2>2. /\ importer' \in [Importers -> Run \cup {Idle}]
        /\ importer'[p].step = "text" /\ importer'[p].card = Card(p)
        /\ \A o \in Importers \ {p} : importer'[o] = importer[o]
    BY <1>1, <2>1, GotoTyped DEF Steps, Card
  <2>3. /\ stage' \in [Cards -> StageStatus] /\ stage'[Card(p)] # "none"
        /\ \A c \in Cards : stage'[c] # stage[c] => stage'[c] = "staged"
    BY <1>1, <2>1 DEF Typed, StageStatus
  <2>4. ImporterSound(p)'
    BY <2>2, <2>3 DEF ImporterSound, Begun
  <2>5. /\ \A c \in Cards : stage[c] # "none" => stage'[c] # "none"
        /\ \A c \in Cards : stage'[c] \in {"cleared", "published"} => c \in reviewed'
    BY <1>2, <2>3 DEF Sound
  <2> QED
    BY <1>2, <2>2, <2>3, <2>4, <2>5, CardsKnown, ImporterStep DEF Typed, Sound
<1> QED
  BY <1>3, <1>4

(* The steps of StageImportCard that only look for candidates.             *)
LEMMA SearchSound ==
  ASSUME Typed, Sound, NEW p \in Importers,
         \/ FindTextCandidates(p) \/ FindSemanticCandidates(p)
         \/ \E d \in Cards : InsertImportCandidate(p, d)
  PROVE  Typed' /\ Sound'
<1>1. UNCHANGED <<stage, reviewer, reviewed, released>>
  BY DEF FindTextCandidates, FindSemanticCandidates, InsertImportCandidate, review,
         canonical
<1>2. importer[p].step \in {"text", "textFound", "allFound"} /\ importer[p] # Idle
  BY DEF FindTextCandidates, FindSemanticCandidates, InsertImportCandidate, At, Idle
<1>3. importer[p] \in Run /\ Card(p) \in Cards
  BY <1>2, ImporterHas
<1>4. PICK step \in {"textFound", "allFound"} : \E todo \in SUBSET Cards :
          importer' = [importer EXCEPT ![p].step = step, ![p].todo = todo]
  <2>1. CASE FindTextCandidates(p)
    <3>1. Candidates(Card(p), Exact \cup Lexical) \in SUBSET Cards
      BY DEF Candidates, Published
    <3> QED
      BY <2>1, <3>1 DEF FindTextCandidates
  <2>2. CASE FindSemanticCandidates(p)
    <3> DEFINE found == {d \in Candidates(Card(p), Semantic) :
                            decision[Card(p)][d] = "none"}
    <3>1. found \in SUBSET Cards
      BY DEF Candidates, Published
    <3>2. importer' = [importer EXCEPT ![p].step = "allFound", ![p].todo = found]
      BY <2>2 DEF FindSemanticCandidates
    <3> QED
      BY <3>1, <3>2
  <2>3. CASE \E d \in Cards : InsertImportCandidate(p, d)
    <3>1. PICK d \in Cards : InsertImportCandidate(p, d)
      BY <2>3
    <3>2. importer[p].step \in {"textFound", "allFound"}
      BY <3>1 DEF InsertImportCandidate
    <3>3. importer[p].todo \ {d} \in SUBSET Cards
      BY <1>3 DEF Run
    <3>4. importer' = [importer EXCEPT ![p].step = importer[p].step,
                                       ![p].todo = importer[p].todo \ {d}]
      BY <1>3, <3>1 DEF InsertImportCandidate, Run, Typed
    <3> QED
      BY <3>2, <3>3, <3>4
  <2> QED
    BY <2>1, <2>2, <2>3
<1>5. /\ importer' \in [Importers -> Run \cup {Idle}]
      /\ importer'[p].step = step /\ importer'[p].card = Card(p)
      /\ \A o \in Importers \ {p} : importer'[o] = importer[o]
  <2>1. PICK todo \in SUBSET Cards :
            importer' = [importer EXCEPT ![p].step = step, ![p].todo = todo]
    BY <1>4
  <2> QED
    BY <1>3, <2>1 DEF Typed, Run, Steps, Card
<1>6. decision' \in [Cards -> [Cards -> Decisions]]
  BY <1>3 DEF FindTextCandidates, FindSemanticCandidates, InsertImportCandidate,
              DecisionAfterInsert, Decisions, Typed, review
<1>7. ImporterSound(p)'
  BY <1>1, <1>2, <1>3, <1>5 DEF Sound, ImporterSound, Begun, Card
<1> QED
  BY <1>1, <1>5, <1>6, <1>7, CardsKnown, ImporterStep DEF Typed, Sound

LEMMA ComputeSound ==
  ASSUME Typed, Sound, NEW p \in Importers, ComputeStageStatus(p)
  PROVE  Typed' /\ Sound'
<1> DEFINE f == decision[Card(p)]
<1>1. UNCHANGED <<stage, decision, reviewer, reviewed, released>>
  BY DEF ComputeStageStatus, canonical
<1>2. importer[p] \in Run /\ Card(p) \in Cards /\ importer[p] # Idle
  BY AtWork, ImporterHas DEF ComputeStageStatus, At
<1>3. f \in [Cards -> Decisions]
  BY <1>2 DEF Typed
<1>4. importer' = [importer EXCEPT ![p].step = "computed", ![p].outcome = StatusOf(f),
                                   ![p].clear = Resolved(f)]
  BY DEF ComputeStageStatus
<1> HIDE DEF f
<1> DEFINE status == StatusOf(f)
           clear == Resolved(f)
<1>5. /\ status \in {"cleared", "blocked"} /\ clear \in BOOLEAN
      /\ status = "cleared" => clear
  BY <1>3, StatusIsSound
<1> HIDE DEF status, clear
<1>6. importer' = [importer EXCEPT ![p].step = "computed", ![p].outcome = status,
                                   ![p].clear = clear]
  BY <1>4 DEF status, clear
<1>7. /\ importer' \in [Importers -> Run \cup {Idle}]
      /\ importer'[p].step = "computed" /\ importer'[p].card = Card(p)
      /\ importer'[p].outcome = status /\ importer'[p].clear = clear
      /\ \A o \in Importers \ {p} : importer'[o] = importer[o]
  BY <1>2, <1>5, <1>6 DEF Typed, Run, Steps, Card
<1>8. stage[Card(p)] # "none"
  BY <1>2 DEF Sound, ImporterSound, ComputeStageStatus, At, Begun, Card
<1>9. ImporterSound(p)'
  BY <1>1, <1>5, <1>7, <1>8 DEF ImporterSound, Begun
<1> QED
  BY <1>1, <1>7, <1>9, CardsKnown, ImporterStep DEF Typed, Sound

LEMMA RefreshSound ==
  ASSUME Typed, Sound, NEW p \in Importers, RefreshStageStatus(p)
  PROVE  Typed' /\ Sound'
<1> DEFINE c == Card(p)
<1>1. UNCHANGED <<decision, reviewer, released>> /\ reviewed \subseteq reviewed'
  BY DEF RefreshStageStatus, canonical, Derived
<1>2. importer[p] \in Run /\ c \in Cards /\ importer[p] # Idle
  BY AtWork, ImporterHas DEF RefreshStageStatus, At
<1>3. /\ stage[c] # "none"
      /\ importer[p].outcome \in {"cleared", "blocked"}
      /\ importer[p].outcome = "cleared" => importer[p].clear
  BY <1>2 DEF Sound, ImporterSound, RefreshStageStatus, At, Begun, Card, Run
<1>4. /\ importer' \in [Importers -> Run \cup {Idle}]
      /\ importer'[p].step = "staged" /\ importer'[p].card = c
      /\ \A o \in Importers \ {p} : importer'[o] = importer[o]
  BY <1>2, GotoTyped DEF RefreshStageStatus, Steps, Card
<1>5. /\ stage' \in [Cards -> StageStatus] /\ stage'[c] # "none"
      /\ \A x \in Cards : stage[x] # "none" => stage'[x] # "none"
      /\ \A x \in Cards : stage'[x] \in {"cleared", "published"} => x \in reviewed'
  <2>1. CASE stage[c] = "published"
    BY <1>1, <1>2, <1>3, <2>1 DEF RefreshStageStatus, Typed, Sound
  <2>2. CASE stage[c] # "published"
    <3>1. stage' = [stage EXCEPT ![c] = importer[p].outcome]
      BY <2>2 DEF RefreshStageStatus
    <3>2. importer[p].clear => c \in reviewed'
      BY <2>2 DEF RefreshStageStatus, Derived
    <3> HIDE DEF c
    <3>3. \A x \in Cards : stage'[x] = IF x = c THEN importer[p].outcome ELSE stage[x]
      BY <1>2, <3>1 DEF Typed
    <3>4. stage' \in [Cards -> StageStatus]
      BY <1>3, <3>1 DEF Typed, StageStatus
    <3> QED
      BY <1>1, <1>2, <1>3, <3>2, <3>3, <3>4 DEF Sound
  <2> QED
    BY <2>1, <2>2
<1>6. ImporterSound(p)'
  BY <1>4, <1>5 DEF ImporterSound, Begun
<1> QED
  BY <1>1, <1>4, <1>5, <1>6, CardsKnown, ImporterStep DEF Typed, Sound

LEMMA AssertSound ==
  ASSUME Typed, Sound, NEW p \in Importers, AssertImportReviewReady(p)
  PROVE  Typed' /\ Sound'
<1> DEFINE c == Card(p)
<1>1. UNCHANGED <<stage, decision, reviewer, reviewed, released>>
  BY DEF AssertImportReviewReady, review, canonical
<1>2. importer[p] \in Run /\ c \in Cards /\ importer[p] # Idle
  BY AtWork, ImporterHas DEF AssertImportReviewReady, At
<1>3. CASE ReviewReady(c)
  <2>1. stage[c] # "none"
    BY <1>2 DEF Sound, ImporterSound, AssertImportReviewReady, At, Begun, Card
  <2>2. c \in reviewed
    BY <1>2, <1>3, <2>1 DEF ReviewReady, Sound
  <2>3. /\ importer' \in [Importers -> Run \cup {Idle}]
        /\ importer'[p].step = "ready" /\ importer'[p].card = c
        /\ \A o \in Importers \ {p} : importer'[o] = importer[o]
    BY <1>2, <1>3, GotoTyped DEF AssertImportReviewReady, Steps, Card
  <2>4. ImporterSound(p)'
    BY <1>1, <2>2, <2>3 DEF ImporterSound, Begun
  <2> QED
    BY <1>1, <2>3, <2>4, CardsKnown, ImporterStep DEF Typed, Sound
<1>4. CASE ~ReviewReady(c)
  <2>1. /\ importer' \in [Importers -> Run \cup {Idle}] /\ importer'[p] = Idle
        /\ \A o \in Importers \ {p} : importer'[o] = importer[o]
    BY <1>4, EndTyped DEF AssertImportReviewReady
  <2>2. ImporterSound(p)'
    BY <2>1 DEF ImporterSound
  <2> QED
    BY <1>1, <2>1, <2>2, CardsKnown, ImporterStep DEF Typed, Sound
<1> QED
  BY <1>3, <1>4

(* The steps after the revision is stored, and an import that stops.       *)
LEMMA FinishSound ==
  ASSUME Typed, Sound, NEW p \in Importers,
         \/ MaterializeEdgeProposals(p) \/ MarkImportStagePublished(p)
         \/ AbandonImport(p)
  PROVE  Typed' /\ Sound'
<1> DEFINE c == Card(p)
<1>1. UNCHANGED <<decision, reviewer, reviewed, released>>
  BY DEF MaterializeEdgeProposals, MarkImportStagePublished, AbandonImport, review,
         canonical
<1>2. importer[p] \in Run /\ c \in Cards /\ importer[p] # Idle
  <2>1. importer[p] # Idle
    BY AtWork DEF MaterializeEdgeProposals, MarkImportStagePublished, AbandonImport, At
  <2> QED
    BY <2>1, ImporterHas
<1>3. /\ stage' \in [Cards -> StageStatus]
      /\ \A x \in Cards : stage[x] # "none" => stage'[x] # "none"
      /\ \A x \in Cards : stage'[x] \in {"cleared", "published"} => x \in reviewed'
  <2>1. CASE MarkImportStagePublished(p)
    <3>1. c \in reviewed
      BY <1>2, <2>1 DEF Sound, ImporterSound, MarkImportStagePublished, At, Card
    <3>2. stage' = [stage EXCEPT ![c] = "published"]
      BY <2>1 DEF MarkImportStagePublished
    <3> QED
      BY <1>1, <1>2, <3>1, <3>2 DEF Typed, Sound, StageStatus
  <2>2. CASE MaterializeEdgeProposals(p) \/ AbandonImport(p)
    BY <1>1, <2>2 DEF MaterializeEdgeProposals, AbandonImport, Typed, Sound, review
  <2> QED
    BY <2>1, <2>2
<1>4. CASE End(p)
  <2>1. /\ importer' \in [Importers -> Run \cup {Idle}] /\ importer'[p] = Idle
        /\ \A o \in Importers \ {p} : importer'[o] = importer[o]
    BY <1>4, EndTyped
  <2>2. ImporterSound(p)'
    BY <2>1 DEF ImporterSound
  <2> QED
    BY <1>1, <1>3, <2>1, <2>2, CardsKnown, ImporterStep DEF Typed, Sound
<1>5. CASE MaterializeEdgeProposals(p) /\ importer[p].release /\ Goto(p, "proposed")
  <2>1. c \in reviewed
    BY <1>2, <1>5 DEF Sound, ImporterSound, MaterializeEdgeProposals, At, Card
  <2>2. /\ importer' \in [Importers -> Run \cup {Idle}]
        /\ importer'[p].step = "proposed" /\ importer'[p].card = c
        /\ \A o \in Importers \ {p} : importer'[o] = importer[o]
    BY <1>2, <1>5, GotoTyped DEF Steps, Card
  <2>3. ImporterSound(p)'
    BY <1>1, <2>1, <2>2 DEF ImporterSound, Begun
  <2> QED
    BY <1>1, <1>3, <2>2, <2>3, CardsKnown, ImporterStep DEF Typed, Sound
<1> QED
  BY <1>4, <1>5 DEF MaterializeEdgeProposals, MarkImportStagePublished, AbandonImport

LEMMA StoreSound ==
  ASSUME Typed, Sound, NEW p \in Importers, StoreRevision(p)
  PROVE  Typed' /\ Sound'
<1> DEFINE c == Card(p)
           release == importer[p].release
<1>1. UNCHANGED <<stage, decision, reviewer, reviewed>>
  BY DEF StoreRevision, review
<1>2. importer[p] \in Run /\ c \in Cards /\ importer[p] # Idle /\ release \in BOOLEAN
  <2>1. importer[p] # Idle
    BY AtWork DEF StoreRevision, At
  <2> QED
    BY <2>1, ImporterHas
<1>3. release => c \in reviewed
  BY <1>2 DEF Sound, ImporterSound, StoreRevision, At, Card
<1>4. released' \subseteq reviewed'
  BY <1>1, <1>3 DEF StoreRevision, Sound
<1>5. CASE End(p)
  <2>1. /\ importer' \in [Importers -> Run \cup {Idle}] /\ importer'[p] = Idle
        /\ \A o \in Importers \ {p} : importer'[o] = importer[o]
    BY <1>5, EndTyped
  <2>2. ImporterSound(p)'
    BY <2>1 DEF ImporterSound
  <2> QED
    BY <1>1, <1>4, <2>1, <2>2, CardsKnown, ImporterStep DEF Typed, Sound
<1>6. ASSUME NEW step \in {"stored", "proposed"}, Goto(p, step),
             step = "proposed" => release
      PROVE  Typed' /\ Sound'
  <2>1. /\ importer' \in [Importers -> Run \cup {Idle}]
        /\ importer'[p].step = step /\ importer'[p].card = c
        /\ importer'[p].release = release
        /\ \A o \in Importers \ {p} : importer'[o] = importer[o]
    BY <1>2, <1>6, GotoTyped DEF Steps, Card
  <2>2. ImporterSound(p)'
    BY <1>1, <1>3, <1>6, <2>1 DEF ImporterSound, Begun
  <2> QED
    BY <1>1, <1>4, <2>1, <2>2, CardsKnown, ImporterStep DEF Typed, Sound
<1>7. \/ End(p) \/ Goto(p, "stored")
      \/ release /\ Goto(p, "proposed")
  BY DEF StoreRevision
<1> QED
  BY <1>5, <1>6, <1>7

-----------------------------------------------------------------------------
(* The reviewers, and a rollback.                                          *)
LEMMA ReviewerSound ==
  ASSUME Typed, Sound, NEW r \in Reviewers,
         \/ \E c, d \in Cards, choice \in {"separate", "merge"} :
               BeginDecision(r, c, d, choice)
         \/ CommitDecision(r) \/ AbortDecision(r)
  PROVE  Typed' /\ Sound'
<1>1. UNCHANGED <<importer, released>>
  BY DEF BeginDecision, CommitDecision, AbortDecision, canonical
<1>2. ASSUME UNCHANGED <<stage, decision, reviewed>>,
             reviewer' \in [Reviewers -> Decision \cup {Idle}], DecisionSound(r)',
             \A o \in Reviewers \ {r} : reviewer'[o] = reviewer[o]
      PROVE  Typed' /\ Sound'
  <2>1. \A o \in Reviewers : DecisionSound(o)'
    BY <1>2 DEF Sound, DecisionSound
  <2>2. \A p \in Importers : ImporterSound(p)'
    BY <1>1, <1>2 DEF Sound, ImporterSound
  <2> QED
    BY <1>1, <1>2, <2>1, <2>2 DEF Typed, Sound
<1>3. ASSUME NEW c \in Cards, NEW d \in Cards, NEW choice \in {"separate", "merge"},
             BeginDecision(r, c, d, choice)
      PROVE  Typed' /\ Sound'
  <2> DEFINE own == [decision[c] EXCEPT ![d] = choice]
             status == StatusOf(own)
             clear == Resolved(own)
             made == [step |-> "computed", card |-> c, related |-> d,
                      choice |-> choice, outcome |-> status, clear |-> clear]
  <2>1. own \in [Cards -> Decisions]
    BY DEF Typed, Decisions
  <2>2. reviewer' = [reviewer EXCEPT ![r] = made]
    BY <1>3 DEF BeginDecision
  <2> HIDE DEF own
  <2>3. /\ status \in {"cleared", "blocked"} /\ clear \in BOOLEAN
        /\ status = "cleared" => clear
    BY <2>1, StatusIsSound
  <2> HIDE DEF status, clear
  <2>4. made \in Decision /\ made.outcome = status /\ made.clear = clear
    BY <2>3 DEF Decision
  <2> HIDE DEF made
  <2>5. /\ reviewer' \in [Reviewers -> Decision \cup {Idle}] /\ reviewer'[r] = made
        /\ \A o \in Reviewers \ {r} : reviewer'[o] = reviewer[o]
    BY <2>2, <2>4 DEF Typed
  <2>6. DecisionSound(r)'
    BY <2>3, <2>4, <2>5 DEF DecisionSound
  <2>7. UNCHANGED <<stage, decision, reviewed>>
    BY <1>3 DEF BeginDecision, review
  <2> QED
    BY <1>2, <2>5, <2>6, <2>7
<1>4. CASE AbortDecision(r)
  <2>1. /\ reviewer' \in [Reviewers -> Decision \cup {Idle}] /\ reviewer'[r] = Idle
        /\ \A o \in Reviewers \ {r} : reviewer'[o] = reviewer[o]
    BY <1>4 DEF AbortDecision, Typed
  <2> QED
    BY <1>2, <1>4, <2>1 DEF AbortDecision, review, DecisionSound
<1>5. CASE CommitDecision(r)
  <2> DEFINE t == reviewer[r]
  <2>1. /\ t \in Decision /\ t # Idle
    BY <1>5 DEF CommitDecision, Typed
  <2>2. /\ t.card \in Cards /\ t.choice \in Decisions
        /\ t.outcome \in {"cleared", "blocked"}
        /\ t.outcome = "cleared" => t.clear
    BY <2>1 DEF Decision, Decisions, Sound, DecisionSound
  <2>3. /\ decision' = [decision EXCEPT ![t.card] =
                           [decision[t.card] EXCEPT ![t.related] = t.choice]]
        /\ stage' = [stage EXCEPT ![t.card] = t.outcome]
        /\ reviewer' = [reviewer EXCEPT ![r] = Idle]
        /\ reviewed \subseteq reviewed'
        /\ t.clear => t.card \in reviewed'
    BY <1>5 DEF CommitDecision, Derived
  <2>4. /\ reviewer' \in [Reviewers -> Decision \cup {Idle}] /\ reviewer'[r] = Idle
        /\ \A o \in Reviewers \ {r} : reviewer'[o] = reviewer[o]
    BY <2>3 DEF Typed
  <2> HIDE DEF t
  <2>5. decision' \in [Cards -> [Cards -> Decisions]]
    <3>1. [decision[t.card] EXCEPT ![t.related] = t.choice] \in [Cards -> Decisions]
      BY <2>2 DEF Typed
    <3> QED
      BY <2>3, <3>1 DEF Typed
  <2>6. /\ stage' \in [Cards -> StageStatus]
        /\ \A x \in Cards : stage'[x] = IF x = t.card THEN t.outcome ELSE stage[x]
    BY <2>2, <2>3 DEF Typed, StageStatus
  <2>7. \A c \in Cards : stage'[c] \in {"cleared", "published"} => c \in reviewed'
    BY <2>2, <2>3, <2>6 DEF Sound
  <2>8. \A p \in Importers : ImporterSound(p)'
    <3>1. \A c \in Cards : stage[c] # "none" => stage'[c] # "none"
      BY <2>2, <2>6
    <3> QED
      BY <1>1, <2>3, <3>1, CardsKnown DEF Sound, ImporterSound
  <2>9. \A o \in Reviewers : DecisionSound(o)'
    BY <2>4 DEF Sound, DecisionSound
  <2> QED
    BY <1>1, <2>3, <2>4, <2>5, <2>6, <2>7, <2>8, <2>9 DEF Typed, Sound
<1> QED
  BY <1>3, <1>4, <1>5

LEMMA NextSound ==
  ASSUME Typed, Sound, [Next]_vars
  PROVE  Typed' /\ Sound'
<1>1. ASSUME NEW p \in Importers,
             \/ \E c \in Cards, release \in BOOLEAN : StartImport(p, c, release)
             \/ StageImportCard(p) \/ PublishCard(p) \/ AbandonImport(p)
      PROVE  Typed' /\ Sound'
  BY <1>1, StartSound, OpenSound, SearchSound, ComputeSound, RefreshSound, AssertSound,
     StoreSound, FinishSound DEF StageImportCard, PublishCard
<1>2. CASE \E c \in Cards : RollbackQuestion(c)
  BY <1>2 DEF RollbackQuestion, review, Typed, Sound, ImporterSound, DecisionSound
<1>3. CASE UNCHANGED vars
  BY <1>3 DEF vars, review, canonical, Typed, Sound, ImporterSound, DecisionSound
<1> QED
  BY <1>1, <1>2, <1>3, ReviewerSound DEF Next

LEMMA InitSound == Init => Typed /\ Sound
  BY DEF Init, Typed, Sound, ImporterSound, DecisionSound, StageStatus, Decisions

(* No interleaving of imports, failures, reviewers and rollbacks releases  *)
(* a card for which no derivation of its stage found everything resolved.  *)
THEOREM ReviewHolds == Spec => []ReleaseBackedByReview
<1>1. Typed /\ Sound /\ [Next]_vars => (Typed /\ Sound)'
  BY NextSound
<1>2. Sound => ReleaseBackedByReview
  BY DEF Sound, ReleaseBackedByReview
<1> QED
  BY <1>1, <1>2, InitSound, PTL DEF Spec

Resolution == {"separate", "merge"}
KeepsResolved == \A c, d \in Cards :
                     decision[c][d] \in Resolution => decision'[c][d] \in Resolution

LEMMA NextKeepsResolved ==
  ASSUME Typed, [Next]_vars
  PROVE  KeepsResolved
<1>1. ASSUME NEW x \in Cards, NEW y, NEW v,
             decision' = [decision EXCEPT ![x] = [decision[x] EXCEPT ![y] = v]],
             y \in Cards => v \in Resolution \/ v = DecisionAfterInsert(decision[x][y])
      PROVE  KeepsResolved
  <2>1. \A c, d \in Cards :
            decision'[c][d] = IF c = x /\ d = y THEN v ELSE decision[c][d]
    BY <1>1 DEF Typed
  <2> QED
    BY <1>1, <2>1 DEF KeepsResolved, Resolution, DecisionAfterInsert
<1>2. ASSUME NEW p \in Importers, NEW d \in Cards, InsertImportCandidate(p, d)
      PROVE  KeepsResolved
  <2>1. Card(p) \in Cards
    <3>1. importer[p] # Idle
      BY <1>2 DEF InsertImportCandidate, Idle
    <3> QED
      BY <3>1, ImporterHas
  <2>2. decision' = [decision EXCEPT ![Card(p)] =
                        [decision[Card(p)] EXCEPT
                            ![d] = DecisionAfterInsert(decision[Card(p)][d])]]
    BY <1>2 DEF InsertImportCandidate
  <2> QED
    BY <1>1, <2>1, <2>2
<1>3. ASSUME NEW r \in Reviewers, CommitDecision(r)
      PROVE  KeepsResolved
  <2> DEFINE t == reviewer[r]
  <2>1. t.card \in Cards /\ t.choice \in Resolution
    BY <1>3 DEF CommitDecision, Typed, Decision, Resolution
  <2>2. decision' = [decision EXCEPT ![t.card] =
                        [decision[t.card] EXCEPT ![t.related] = t.choice]]
    BY <1>3 DEF CommitDecision
  <2> HIDE DEF t
  <2> QED
    BY <1>1, <2>1, <2>2
<1>4. CASE UNCHANGED decision
  BY <1>4 DEF KeepsResolved
<1>5. \/ \E p \in Importers, d \in Cards : InsertImportCandidate(p, d)
      \/ \E r \in Reviewers : CommitDecision(r)
      \/ UNCHANGED decision
  BY DEF Next, vars, review, StageImportCard, PublishCard, StartImport, OpenStage,
         FindTextCandidates, FindSemanticCandidates, ComputeStageStatus,
         RefreshStageStatus, AssertImportReviewReady, StoreRevision,
         MaterializeEdgeProposals, MarkImportStagePublished, AbandonImport,
         BeginDecision, AbortDecision, RollbackQuestion
<1> QED
  BY <1>2, <1>3, <1>4, <1>5

(* A resolved pair is not reopened by any later import of the card.        *)
THEOREM ResolutionHolds == Spec => ResolvedStaysResolved
<1>1. Typed /\ Sound /\ [Next]_vars => (Typed /\ Sound)'
  BY NextSound
<1>2. Typed /\ [Next]_vars =>
          [\A c, d \in Cards : decision[c][d] \in {"separate", "merge"}
                               => decision'[c][d] \in {"separate", "merge"}]_vars
  BY NextKeepsResolved DEF KeepsResolved, Resolution
<1> QED
  BY <1>1, <1>2, InitSound, PTL DEF Spec, ResolvedStaysResolved

-----------------------------------------------------------------------------
(* The rest of the type invariant: what the rows refer to exists.          *)
Tables ==
    /\ revs \subseteq Cards
    /\ current \in [Questions -> revs \cup {NoCard}]
    /\ visible \subseteq Questions
    /\ edges \subseteq revs \X revs
    /\ checked \subseteq Cards /\ reviewed \subseteq Cards
    /\ released \subseteq revs

(* A candidate has a stage and is a stored revision of another question.   *)
Linked == \A c, d \in Cards : decision[c][d] # "none" =>
              stage[c] # "none" /\ Q(c) # Q(d) /\ d \in revs

(* What a process has found so far can become a candidate or an edge.      *)
ImporterLinked(p) ==
    /\ importer[p].step \in {"textFound", "allFound"} =>
          \A d \in importer[p].todo : Q(importer[p].card) # Q(d) /\ d \in revs
    /\ importer[p].step = "stored" => importer[p].card \in revs
DecisionLinked(r) ==
    reviewer[r] # Idle => decision[reviewer[r].card][reviewer[r].related] # "none"

Stored ==
    /\ Tables /\ Linked
    /\ \A p \in Importers : ImporterLinked(p)
    /\ \A r \in Reviewers : DecisionLinked(r)

(* A process moves on and takes nothing with it.                           *)
LEMMA ImporterOnly ==
  ASSUME Typed, Stored, NEW p \in Importers, UNCHANGED <<reviewer, decision>>,
         \A o \in Importers \ {p} : importer'[o] = importer[o],
         revs \subseteq revs', Tables', ImporterLinked(p)',
         \A c \in Cards : stage[c] # "none" => stage'[c] # "none"
  PROVE  Stored'
<1>1. \A o \in Importers : ImporterLinked(o)'
  BY DEF Stored, ImporterLinked
<1>2. \A r \in Reviewers : DecisionLinked(r)'
  BY DEF Stored, DecisionLinked
<1>3. Linked'
  BY DEF Stored, Linked
<1> QED
  BY <1>1, <1>2, <1>3 DEF Stored

LEMMA ImporterStored ==
  ASSUME Typed, Sound, Stored, Typed', NEW p \in Importers,
         \/ \E c \in Cards, release \in BOOLEAN : StartImport(p, c, release)
         \/ OpenStage(p) \/ FindTextCandidates(p) \/ FindSemanticCandidates(p)
         \/ ComputeStageStatus(p) \/ RefreshStageStatus(p)
         \/ AssertImportReviewReady(p) \/ MarkImportStagePublished(p)
         \/ AbandonImport(p)
  PROVE  Stored'
<1>1. UNCHANGED <<reviewer, decision, edges, canonical>>
  BY DEF StartImport, OpenStage, FindTextCandidates, FindSemanticCandidates,
     ComputeStageStatus, RefreshStageStatus, AssertImportReviewReady,
     MarkImportStagePublished, AbandonImport, review
<1>2. \A o \in Importers \ {p} : importer'[o] = importer[o]
  BY DEF StartImport, OpenStage, FindTextCandidates, FindSemanticCandidates,
     ComputeStageStatus, RefreshStageStatus, AssertImportReviewReady,
     MarkImportStagePublished, AbandonImport, Typed, Goto, End
<1>3. importer[p] # Idle => Card(p) \in Cards
  BY ImporterHas
<1>4. \A c \in Cards : stage[c] # "none" => stage'[c] # "none"
  <2>1. CASE RefreshStageStatus(p)
    <3>1. importer[p] \in Run
      BY <2>1, AtWork, ImporterHas DEF RefreshStageStatus, At
    <3> QED
      BY <2>1, <3>1 DEF RefreshStageStatus, Run, Typed
  <2>2. CASE OpenStage(p)
    BY <2>2 DEF OpenStage, Typed
  <2>3. CASE MarkImportStagePublished(p)
    BY <2>3 DEF MarkImportStagePublished, Typed
  <2> QED
    BY <2>1, <2>2, <2>3 DEF StartImport, FindTextCandidates, FindSemanticCandidates,
       ComputeStageStatus, AssertImportReviewReady, AbandonImport, review
<1>5. checked' \subseteq Cards /\ reviewed' \subseteq Cards
  <2>1. CASE RefreshStageStatus(p) \/ ComputeStageStatus(p)
    <3>1. Card(p) \in Cards
      BY <1>3, <2>1, AtWork DEF RefreshStageStatus, ComputeStageStatus, At
    <3> QED
      BY <2>1, <3>1 DEF RefreshStageStatus, ComputeStageStatus, Derived, Stored, Tables
  <2> QED
    BY <2>1 DEF StartImport, OpenStage, FindTextCandidates, FindSemanticCandidates,
       AssertImportReviewReady, MarkImportStagePublished, AbandonImport, review,
       Stored, Tables
<1>6. Tables'
  BY <1>1, <1>5 DEF canonical, Stored, Tables
<1>7. ImporterLinked(p)'
  <2>1. CASE FindTextCandidates(p) \/ FindSemanticCandidates(p)
    <3>1. importer[p] \in Run
      BY <2>1, AtWork, ImporterHas DEF FindTextCandidates, FindSemanticCandidates, At
    <3>2. /\ importer'[p].card = Card(p) /\ importer'[p].step \in {"textFound", "allFound"}
          /\ \A d \in importer'[p].todo : d \in Published(Card(p))
      <4> DEFINE Done(step, found) == importer' = [importer EXCEPT ![p] =
                    [importer[p] EXCEPT !.step = step, !.todo = found]]
      <4>1. PICK step \in {"textFound", "allFound"}, found \in SUBSET Published(Card(p)) :
               Done(step, found)
        <5>1. CASE FindTextCandidates(p)
          <6>1. Done("textFound", Candidates(Card(p), Exact \cup Lexical))
            BY <5>1 DEF FindTextCandidates
          <6> QED
            BY <6>1 DEF Candidates
        <5>2. CASE FindSemanticCandidates(p)
          <6>1. Done("allFound", {d \in Candidates(Card(p), Semantic) :
                                     decision[Card(p)][d] = "none"})
            BY <5>2 DEF FindSemanticCandidates
          <6> QED
            BY <6>1 DEF Candidates
        <5> QED
          BY <2>1, <5>1, <5>2
      <4>2. importer'[p] = [importer[p] EXCEPT !.step = step, !.todo = found]
        BY <4>1 DEF Typed
      <4>3. /\ importer'[p].card = importer[p].card
            /\ importer'[p].step = step /\ importer'[p].todo = found
        BY <3>1, <4>2 DEF Run
      <4> QED
        BY <4>1, <4>3 DEF Card
    <3>3. \A d \in Published(Card(p)) : Q(Card(p)) # Q(d) /\ d \in revs
      BY ConstantsAssumption DEF Published, Stored, Tables, Q
    <3> QED
      BY <1>1, <3>2, <3>3 DEF ImporterLinked, canonical
  <2>2. CASE ~(FindTextCandidates(p) \/ FindSemanticCandidates(p))
    <3>1. importer'[p].step \notin {"textFound", "allFound", "stored"}
      BY <2>2, AtWork DEF StartImport, OpenStage, ComputeStageStatus, RefreshStageStatus,
         AssertImportReviewReady, MarkImportStagePublished, AbandonImport, Typed, Goto,
         End, Idle, At, Run
    <3> QED
      BY <3>1 DEF ImporterLinked
  <2> QED
    BY <2>1, <2>2
<1> QED
  BY <1>1, <1>2, <1>4, <1>6, <1>7, ImporterOnly DEF canonical

(* A pair that was found becomes a candidate; nobody else's row is written.*)
LEMMA InsertStored ==
  ASSUME Typed, Sound, Stored, NEW p \in Importers, NEW d \in Cards,
         InsertImportCandidate(p, d)
  PROVE  Stored'
<1>1. /\ importer[p] # Idle /\ importer[p] \in Run /\ Card(p) \in Cards
      /\ stage[Card(p)] # "none"
  BY AtWork, ImporterHas DEF InsertImportCandidate, Sound, ImporterSound, Begun, Card
<1>2. Q(Card(p)) # Q(d) /\ d \in revs
  BY DEF InsertImportCandidate, Stored, ImporterLinked, Card
<1>3. /\ \A o \in Importers \ {p} : importer'[o] = importer[o]
      /\ importer'[p].card = importer[p].card /\ importer'[p].step = importer[p].step
      /\ importer'[p].todo \subseteq importer[p].todo
      /\ UNCHANGED <<stage, edges, checked, reviewed, canonical, reviewer>>
  BY <1>1 DEF InsertImportCandidate, Typed, Run
<1>4. \A x, y \in Cards :
          decision'[x][y] = IF x = Card(p) /\ y = d THEN DecisionAfterInsert(decision[x][y])
                            ELSE decision[x][y]
  BY <1>1 DEF InsertImportCandidate, Typed
<1>5. Linked'
  BY <1>1, <1>2, <1>3, <1>4 DEF Linked, Stored, canonical
<1>6. \A o \in Importers : ImporterLinked(o)'
  BY <1>1, <1>3 DEF Stored, ImporterLinked, canonical
<1>7. \A r \in Reviewers : DecisionLinked(r)'
  <2> SUFFICES ASSUME NEW r \in Reviewers, reviewer[r] # Idle PROVE DecisionLinked(r)'
    BY <1>3 DEF DecisionLinked
  <2>1. reviewer[r].card \in Cards /\ reviewer[r].related \in Cards
    BY DEF Typed, Decision
  <2> QED
    BY <1>3, <1>4, <2>1 DEF Stored, DecisionLinked, DecisionAfterInsert
<1>8. Tables'
  BY <1>3 DEF Stored, Tables, canonical
<1> QED
  BY <1>5, <1>6, <1>7, <1>8 DEF Stored

LEMMA PublishStored ==
  ASSUME Typed, Sound, Stored, NEW p \in Importers,
         StoreRevision(p) \/ MaterializeEdgeProposals(p)
  PROVE  Stored'
<1>1. /\ importer[p] # Idle /\ importer[p] \in Run /\ Card(p) \in Cards
  BY AtWork, ImporterHas DEF StoreRevision, MaterializeEdgeProposals, At
<1>2. /\ \A o \in Importers \ {p} : importer'[o] = importer[o]
      /\ importer'[p].step \in {"stored", "proposed", "idle"}
      /\ UNCHANGED <<decision, stage, checked, reviewed, reviewer>>
  BY <1>1 DEF StoreRevision, MaterializeEdgeProposals, Typed, Goto, End, Idle, Run, review
<1>3. CASE StoreRevision(p)
  <2>1. revs' = revs \cup {Card(p)} /\ edges' = edges /\ released' \subseteq revs'
    BY <1>3 DEF StoreRevision, review, Stored, Tables
  <2>2. current' \in [Questions -> revs' \cup {NoCard}] /\ visible' \subseteq Questions
    BY <1>1, <1>3, ConstantsAssumption DEF StoreRevision, Stored, Tables, Q
  <2>3. Tables'
    BY <1>1, <1>2, <2>1, <2>2 DEF Stored, Tables
  <2>4. importer'[p].step = "stored" => importer'[p].card = Card(p)
    BY <1>1, <1>3 DEF StoreRevision, Typed, Goto, End, Idle, Run, Card
  <2> QED
    BY <1>2, <2>1, <2>3, <2>4, ImporterOnly DEF ImporterLinked
<1>4. CASE MaterializeEdgeProposals(p)
  <2>1. Card(p) \in revs
    BY <1>4 DEF MaterializeEdgeProposals, At, Stored, ImporterLinked, Card
  <2>2. edges' \subseteq revs \X revs
    <3>1. \A e \in edges' : e \in edges \/ \E d \in Cards :
             decision[Card(p)][d] # "none" /\ e = <<Card(p), d>>
      BY <1>4, Zenon DEF MaterializeEdgeProposals
    <3>2. \A d \in Cards : decision[Card(p)][d] # "none" => d \in revs
      BY <1>1 DEF Stored, Linked
    <3> QED
      BY <2>1, <3>1, <3>2 DEF Stored, Tables
  <2>3. Tables'
    BY <1>2, <1>4, <2>2 DEF MaterializeEdgeProposals, canonical, Stored, Tables
  <2>4. importer'[p].step # "stored"
    BY <1>1, <1>4 DEF MaterializeEdgeProposals, Typed, Goto, End, Idle, Run
  <2> QED
    BY <1>2, <1>4, <2>3, <2>4, ImporterOnly
       DEF ImporterLinked, MaterializeEdgeProposals, canonical
<1> QED
  BY <1>3, <1>4

LEMMA ReviewerStored ==
  ASSUME Typed, Stored, Typed', NEW r \in Reviewers,
         \/ \E c, d \in Cards, choice \in {"separate", "merge"} :
               BeginDecision(r, c, d, choice)
         \/ CommitDecision(r) \/ AbortDecision(r)
  PROVE  Stored'
<1>1. UNCHANGED <<importer, canonical, edges, checked>>
  BY DEF BeginDecision, CommitDecision, AbortDecision, review
<1>2. \A o \in Reviewers \ {r} : reviewer'[o] = reviewer[o]
  BY DEF BeginDecision, CommitDecision, AbortDecision, Typed
<1>3. \A p \in Importers : ImporterLinked(p)'
  BY <1>1 DEF Stored, ImporterLinked, canonical
<1>4. CASE ~CommitDecision(r)
  <2>1. UNCHANGED <<stage, decision, reviewed>>
    BY <1>4 DEF BeginDecision, AbortDecision, review
  <2>2. DecisionLinked(r)'
    <3>1. ASSUME NEW c \in Cards, NEW d \in Cards, NEW choice \in {"separate", "merge"},
                 BeginDecision(r, c, d, choice)
          PROVE  DecisionLinked(r)'
      <4>1. /\ reviewer'[r].card = c /\ reviewer'[r].related = d
            /\ decision[c][d] # "none"
        BY <3>1 DEF BeginDecision, Typed
      <4> QED
        BY <2>1, <4>1 DEF DecisionLinked
    <3>2. CASE AbortDecision(r)
      BY <3>2 DEF AbortDecision, Typed, DecisionLinked
    <3> QED
      BY <1>4, <3>1, <3>2
  <2> QED
    BY <1>1, <1>2, <1>3, <2>1, <2>2 DEF Stored, DecisionLinked, Tables, Linked, canonical
<1>5. CASE CommitDecision(r)
  <2> DEFINE t == reviewer[r]
  <2>1. /\ t \in Decision /\ t # Idle
    BY <1>5 DEF CommitDecision, Typed
  <2>2. /\ t.card \in Cards /\ t.related \in Cards /\ t.choice # "none"
        /\ t.outcome # "none" /\ decision[t.card][t.related] # "none"
    BY <2>1 DEF Decision, Stored, DecisionLinked
  <2>3. /\ \A x, y \in Cards : decision'[x][y] = IF x = t.card /\ y = t.related
                                                 THEN t.choice ELSE decision[x][y]
        /\ \A x \in Cards : stage'[x] = IF x = t.card THEN t.outcome ELSE stage[x]
        /\ reviewed' \subseteq reviewed \cup {t.card}
        /\ reviewer'[r] = Idle
    BY <1>5, <2>2 DEF CommitDecision, Typed, Derived
  <2> HIDE DEF t
  <2>4. Linked'
    BY <1>1, <2>2, <2>3 DEF Stored, Linked, canonical
  <2>5. Tables'
    BY <1>1, <2>2, <2>3 DEF Stored, Tables, canonical
  <2>6. \A o \in Reviewers : DecisionLinked(o)'
    <3> SUFFICES ASSUME NEW o \in Reviewers, o # r, reviewer[o] # Idle
                 PROVE  DecisionLinked(o)'
      BY <1>2, <2>3 DEF DecisionLinked
    <3>1. reviewer[o].card \in Cards /\ reviewer[o].related \in Cards
      BY DEF Typed, Decision
    <3> QED
      BY <1>2, <2>2, <2>3, <3>1 DEF Stored, DecisionLinked
  <2> QED
    BY <1>3, <2>4, <2>5, <2>6 DEF Stored
<1> QED
  BY <1>4, <1>5

LEMMA NextStored ==
  ASSUME Typed, Sound, Stored, [Next]_vars
  PROVE  Stored'
<1>1. Typed'
  BY NextSound
<1>2. ASSUME NEW c \in Cards, RollbackQuestion(c) PROVE Stored'
  <2>1. Tables' /\ UNCHANGED <<revs, stage, decision, importer, reviewer>>
    BY <1>2, ConstantsAssumption DEF RollbackQuestion, Stored, Tables, review, Q
  <2> QED
    BY <2>1 DEF Stored, Linked, ImporterLinked, DecisionLinked
<1>3. CASE UNCHANGED vars
  BY <1>3 DEF vars, review, canonical, Stored, Tables, Linked, ImporterLinked,
     DecisionLinked
<1> QED
  BY <1>1, <1>2, <1>3, ImporterStored, InsertStored, PublishStored, ReviewerStored
     DEF Next, StageImportCard, PublishCard

LEMMA InitStored == Init => Stored
<1> SUFFICES ASSUME Init PROVE Stored
  OBVIOUS
<1>1. Tables
  BY ConstantsAssumption DEF Init, Tables, Q
<1>2. Linked /\ \A p \in Importers : ImporterLinked(p)
  BY DEF Init, Linked, ImporterLinked, Idle
<1>3. \A r \in Reviewers : DecisionLinked(r)
  BY DEF Init, DecisionLinked
<1> QED
  BY <1>1, <1>2, <1>3 DEF Stored

LEMMA NextCrossed ==
  ASSUME Typed, crossed \subseteq Cards, [Next]_vars
  PROVE  crossed' \subseteq Cards
<1>1. ASSUME NEW p \in Importers, StageImportCard(p)
      PROVE  crossed' \subseteq Cards
  <2>1. CASE ComputeStageStatus(p)
    BY <2>1, AtWork, ImporterHas DEF ComputeStageStatus, Cross, At
  <2>2. CASE ~ComputeStageStatus(p)
    BY <1>1, <2>2 DEF StageImportCard, OpenStage, FindTextCandidates,
       FindSemanticCandidates, InsertImportCandidate, RefreshStageStatus, review
  <2> QED
    BY <2>1, <2>2
<1>2. ASSUME NEW p \in Importers, PublishCard(p)
      PROVE  crossed' \subseteq Cards
  BY <1>2 DEF PublishCard, AssertImportReviewReady, StoreRevision,
     MaterializeEdgeProposals, MarkImportStagePublished, review
<1> QED
  BY <1>1, <1>2 DEF Next, vars, review, StartImport, AbandonImport, BeginDecision, Cross,
     CommitDecision, AbortDecision, RollbackQuestion

(* Every row refers to rows that exist: a candidate to a stage and to a    *)
(* stored revision of another question, an edge proposal to two revisions, *)
(* although the statements that write them commit one by one.              *)
THEOREM TypesHold == Spec => []TypeOK
<1>1. Typed /\ Sound /\ Stored /\ [Next]_vars => (Typed /\ Sound /\ Stored)'
  BY NextSound, NextStored
<1>2. Typed /\ Stored /\ crossed \subseteq Cards => TypeOK
  BY DEF Typed, Stored, Tables, Linked, TypeOK
<1>3. Init => crossed \subseteq Cards
  BY DEF Init
<1>4. Typed /\ crossed \subseteq Cards /\ [Next]_vars => (crossed \subseteq Cards)'
  BY NextCrossed
<1> QED
  BY <1>1, <1>2, <1>3, <1>4, InitSound, InitStored, PTL DEF Spec

-----------------------------------------------------------------------------
(* A decision is only taken on a card whose candidates were all looked for.*)
(* The code does not ask for it: a decision can clear a stage whose search *)
(* failed half-way.                                                        *)
DecidedWhenChecked ==
    \A r \in Reviewers : reviewer[r] # Idle => reviewer[r].card \in checked

(* What a process knows of the search for the card it is working on.       *)
ImporterSearched(p) ==
    LET s == importer[p] IN
    /\ s.step \in {"computed", "ready", "proposed"} => s.card \in checked
    /\ s.step = "stored" /\ s.release => s.card \in checked

Searched ==
    /\ \A c \in Cards : stage[c] \in {"cleared", "published"} => c \in checked
    /\ released \subseteq checked
    /\ \A p \in Importers : importer[p] # Idle => ImporterSearched(p)

(* A step of one process keeps Searched if it writes a ready status only   *)
(* of a card that was searched for.                                        *)
LEMMA ImporterSearches ==
  ASSUME Typed, Searched, NEW p \in Importers,
         \A o \in Importers \ {p} : importer'[o] = importer[o],
         checked \subseteq checked', released' \subseteq checked',
         \A c \in Cards : stage'[c] \in {"cleared", "published"} => c \in checked',
         importer'[p] # Idle => ImporterSearched(p)'
  PROVE  Searched'
<1>1. \A o \in Importers : importer'[o] # Idle => ImporterSearched(o)'
  BY DEF Searched, ImporterSearched
<1> QED
  BY <1>1 DEF Searched

(* The steps that neither release a card nor write a ready status.         *)
LEMMA ProgressSearched ==
  ASSUME Typed, Searched, NEW p \in Importers,
         \/ \E c \in Cards, release \in BOOLEAN : StartImport(p, c, release)
         \/ OpenStage(p) \/ FindTextCandidates(p) \/ FindSemanticCandidates(p)
         \/ \E d \in Cards : InsertImportCandidate(p, d)
         \/ AbandonImport(p)
  PROVE  Searched'
<1>1. UNCHANGED <<checked, released>>
  BY DEF StartImport, OpenStage, FindTextCandidates, FindSemanticCandidates,
         InsertImportCandidate, AbandonImport, review, canonical
<1>2. \A c \in Cards : stage'[c] \in {"cleared", "published"} => stage'[c] = stage[c]
  BY DEF StartImport, OpenStage, FindTextCandidates, FindSemanticCandidates,
         InsertImportCandidate, AbandonImport, review, Typed
<1>3. /\ \A o \in Importers \ {p} : importer'[o] = importer[o]
      /\ importer'[p] # Idle =>
            importer'[p].step \in {"hashed", "text", "textFound", "allFound", "staged"}
  <2>1. ASSUME importer[p] # Idle, NEW step \in {"text", "staged"}, Goto(p, step)
        PROVE  /\ \A o \in Importers \ {p} : importer'[o] = importer[o]
               /\ importer'[p].step \in {"text", "staged"}
    BY <2>1, GotoTyped DEF Steps
  <2>2. CASE \E c \in Cards, release \in BOOLEAN : StartImport(p, c, release)
    BY <2>2 DEF StartImport, Typed
  <2>3. CASE OpenStage(p)
    BY <2>1, <2>3, AtWork DEF OpenStage, At
  <2>4. CASE FindTextCandidates(p) \/ FindSemanticCandidates(p)
    <3>1. importer[p] \in Run
      BY <2>4, AtWork, ImporterHas DEF FindTextCandidates, FindSemanticCandidates, At
    <3> QED
      BY <2>4, <3>1 DEF FindTextCandidates, FindSemanticCandidates, Typed, Run
  <2>5. CASE \E d \in Cards : InsertImportCandidate(p, d)
    <3>1. importer[p] \in Run
      BY <2>5, AtWork, ImporterHas DEF InsertImportCandidate
    <3> QED
      BY <2>5, <3>1 DEF InsertImportCandidate, Typed, Run
  <2>6. CASE AbandonImport(p)
    BY <2>6, EndTyped DEF AbandonImport
  <2> QED
    BY <2>2, <2>3, <2>4, <2>5, <2>6
<1>4. importer'[p] # Idle => ImporterSearched(p)'
  BY <1>3 DEF ImporterSearched
<1> QED
  BY <1>1, <1>2, <1>3, <1>4, ImporterSearches DEF Searched

(* The derivation of the status comes after both searches.                 *)
LEMMA DeriveSearched ==
  ASSUME Typed, Searched, NEW p \in Importers,
         ComputeStageStatus(p) \/ RefreshStageStatus(p)
  PROVE  Searched'
<1>1. importer[p] \in Run /\ Card(p) \in Cards /\ importer[p] # Idle
  BY AtWork, ImporterHas DEF ComputeStageStatus, RefreshStageStatus, At
<1>2. CASE ComputeStageStatus(p)
  <2>1. UNCHANGED <<stage, released>> /\ checked' = checked \cup {Card(p)}
    BY <1>2 DEF ComputeStageStatus, canonical
  <2>2. /\ importer'[p].card = Card(p) /\ importer'[p].step = "computed"
        /\ \A o \in Importers \ {p} : importer'[o] = importer[o]
    BY <1>1, <1>2 DEF ComputeStageStatus, Typed, Run, Card
  <2>3. ImporterSearched(p)'
    BY <2>1, <2>2 DEF ImporterSearched
  <2>4. /\ \A c \in Cards : stage'[c] \in {"cleared", "published"} => c \in checked'
        /\ released' \subseteq checked'
    BY <2>1 DEF Searched
  <2> QED
    BY <2>1, <2>2, <2>3, <2>4, ImporterSearches
<1>3. CASE RefreshStageStatus(p)
  <2>1. UNCHANGED <<checked, released>> /\ Card(p) \in checked
    BY <1>1, <1>3 DEF RefreshStageStatus, At, canonical, Searched, ImporterSearched, Card
  <2>2. /\ importer'[p].step = "staged"
        /\ \A o \in Importers \ {p} : importer'[o] = importer[o]
    BY <1>1, <1>3, GotoTyped DEF RefreshStageStatus, Steps
  <2>3. \A c \in Cards : stage'[c] \in {"cleared", "published"} => c \in checked'
    BY <1>3, <2>1 DEF RefreshStageStatus, Typed, Searched
  <2>4. ImporterSearched(p)'
    BY <2>2 DEF ImporterSearched
  <2> QED
    BY <2>1, <2>2, <2>3, <2>4, ImporterSearches DEF Searched
<1> QED
  BY <1>2, <1>3

(* A release has passed AssertImportReviewReady on the stage of its card.  *)
LEMMA PublishSearched ==
  ASSUME Typed, Sound, Searched, NEW p \in Importers, PublishCard(p)
  PROVE  Searched'
<1> DEFINE c == Card(p)
<1>1. importer[p] \in Run /\ c \in Cards /\ importer[p] # Idle
  <2>1. importer[p] # Idle
    BY AtWork DEF PublishCard, AssertImportReviewReady, StoreRevision,
                  MaterializeEdgeProposals, MarkImportStagePublished, At
  <2> QED
    BY <2>1, ImporterHas
<1>2. checked' = checked
  BY DEF PublishCard, AssertImportReviewReady, StoreRevision,
         MaterializeEdgeProposals, MarkImportStagePublished, review
<1>3. \/ End(p)
      \/ Goto(p, "ready") /\ c \in checked
      \/ Goto(p, "stored") /\ (importer[p].release => c \in checked)
      \/ Goto(p, "proposed") /\ c \in checked
  <2>1. CASE AssertImportReviewReady(p)
    <3>1. stage[c] # "none"
      BY <1>1, <2>1 DEF Sound, ImporterSound, AssertImportReviewReady, At, Begun, Card
    <3>2. ReviewReady(c) => c \in checked
      BY <1>1, <3>1 DEF ReviewReady, Searched
    <3> QED
      BY <2>1, <3>2 DEF AssertImportReviewReady
  <2>2. CASE StoreRevision(p)
    <3>1. importer[p].release => c \in checked
      BY <1>1, <2>2 DEF StoreRevision, At, Searched, ImporterSearched, Card
    <3> QED
      BY <2>2, <3>1 DEF StoreRevision
  <2>3. CASE MaterializeEdgeProposals(p)
    <3>1. importer[p].release => c \in checked
      BY <1>1, <2>3 DEF MaterializeEdgeProposals, At, Searched, ImporterSearched, Card
    <3> QED
      BY <2>3, <3>1 DEF MaterializeEdgeProposals
  <2>4. CASE MarkImportStagePublished(p)
    BY <2>4 DEF MarkImportStagePublished
  <2> QED
    BY <2>1, <2>2, <2>3, <2>4 DEF PublishCard
<1>4. /\ \A o \in Importers \ {p} : importer'[o] = importer[o]
      /\ importer'[p] # Idle => ImporterSearched(p)'
  <2>1. CASE End(p)
    BY <2>1, EndTyped
  <2>2. ASSUME NEW step \in {"ready", "stored", "proposed"}, Goto(p, step),
               step # "stored" \/ importer[p].release => c \in checked
        PROVE  /\ \A o \in Importers \ {p} : importer'[o] = importer[o]
               /\ ImporterSearched(p)'
    <3>1. /\ importer'[p].step = step /\ importer'[p].card = c
          /\ importer'[p].release = importer[p].release
          /\ \A o \in Importers \ {p} : importer'[o] = importer[o]
      BY <1>1, <2>2, GotoTyped DEF Steps, Card
    <3> QED
      BY <1>2, <2>2, <3>1 DEF ImporterSearched
  <2> QED
    BY <1>3, <2>1, <2>2
<1>5. released' \subseteq checked'
  <2>1. CASE StoreRevision(p)
    BY <1>1, <1>2, <2>1 DEF StoreRevision, At, Searched, ImporterSearched, Card
  <2>2. CASE ~StoreRevision(p)
    BY <1>2, <2>2 DEF PublishCard, AssertImportReviewReady, MaterializeEdgeProposals,
                      MarkImportStagePublished, canonical, Searched
  <2> QED
    BY <2>1, <2>2
<1>6. \A x \in Cards : stage'[x] \in {"cleared", "published"} => x \in checked'
  <2>1. CASE MarkImportStagePublished(p)
    <3>1. c \in checked
      BY <1>1, <2>1 DEF MarkImportStagePublished, At, Searched, ImporterSearched, Card
    <3>2. stage' = [stage EXCEPT ![c] = "published"]
      BY <2>1 DEF MarkImportStagePublished
    <3> QED
      BY <1>1, <1>2, <3>1, <3>2 DEF Typed, Searched
  <2>2. CASE ~MarkImportStagePublished(p)
    BY <1>2, <2>2 DEF PublishCard, AssertImportReviewReady, StoreRevision,
                      MaterializeEdgeProposals, review, Searched
  <2> QED
    BY <2>1, <2>2
<1> QED
  BY <1>2, <1>4, <1>5, <1>6, ImporterSearches

LEMMA NextSearched ==
  ASSUME Typed, Sound, Searched, DecidedWhenChecked, [Next]_vars
  PROVE  Searched'
<1>1. ASSUME NEW p \in Importers,
             \/ \E c \in Cards, release \in BOOLEAN : StartImport(p, c, release)
             \/ StageImportCard(p) \/ PublishCard(p) \/ AbandonImport(p)
      PROVE  Searched'
  BY <1>1, ProgressSearched, DeriveSearched, PublishSearched DEF StageImportCard
<1>2. CASE UNCHANGED <<stage, checked, released, importer>>
  BY <1>2 DEF Searched, ImporterSearched
<1>3. ASSUME NEW r \in Reviewers, CommitDecision(r)
      PROVE  Searched'
  <2> DEFINE t == reviewer[r]
  <2>1. /\ UNCHANGED <<checked, released, importer>> /\ t # Idle
        /\ stage' = [stage EXCEPT ![t.card] = t.outcome]
    BY <1>3 DEF CommitDecision, canonical
  <2>2. t.card \in checked
    BY <2>1 DEF DecidedWhenChecked
  <2> HIDE DEF t
  <2>3. \A c \in Cards : stage'[c] \in {"cleared", "published"} => c \in checked
    BY <2>1, <2>2 DEF Typed, Searched
  <2> QED
    BY <2>1, <2>3 DEF Searched, ImporterSearched
<1>4. \/ \E p \in Importers :
             \/ \E c \in Cards, release \in BOOLEAN : StartImport(p, c, release)
             \/ StageImportCard(p) \/ PublishCard(p) \/ AbandonImport(p)
      \/ \E r \in Reviewers : CommitDecision(r)
      \/ UNCHANGED <<stage, checked, released, importer>>
  BY DEF Next, vars, BeginDecision, AbortDecision, RollbackQuestion, review, canonical
<1> QED
  BY <1>1, <1>2, <1>3, <1>4

(* A candidate provider that fails cannot turn into an unchecked release   *)
(* as long as nobody decides on a card before its candidates were all      *)
(* looked for: a decision taken too early is the only way to one.          *)
THEOREM CheckedBeforeDecided ==
    Spec /\ []DecidedWhenChecked => []UncheckedNeverReleased
<1>1. Init => Searched
  BY DEF Init, Searched
<1>2. Typed /\ Sound /\ [Next]_vars => (Typed /\ Sound)'
  BY NextSound
<1>3. Typed /\ Sound /\ Searched /\ DecidedWhenChecked /\ [Next]_vars => Searched'
  BY NextSearched
<1>4. Searched => UncheckedNeverReleased
  BY DEF Searched, UncheckedNeverReleased
<1> QED
  BY <1>1, <1>2, <1>3, <1>4, InitSound, PTL DEF Spec

-----------------------------------------------------------------------------
(* A status that was derived from the decisions of a card is right about   *)
(* them when it is written, if no other derivation was open with it.       *)
ImportDerives(p, c) == At(p, "computed") /\ Card(p) = c
ReviewDerives(r, c) == reviewer[r] # Idle /\ reviewer[r].card = c

Alone ==
    \A c \in Cards \ crossed :
        /\ \A p, o \in Importers : ImportDerives(p, c) /\ ImportDerives(o, c) => p = o
        /\ \A r, o \in Reviewers : ReviewDerives(r, c) /\ ReviewDerives(o, c) => r = o
        /\ \A p \in Importers, r \in Reviewers : ~(ImportDerives(p, c) /\ ReviewDerives(r, c))

(* A status that is not wrong about the decisions f, new candidates aside. *)
Fits(f, status) ==
    /\ status = "cleared" => \A d \in Cards : f[d] # "merge"
    /\ status = "blocked" => ~Resolved(f)

(* The decisions that a reviewer has derived the outcome from.             *)
Own(r) == [decision[reviewer[r].card] EXCEPT ![reviewer[r].related] = reviewer[r].choice]

Fitting ==
    /\ \A c \in Cards \ crossed : Fits(decision[c], stage[c])
    /\ \A p \in Importers : At(p, "computed") /\ Card(p) \notin crossed =>
          Fits(decision[Card(p)], importer[p].outcome)
    /\ \A r \in Reviewers : reviewer[r] # Idle /\ reviewer[r].card \notin crossed =>
          Fits(Own(r), reviewer[r].outcome)

LEMMA StatusFits ==
  ASSUME NEW f \in [Cards -> Decisions]
  PROVE  Fits(f, StatusOf(f)) /\ (StatusOf(f) = "blocked" <=> ~Resolved(f))
  BY DEF Fits, StatusOf, Resolved, Decisions

(* A status fits decisions to which an open candidate was added as well as *)
(* it did before.                                                          *)
LEMMA InsertFits ==
  ASSUME NEW f \in [Cards -> Decisions], NEW g \in [Cards -> Decisions],
         \A d \in Cards : g[d] = f[d] \/ (f[d] = "none" /\ g[d] = "open"),
         NEW status, Fits(f, status)
  PROVE  Fits(g, status)
  BY DEF Fits, Resolved, Decisions

LEMMA ReviewerHas ==
  ASSUME Typed, NEW r \in Reviewers, reviewer[r] # Idle
  PROVE  /\ reviewer[r] \in Decision
         /\ reviewer[r].card \in Cards /\ reviewer[r].related \in Cards
         /\ reviewer[r].choice \in {"separate", "merge"}
         /\ Own(r) \in [Cards -> Decisions]
<1>1. /\ reviewer[r] \in Decision
      /\ reviewer[r].card \in Cards /\ reviewer[r].related \in Cards
      /\ reviewer[r].choice \in {"separate", "merge"}
  BY DEF Typed, Decision
<1>2. Own(r) \in [Cards -> Decisions]
  BY <1>1 DEF Own, Typed, Decisions
<1> QED
  BY <1>1, <1>2

(* A step of one importer that keeps the decisions.                        *)
LEMMA ImporterFits ==
  ASSUME Fitting, NEW p \in Importers, UNCHANGED <<decision, reviewer>>,
         crossed \subseteq crossed',
         \A o \in Importers \ {p} : importer'[o] = importer[o],
         \A c \in Cards \ crossed' : Fits(decision[c], stage'[c]),
         importer'[p].step = "computed" /\ importer'[p].card \notin crossed' =>
            Fits(decision[importer'[p].card], importer'[p].outcome)
  PROVE  Fitting'
<1>1. \A c \in Cards : (c \notin crossed => Fits(decision[c], stage[c]))'
  BY DEF Fits, Resolved
<1>2. \A o \in Importers :
          (At(o, "computed") /\ Card(o) \notin crossed => Fits(decision[Card(o)], importer[o].outcome))'
  BY DEF Fitting, At, Card, Fits, Resolved
<1>3. \A r \in Reviewers :
          (reviewer[r] # Idle /\ reviewer[r].card \notin crossed
             => Fits(Own(r), reviewer[r].outcome))'
  BY DEF Fitting, Own, Fits, Resolved
<1> QED
  BY <1>1, <1>2, <1>3 DEF Fitting

LEMMA InsertFitting ==
  ASSUME Typed, Fitting, NEW p \in Importers, NEW d \in Cards,
         InsertImportCandidate(p, d), Typed'
  PROVE  Fitting'
<1> DEFINE c == Card(p)
<1>1. importer[p] \in Run /\ c \in Cards
  BY AtWork, ImporterHas DEF InsertImportCandidate
<1>2. UNCHANGED <<stage, reviewer, crossed>>
  BY DEF InsertImportCandidate
<1>3. \A x \in Cards, y \in Cards :
          \/ decision'[x][y] = decision[x][y]
          \/ decision[x][y] = "none" /\ decision'[x][y] = "open"
  BY <1>1 DEF InsertImportCandidate, Typed, DecisionAfterInsert
<1>4. /\ \A o \in Importers \ {p} : importer'[o] = importer[o]
      /\ importer'[p].step # "computed"
  BY <1>1 DEF InsertImportCandidate, Typed, Run
<1>5. ASSUME NEW x \in Cards, NEW status, Fits(decision[x], status)
      PROVE  Fits(decision'[x], status)
  <2>1. decision[x] \in [Cards -> Decisions] /\ decision'[x] \in [Cards -> Decisions]
    BY DEF Typed
  <2> QED
    BY <1>3, <1>5, <2>1, InsertFits
<1>6. \A x \in Cards : (x \notin crossed => Fits(decision[x], stage[x]))'
  <2> SUFFICES ASSUME NEW x \in Cards \ crossed PROVE Fits(decision[x], stage[x])'
    BY <1>2
  <2>1. Fits(decision'[x], stage[x])
    BY <1>5 DEF Fitting
  <2> QED
    BY <1>2, <2>1 DEF Fits, Resolved
<1>7. \A o \in Importers :
          (At(o, "computed") /\ Card(o) \notin crossed => Fits(decision[Card(o)], importer[o].outcome))'
  <2> SUFFICES ASSUME NEW o \in Importers, At(o, "computed")', Card(o)' \notin crossed'
               PROVE  Fits(decision[Card(o)], importer[o].outcome)'
    OBVIOUS
  <2>1. importer'[o] = importer[o] /\ At(o, "computed") /\ Card(o) \notin crossed
    BY <1>2, <1>4 DEF At, Card
  <2>2. Card(o) \in Cards /\ Fits(decision[Card(o)], importer[o].outcome)
    BY <2>1, AtWork, ImporterHas DEF At, Fitting
  <2>3. Fits(decision'[Card(o)], importer[o].outcome)
    BY <1>5, <2>2
  <2> QED
    BY <2>1, <2>3 DEF Card, Fits, Resolved
<1>8. \A r \in Reviewers :
          (reviewer[r] # Idle /\ reviewer[r].card \notin crossed
             => Fits(Own(r), reviewer[r].outcome))'
  <2> SUFFICES ASSUME NEW r \in Reviewers, reviewer[r] # Idle, reviewer[r].card \notin crossed
               PROVE  Fits(Own(r), reviewer[r].outcome)'
    BY <1>2
  <2>1. Own(r) \in [Cards -> Decisions] /\ Fits(Own(r), reviewer[r].outcome)
    BY ReviewerHas DEF Fitting
  <2>2. Own(r)' \in [Cards -> Decisions]
    BY <1>2, ReviewerHas DEF Own, Typed, Decisions
  <2>3. \A y \in Cards : \/ Own(r)'[y] = Own(r)[y]
                         \/ Own(r)[y] = "none" /\ Own(r)'[y] = "open"
    BY <1>2, <1>3, ReviewerHas DEF Own, Typed
  <2>4. Fits(Own(r)', reviewer[r].outcome)
    BY <2>1, <2>2, <2>3, InsertFits
  <2> QED
    BY <1>2, <2>4 DEF Fits, Resolved
<1> QED
  BY <1>6, <1>7, <1>8 DEF Fitting

(* Nothing but the read of the decisions leaves a status to be written.    *)
LEMMA NotDeriving ==
  ASSUME Typed, NEW p \in Importers,
         \/ \E c \in Cards, release \in BOOLEAN : StartImport(p, c, release)
         \/ OpenStage(p) \/ FindTextCandidates(p) \/ FindSemanticCandidates(p)
         \/ \E d \in Cards : InsertImportCandidate(p, d)
         \/ RefreshStageStatus(p) \/ PublishCard(p) \/ AbandonImport(p)
  PROVE  /\ importer'[p].step # "computed"
         /\ \A o \in Importers \ {p} : importer'[o] = importer[o]
<1>1. ASSUME importer[p] # Idle, NEW step \in Steps \ {"computed"}, Goto(p, step)
      PROVE  importer'[p].step # "computed"
  BY <1>1, GotoTyped
<1>2. CASE End(p)
  BY <1>2, EndTyped DEF Idle
<1>3. CASE \E c \in Cards, release \in BOOLEAN : StartImport(p, c, release)
  BY <1>3 DEF StartImport, Typed
<1>4. CASE \/ FindTextCandidates(p) \/ FindSemanticCandidates(p)
           \/ \E d \in Cards : InsertImportCandidate(p, d)
  <2>1. importer[p] \in Run
    BY <1>4, AtWork, ImporterHas
       DEF FindTextCandidates, FindSemanticCandidates, InsertImportCandidate, At
  <2> QED
    BY <1>4, <2>1 DEF FindTextCandidates, FindSemanticCandidates, InsertImportCandidate,
                      Typed, Run
<1>5. \A o \in Importers \ {p} : importer'[o] = importer[o]
  BY DEF StartImport, OpenStage, FindTextCandidates, FindSemanticCandidates,
         InsertImportCandidate, RefreshStageStatus, PublishCard, AssertImportReviewReady,
         StoreRevision, MaterializeEdgeProposals, MarkImportStagePublished,
         AbandonImport, Goto, End, Typed
<1>6. CASE OpenStage(p) \/ RefreshStageStatus(p) \/ PublishCard(p)
  <2>1. importer[p] # Idle
    BY <1>6, AtWork DEF OpenStage, RefreshStageStatus, PublishCard, At,
          AssertImportReviewReady, StoreRevision, MaterializeEdgeProposals,
          MarkImportStagePublished
  <2>2. End(p) \/ \E step \in Steps \ {"computed"} : Goto(p, step)
    BY <1>6 DEF OpenStage, RefreshStageStatus, PublishCard, Steps,
          AssertImportReviewReady, StoreRevision, MaterializeEdgeProposals,
          MarkImportStagePublished
  <2> QED
    BY <1>1, <1>2, <1>5, <2>1, <2>2
<1> QED
  BY <1>2, <1>3, <1>4, <1>5, <1>6 DEF AbandonImport

(* Every step of an importer but the insert of a candidate.                *)
LEMMA ProgressFitting ==
  ASSUME Typed, Fitting, NEW p \in Importers,
         \/ \E c \in Cards, release \in BOOLEAN : StartImport(p, c, release)
         \/ OpenStage(p) \/ FindTextCandidates(p) \/ FindSemanticCandidates(p)
         \/ ComputeStageStatus(p) \/ RefreshStageStatus(p) \/ PublishCard(p)
         \/ AbandonImport(p)
  PROVE  Fitting'
<1>1. UNCHANGED <<decision, reviewer>> /\ crossed \subseteq crossed'
  BY DEF StartImport, OpenStage, FindTextCandidates, FindSemanticCandidates,
         ComputeStageStatus, RefreshStageStatus, PublishCard, AssertImportReviewReady,
         StoreRevision, MaterializeEdgeProposals, MarkImportStagePublished,
         AbandonImport, review, Cross
<1>2. \A o \in Importers \ {p} : importer'[o] = importer[o]
  BY DEF StartImport, OpenStage, FindTextCandidates, FindSemanticCandidates,
         ComputeStageStatus, RefreshStageStatus, PublishCard, AssertImportReviewReady,
         StoreRevision, MaterializeEdgeProposals, MarkImportStagePublished,
         AbandonImport, Goto, End, Typed
<1>3. CASE ComputeStageStatus(p)
  <2>1. importer[p] \in Run /\ Card(p) \in Cards
    BY <1>3, AtWork, ImporterHas DEF ComputeStageStatus, At
  <2>2. /\ importer'[p].card = Card(p)
        /\ importer'[p].outcome = StatusOf(decision[Card(p)])
    BY <1>3, <2>1 DEF ComputeStageStatus, Typed, Run, Card
  <2>3. Fits(decision[Card(p)], StatusOf(decision[Card(p)]))
    BY <2>1, StatusFits DEF Typed
  <2>4. stage' = stage
    BY <1>3 DEF ComputeStageStatus
  <2> QED
    BY <1>1, <1>2, <2>2, <2>3, <2>4, ImporterFits DEF Fitting
<1>4. CASE ~ComputeStageStatus(p)
  <2>1. importer'[p].step # "computed"
    BY <1>4, NotDeriving
  <2>2. \A c \in Cards \ crossed' : Fits(decision[c], stage'[c])
    <3> SUFFICES ASSUME NEW c \in Cards \ crossed PROVE Fits(decision[c], stage'[c])
      BY <1>1
    <3>1. CASE RefreshStageStatus(p) /\ stage'[c] # stage[c]
      <4>1. Card(p) \in Cards /\ At(p, "computed")
        BY <3>1, AtWork, ImporterHas DEF RefreshStageStatus, At
      <4>2. c = Card(p) /\ stage'[c] = importer[p].outcome
        BY <3>1, <4>1 DEF RefreshStageStatus, Typed
      <4> QED
        BY <4>1, <4>2 DEF Fitting
    <3>2. CASE stage'[c] \in {"staged", "published"}
      BY <3>2 DEF Fits
    <3>3. CASE stage'[c] = stage[c]
      BY <3>3 DEF Fitting
    <3> QED
      BY <1>4, <3>1, <3>2, <3>3 DEF StartImport, OpenStage, FindTextCandidates,
         FindSemanticCandidates, PublishCard, AssertImportReviewReady, StoreRevision,
         MaterializeEdgeProposals, MarkImportStagePublished, AbandonImport, review, Typed
  <2> QED
    BY <1>1, <1>2, <2>1, <2>2, ImporterFits
<1> QED
  BY <1>3, <1>4

(* A decision is the only thing that can make another derivation wrong.    *)
LEMMA CommitFitting ==
  ASSUME Typed, Fitting, Alone, NEW r \in Reviewers, CommitDecision(r), Typed'
  PROVE  Fitting'
<1> DEFINE t == reviewer[r]
<1>1. /\ t # Idle /\ t.card \in Cards /\ t.related \in Cards
      /\ t.card \notin crossed => Fits(Own(r), t.outcome)
  BY ReviewerHas DEF CommitDecision, Fitting
<1>2. /\ decision'[t.card] = Own(r)
      /\ \A c \in Cards \ {t.card} : decision'[c] = decision[c]
  BY <1>1 DEF CommitDecision, Own, Typed
<1>3. /\ stage'[t.card] = t.outcome
      /\ \A c \in Cards \ {t.card} : stage'[c] = stage[c]
      /\ importer' = importer /\ crossed' = crossed /\ reviewer'[r] = Idle
      /\ \A o \in Reviewers \ {r} : reviewer'[o] = reviewer[o]
  BY <1>1 DEF CommitDecision, Typed
<1>4. \A c \in Cards : (c \notin crossed => Fits(decision[c], stage[c]))'
  <2> SUFFICES ASSUME NEW c \in Cards \ crossed PROVE Fits(decision'[c], stage'[c])
    BY <1>3 DEF Fits, Resolved
  <2> QED
    BY <1>1, <1>2, <1>3 DEF Fitting
<1>5. \A p \in Importers :
          (At(p, "computed") /\ Card(p) \notin crossed
             => Fits(decision[Card(p)], importer[p].outcome))'
  <2> SUFFICES ASSUME NEW p \in Importers, At(p, "computed"), Card(p) \notin crossed
               PROVE  Fits(decision'[Card(p)], importer[p].outcome)
    BY <1>3 DEF At, Card, Fits, Resolved
  <2>1. Card(p) \in Cards
    BY AtWork, ImporterHas DEF At
  <2>2. Card(p) # t.card
    BY <1>1, <2>1 DEF Alone, ImportDerives, ReviewDerives
  <2> QED
    BY <1>2, <2>1, <2>2 DEF Fitting
<1>6. \A o \in Reviewers :
          (reviewer[o] # Idle /\ reviewer[o].card \notin crossed
             => Fits(Own(o), reviewer[o].outcome))'
  <2> SUFFICES ASSUME NEW o \in Reviewers, reviewer'[o] # Idle, reviewer'[o].card \notin crossed
               PROVE  Fits(Own(o)', reviewer'[o].outcome)
    BY <1>3 DEF Fits, Resolved
  <2>1. o # r /\ reviewer'[o] = reviewer[o]
    BY <1>3
  <2>2. reviewer[o].card \in Cards /\ reviewer[o].card # t.card
    BY <1>1, <2>1, ReviewerHas DEF Alone, ReviewDerives
  <2>3. Own(o)' = Own(o)
    BY <1>2, <2>1, <2>2 DEF Own
  <2> QED
    BY <2>1, <2>3 DEF Fitting
<1> QED
  BY <1>4, <1>5, <1>6 DEF Fitting

LEMMA BeginFitting ==
  ASSUME Typed, Fitting, NEW r \in Reviewers, NEW c \in Cards, NEW d \in Cards,
         NEW choice \in {"separate", "merge"}, BeginDecision(r, c, d, choice)
  PROVE  Fitting'
<1> DEFINE own == [decision[c] EXCEPT ![d] = choice]
<1>1. own \in [Cards -> Decisions]
  BY DEF Typed, Decisions
<1>2. UNCHANGED <<stage, decision, importer>> /\ crossed \subseteq crossed'
  BY DEF BeginDecision, Cross
<1>3. /\ reviewer'[r].card = c /\ reviewer'[r].related = d
      /\ reviewer'[r].choice = choice /\ reviewer'[r].outcome = StatusOf(own)
      /\ \A o \in Reviewers \ {r} : reviewer'[o] = reviewer[o]
  BY DEF BeginDecision, Typed
<1>4. Own(r)' = own
  BY <1>2, <1>3 DEF Own
<1> HIDE DEF own
<1>5. Fits(own, StatusOf(own))
  BY <1>1, StatusFits
<1>6. \A o \in Reviewers :
          (reviewer[o] # Idle /\ reviewer[o].card \notin crossed
             => Fits(Own(o), reviewer[o].outcome))'
  <2> SUFFICES ASSUME NEW o \in Reviewers, reviewer'[o] # Idle, reviewer'[o].card \notin crossed
               PROVE  Fits(Own(o)', reviewer'[o].outcome)
    BY <1>2 DEF Fits, Resolved
  <2>1. CASE o = r
    BY <1>3, <1>4, <1>5, <2>1
  <2>2. CASE o # r
    <3>1. reviewer'[o] = reviewer[o] /\ Own(o)' = Own(o)
      BY <1>2, <1>3, <2>2 DEF Own
    <3> QED
      BY <3>1 DEF Fitting
  <2> QED
    BY <2>1, <2>2
<1> QED
  BY <1>2, <1>6 DEF Fitting, At, Card, Fits, Resolved

(* A derivation that starts beside another one crosses it.                 *)
LEMMA NextAlone ==
  ASSUME Typed, Alone, [Next]_vars
  PROVE  Alone'
<1>1. ASSUME crossed \subseteq crossed',
             \A c \in Cards \ crossed', p \in Importers :
                 ImportDerives(p, c)' => ImportDerives(p, c),
             \A c \in Cards \ crossed', r \in Reviewers :
                 ReviewDerives(r, c)' => ReviewDerives(r, c)
      PROVE  Alone'
  BY <1>1 DEF Alone
<1>2. ASSUME NEW p \in Importers, ComputeStageStatus(p)
      PROVE  Alone'
  <2> DEFINE d == Card(p)
  <2>1. importer[p] \in Run /\ d \in Cards
    BY <1>2, AtWork, ImporterHas DEF ComputeStageStatus, At
  <2>2. /\ importer'[p].card = d
        /\ \A o \in Importers \ {p} : importer'[o] = importer[o]
        /\ reviewer' = reviewer
        /\ crossed \subseteq crossed' /\ (Deriving(d) => d \in crossed')
    BY <1>2, <2>1 DEF ComputeStageStatus, Typed, Run, Cross, Card
  <2>3. \A c, o : ImportDerives(o, c)' => (o = p /\ c = d) \/ o \notin Importers
                      \/ ImportDerives(o, c)
    BY <2>2 DEF ImportDerives, At, Card
  <2>4. \A r, c : ReviewDerives(r, c)' <=> ReviewDerives(r, c)
    BY <2>2 DEF ReviewDerives
  <2>5. d \notin crossed' =>
           /\ \A o \in Importers : ~ImportDerives(o, d)
           /\ \A r \in Reviewers : ~ReviewDerives(r, d)
    BY <2>2 DEF Deriving, ImportDerives, ReviewDerives
  <2> QED
    BY <2>2, <2>3, <2>4, <2>5 DEF Alone
<1>3. ASSUME NEW r \in Reviewers, NEW d \in Cards, NEW e \in Cards,
             NEW choice \in {"separate", "merge"}, BeginDecision(r, d, e, choice)
      PROVE  Alone'
  <2>1. /\ reviewer'[r].card = d
        /\ \A o \in Reviewers \ {r} : reviewer'[o] = reviewer[o]
        /\ importer' = importer
        /\ crossed \subseteq crossed' /\ (Deriving(d) => d \in crossed')
    BY <1>3 DEF BeginDecision, Typed, Cross
  <2>2. \A c, o : ReviewDerives(o, c)' => (o = r /\ c = d) \/ o \notin Reviewers \/ ReviewDerives(o, c)
    BY <2>1 DEF ReviewDerives
  <2>3. \A p, c : ImportDerives(p, c)' <=> ImportDerives(p, c)
    BY <2>1 DEF ImportDerives, At, Card
  <2>4. d \notin crossed' =>
           /\ \A p \in Importers : ~ImportDerives(p, d)
           /\ \A o \in Reviewers : ~ReviewDerives(o, d)
    BY <2>1 DEF Deriving, ImportDerives, ReviewDerives
  <2> QED
    BY <2>1, <2>2, <2>3, <2>4 DEF Alone
<1>4. ASSUME NEW r \in Reviewers, CommitDecision(r) \/ AbortDecision(r)
      PROVE  Alone'
  <2>1. /\ UNCHANGED <<importer, crossed>>
        /\ \A o \in Reviewers : reviewer'[o] = Idle \/ reviewer'[o] = reviewer[o]
    BY <1>4 DEF CommitDecision, AbortDecision, review, Typed
  <2> QED
    BY <1>1, <2>1 DEF ImportDerives, ReviewDerives, At, Card
<1>5. ASSUME NEW p \in Importers,
             \/ \E c \in Cards, release \in BOOLEAN : StartImport(p, c, release)
             \/ OpenStage(p) \/ FindTextCandidates(p) \/ FindSemanticCandidates(p)
             \/ \E d \in Cards : InsertImportCandidate(p, d)
             \/ RefreshStageStatus(p) \/ PublishCard(p) \/ AbandonImport(p)
      PROVE  Alone'
  <2>1. UNCHANGED <<reviewer, crossed>>
    BY <1>5 DEF StartImport, OpenStage, FindTextCandidates, FindSemanticCandidates,
       InsertImportCandidate, RefreshStageStatus, PublishCard, AssertImportReviewReady,
       StoreRevision, MaterializeEdgeProposals, MarkImportStagePublished, AbandonImport, review
  <2>2. /\ importer'[p].step # "computed"
        /\ \A o \in Importers \ {p} : importer'[o] = importer[o]
    BY <1>5, NotDeriving
  <2> QED
    BY <1>1, <2>1, <2>2 DEF ImportDerives, ReviewDerives, At, Card
<1>6. CASE (\E c \in Cards : RollbackQuestion(c)) \/ UNCHANGED vars
  BY <1>1, <1>6 DEF RollbackQuestion, vars, review, ImportDerives, ReviewDerives, At, Card
<1> QED
  BY <1>2, <1>3, <1>4, <1>5, <1>6 DEF Next, StageImportCard

LEMMA NextFitting ==
  ASSUME Typed, Fitting, Alone, [Next]_vars, Typed'
  PROVE  Fitting'
<1>1. ASSUME NEW p \in Importers,
             \/ \E c \in Cards, release \in BOOLEAN : StartImport(p, c, release)
             \/ StageImportCard(p) \/ PublishCard(p) \/ AbandonImport(p)
      PROVE  Fitting'
  BY <1>1, ProgressFitting, InsertFitting DEF StageImportCard
<1>2. ASSUME UNCHANGED <<stage, decision, importer, crossed>>, NEW r \in Reviewers,
             AbortDecision(r)
      PROVE  Fitting'
  BY <1>2 DEF AbortDecision, Typed, Fitting, Own, At, Card, Fits, Resolved
<1>3. CASE UNCHANGED <<stage, decision, importer, reviewer, crossed>>
  BY <1>3 DEF Fitting, Own, At, Card, Fits, Resolved
<1>4. CASE \E r \in Reviewers : AbortDecision(r)
  BY <1>2, <1>4 DEF AbortDecision, review
<1>5. CASE \/ \E c \in Cards : RollbackQuestion(c)
           \/ UNCHANGED vars
  BY <1>3, <1>5 DEF RollbackQuestion, vars, review
<1> QED
  BY <1>1, <1>4, <1>5, CommitFitting, BeginFitting DEF Next

(* For any importers and reviewers, a stage tells what its decisions       *)
(* amount to unless two derivations of its status were open at once,       *)
(* although candidates are still inserted between the read and the write   *)
(* of a derivation.                                                        *)
THEOREM StagesHold == Spec => []StageTellsDecisions
<1>1. Init => Fitting /\ Alone
  BY DEF Init, Fitting, Fits, Alone, ImportDerives, ReviewDerives, At, Idle
<1>2. Typed /\ Sound /\ [Next]_vars => (Typed /\ Sound)'
  BY NextSound
<1>3. Typed /\ Typed' /\ Fitting /\ Alone /\ [Next]_vars => Fitting'
  BY NextFitting
<1>4. Typed /\ Alone /\ [Next]_vars => Alone'
  BY NextAlone
<1>5. Typed /\ Fitting => StageTellsDecisions
  <2> SUFFICES ASSUME Typed, Fitting, NEW c \in Cards \ crossed
               PROVE  /\ stage[c] = "cleared" => \A d \in Cards : decision[c][d] # "merge"
                      /\ stage[c] = "blocked" => StatusOf(decision[c]) = "blocked"
    BY DEF StageTellsDecisions
  <2>1. Fits(decision[c], stage[c]) /\ decision[c] \in [Cards -> Decisions]
    BY DEF Fitting, Typed
  <2> QED
    BY <2>1, StatusFits DEF Fits
<1> QED
  BY <1>1, <1>2, <1>3, <1>4, <1>5, InitSound, PTL DEF Spec
=============================================================================

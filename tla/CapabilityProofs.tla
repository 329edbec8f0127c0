--------------------------- MODULE CapabilityProofs --------------------------
(***************************************************************************)
(* Proofs about the two parts of the capability registry: the bindings of  *)
(* a workspace, for every set of questions, bindings, edits and commands,  *)
(* and the renamed capabilities, for any sessions, workspaces, keys and    *)
(* proposals.  About the second, the invariant says what a transaction     *)
(* that has materialised may rely on: the row it wrote or met is its alone *)
(* until it ends, and as long as no two acceptances were open at once, the *)
(* check for a cycle is still good when it commits.                        *)
(***************************************************************************)
EXTENDS CapabilityBindings, CapabilityAliases, TLAPS


-----------------------------------------------------------------------------
(* Types.                                                                  *)

LEMMA EmptyIsManifest == Empty \in Manifest
  BY DEF Empty, Manifest

(* A command goes on with a manifest, what it saw and the paths it listed. *)
Goes(o, step, m, seen, along) ==
    work' = [work EXCEPT ![o] = [step |-> step, manifest |-> m, seen |-> seen, along |-> along]]

LEMMA WorkMoves ==
  ASSUME TypeOK, NEW o \in Operators, NEW step \in Steps, NEW m \in Manifest,
         NEW seen \in SUBSET Manifest, NEW along \in SUBSET Bindings,
         Goes(o, step, m, seen, along)
  PROVE  /\ work' \in [Operators -> Command]
         /\ work'[o] = [step |-> step, manifest |-> m, seen |-> seen, along |-> along]
         /\ \A p \in Operators \ {o} : work'[p] = work[p]
  BY DEF TypeOK, Goes, Command

LEMMA IdleIsCommand == Idle \in Command
  BY EmptyIsManifest DEF Idle, Steps, Command

LEMMA WorkEnds ==
  ASSUME TypeOK, NEW o \in Operators, End(o)
  PROVE  /\ work' \in [Operators -> Command]
         /\ work'[o] = Idle
         /\ \A p \in Operators \ {o} : work'[p] = work[p]
  BY IdleIsCommand DEF TypeOK, End

LEMMA WorkHas ==
  ASSUME TypeOK, NEW o \in Operators
  PROVE  /\ work[o].manifest \in Manifest
         /\ work[o].manifest.pin \subseteq Revisions
         /\ work[o].manifest.cards \subseteq Revisions
         /\ work[o].manifest.bound \subseteq Bindings
         /\ work[o].seen \subseteq Manifest
<1>1. work[o] \in Command
  BY DEF TypeOK
<1> QED
  BY <1>1 DEF Manifest, Command

LEMMA CardsBound ==
  ASSUME TypeOK, NEW o \in Operators, NEW C \in SUBSET Revisions, NEW B \in SUBSET Bindings
  PROVE  [work[o].manifest EXCEPT !.cards = C, !.bound = B] \in Manifest
<1>1. work[o].manifest \in Manifest
  BY WorkHas
<1> QED
  BY <1>1 DEF Manifest

LEMMA ServedTyped == TypeOK => Served \subseteq Revisions
  BY DEF TypeOK, Served

(* Steps that read move one command and nothing else.                      *)
Reading(o) ==
    \/ ReadRelease(o) \/ ListCards(o) \/ MergeAccepted(o) \/ EditManifest(o)
    \/ ListNeighbours(o) \/ CheckPin(o) \/ CheckCards(o) \/ StartRetire(o)
    \/ (\E m \in issued : ChooseTarget(o, m)) \/ LockActive(o)
    \/ Abandon(o)

(* The bindings were, all of them, on the paths of one past mapping.       *)
Mapped(B) == \E paths \in pasts : B \subseteq Along(paths)

LEMMA ReadingMoves ==
  ASSUME TypeOK, PathsNow \in pasts, NEW o \in Operators, Reading(o)
  PROVE  /\ UNCHANGED <<content, curriculum, review, releases>>
         /\ \/ \E step \in Steps, m \in Manifest, seen \in SUBSET Manifest,
                  along \in SUBSET Bindings :
                  /\ Goes(o, step, m, seen, along)
                  /\ step \in {"checked", "retiring"} =>
                        Mapped(m.bound)
                        \/ (m = work[o].manifest /\ At(o, "checked"))
                  /\ step \in {"chosen", "switching"} =>
                        m \in issued \/ (m = work[o].manifest /\ At(o, "chosen"))
            \/ End(o)
<1> USE DEF Reads
<1>0. /\ Served \subseteq Revisions
      /\ {} \in SUBSET Manifest /\ {} \in SUBSET Bindings
  BY ServedTyped
<1>s. \A step, m, seen : Set(o, step, m, seen) => Goes(o, step, m, seen, {})
  BY DEF Set, Goes
<1>1. CASE ReadRelease(o)
  <2>1. [Empty EXCEPT !.pin = Served] \in Manifest
    BY <1>0 DEF Empty, Manifest
  <2> QED
    BY <1>0, <1>s, <1>1, <2>1 DEF ReadRelease, Steps
<1>2. CASE ListCards(o)
  <2> DEFINE m == [work[o].manifest EXCEPT !.cards = Served, !.bound = Crosswalk(Served)]
             along == {b \in On(Served) \cap Along(PathsNow) : Accepted(b)}
  <2>1. m \in Manifest /\ along \in SUBSET Bindings
    <3>1. Crosswalk(Served) \in SUBSET Bindings /\ along \in SUBSET Bindings
      BY DEF On, Crosswalk
    <3> QED
      BY ONLY <1>0, <3>1, TypeOK, CardsBound
  <2>2. Goes(o, "listed", m, {}, along)
    BY <1>2 DEF ListCards, Goes
  <2> QED
    BY <1>0, <1>2, <2>1, <2>2 DEF ListCards, Steps
<1>3. CASE MergeAccepted(o)
  <2> DEFINE m == work[o].manifest
  <2>1. [m EXCEPT !.bound = m.bound \cup AcceptedFor(m)] \in Manifest
    BY WorkHas DEF Manifest, AcceptedFor, On
  <2> QED
    BY <1>0, <1>s, <1>3, <2>1 DEF MergeAccepted, Steps
<1>4. CASE EditManifest(o)
  <2>1. PICK B \in Edits :
           Set(o, "held", [work[o].manifest EXCEPT !.bound = B \cap On(work[o].manifest.cards)], {})
    BY <1>4 DEF EditManifest
  <2>2. [work[o].manifest EXCEPT !.bound = B \cap On(work[o].manifest.cards)] \in Manifest
    BY WorkHas DEF Manifest, On
  <2> QED
    BY <1>0, <1>s, <1>4, <2>1, <2>2 DEF EditManifest, Steps
<1>5. CASE ListNeighbours(o)
  <2>1. PICK B \in SUBSET (Neighbours \cap On(Served)) :
           Set(o, "candidates", [work[o].manifest EXCEPT !.cards = Served, !.bound = B], {})
    BY <1>5 DEF ListNeighbours
  <2>2. [work[o].manifest EXCEPT !.cards = Served, !.bound = B] \in Manifest
    <3>1. B \in SUBSET Bindings
      BY DEF On
    <3> QED
      BY ONLY <1>0, <3>1, TypeOK, CardsBound
  <2> QED
    BY <1>0, <1>s, <1>5, <2>1, <2>2 DEF ListNeighbours, Steps
<1>6. CASE CheckPin(o)
  BY <1>0, <1>s, <1>6, WorkHas DEF CheckPin, Steps
<1>7. CASE CheckCards(o)
  <2>1. CASE Covers(work[o].manifest)
    <3>1. Set(o, "checked", work[o].manifest, {}) /\ Mapped(work[o].manifest.bound)
      BY <1>7, <2>1 DEF CheckCards, Covers, Mapped
    <3> QED
      BY <1>0, <1>s, <1>7, <3>1, WorkHas DEF CheckCards, Steps
  <2>2. CASE ~Covers(work[o].manifest)
    <3>1. Set(o, "held", work[o].manifest, {})
      BY <1>7, <2>2 DEF CheckCards
    <3> QED
      BY <1>0, <1>s, <1>7, <3>1, WorkHas DEF CheckCards, Steps
  <2> QED
    BY <2>1, <2>2
<1>8. CASE StartRetire(o)
  <2>1. active \in SUBSET Manifest
    BY DEF TypeOK
  <2> QED
    BY <1>0, <1>s, <1>8, <2>1, WorkHas DEF StartRetire, Steps
<1>9. CASE \E m \in issued : ChooseTarget(o, m)
  <2>1. issued \subseteq Manifest
    BY DEF TypeOK
  <2> QED
    BY <1>0, <1>s, <1>9, <2>1 DEF ChooseTarget, Steps
<1>10. CASE LockActive(o)
  <2>1. active \in SUBSET Manifest
    BY DEF TypeOK
  <2> QED
    BY <1>0, <1>s, <1>10, <2>1, WorkHas DEF LockActive, Steps
<1>11. CASE Abandon(o)
  BY <1>11 DEF Abandon
<1> QED
  BY <1>1, <1>2, <1>3, <1>4, <1>5, <1>6, <1>7, <1>8, <1>9, <1>10, <1>11 DEF Reading

(* What a release and a rollback do when they commit.                      *)
LEMMA ReleaseEffect ==
  ASSUME TypeOK, NEW o \in Operators, CommitRelease(o)
  PROVE  \E m \in Manifest, kept \in SUBSET active :
            /\ m = work[o].manifest /\ At(o, "retiring")
            /\ kept \subseteq {m}
            /\ issued' = issued \cup {m} /\ active' = {m}
            /\ \E W \in Choices(m.bound) :
                  projection' = Placed(Cleared(issued \ kept), m, W)
            /\ Accept(m) /\ End(o) /\ UNCHANGED <<content, curriculum>>
<1> DEFINE m == work[o].manifest
           kept == active \ work[o].seen
<1>1. m \in Manifest /\ kept \in SUBSET active
  BY WorkHas
<1>2. /\ At(o, "retiring") /\ kept \subseteq {m}
      /\ issued' = issued \cup {m} /\ active' = kept \cup {m}
      /\ \E W \in Choices(m.bound) : projection' = Placed(Cleared(issued \ kept), m, W)
      /\ Accept(m) /\ End(o) /\ UNCHANGED <<content, curriculum>>
  BY DEF CommitRelease, Exclusive
<1>3. active' = {m}
  BY <1>2
<1> QED
  BY <1>1, <1>2, <1>3

LEMMA RollbackEffect ==
  ASSUME TypeOK, NEW o \in Operators, CommitRollback(o)
  PROVE  \E m \in Manifest, previous \in SUBSET active :
            /\ m = work[o].manifest /\ At(o, "switching")
            /\ active \ previous \subseteq {m}
            /\ OnePerSlot(m.bound)
            /\ active' = {m}
            /\ projection' = Placed(Cleared(previous), m, m.bound)
            /\ End(o) /\ UNCHANGED <<content, curriculum, review, issued>>
<1> DEFINE m == work[o].manifest
           previous == active \cap work[o].seen
<1>1. m \in Manifest /\ previous \in SUBSET active
  BY WorkHas
<1>2. /\ At(o, "switching") /\ active \ previous \subseteq {m} /\ OnePerSlot(m.bound)
      /\ active' = (active \ previous) \cup {m}
      /\ projection' = Placed(Cleared(previous), m, m.bound)
      /\ End(o) /\ UNCHANGED <<content, curriculum, review, issued>>
  BY DEF CommitRollback, Exclusive, Restorable
<1>3. active' = {m}
  BY <1>2
<1> QED
  BY <1>1, <1>2, <1>3

LEMMA PlacedTyped ==
  ASSUME TypeOK, NEW gone, NEW m \in Manifest, NEW W \in SUBSET m.bound
  PROVE  Placed(Cleared(gone), m, W) \subseteq Row
<1>1. W \subseteq Bindings /\ projection \subseteq Row
  BY DEF Manifest, TypeOK
<1> QED
  BY <1>1 DEF Placed, Cleared, Row

LEMMA ReviewTyped ==
  ASSUME TypeOK, NEW m \in Manifest,
         \/ Accept(m)
         \/ /\ proposal' = [b \in Bindings |-> IF b \in m.bound THEN Staged(b) ELSE proposal[b]]
            /\ pinOf' = [b \in Bindings |->
                  IF b \in m.bound /\ proposal[b] = "none" THEN m.pin ELSE pinOf[b]]
  PROVE  /\ proposal' \in [Bindings -> {"none", "proposed", "accepted", "rejected"}]
         /\ pinOf' \in [Bindings -> SUBSET Revisions]
<1>1. m.pin \in SUBSET Revisions
  BY DEF Manifest
<1> QED
  BY <1>1 DEF TypeOK, Accept, Staged

LEMMA NextSplits ==
  ASSUME Next
  PROVE  \/ \E r \in Revisions : MoveQuestion(r)
         \/ \E q \in Questions : ArchiveQuestion(q)
         \/ \E cards \in SUBSET Revisions : ReleaseCurriculumMapping(cards)
         \/ \E b \in Bindings, decision \in {"accepted", "rejected"} :
               DecideCapabilityBindingProposal(b, decision)
         \/ \E b \in Bindings : RevokeCapabilityBindingProposal(b)
         \/ \E o \in Operators : Reading(o)
         \/ \E o \in Operators : StoreProposals(o)
         \/ \E o \in Operators : CommitRelease(o)
         \/ \E o \in Operators : CommitRollback(o)
  BY DEF Next, Reading, GenerateCapabilityBindingManifest, StageCapabilityNeighborProposals,
         ReleaseCapabilityBindings, RollbackCapabilityBindings

(* The mapping's paths are among the past ones, and what a command is      *)
(* about to put in force was checked against some of them, or was in force.*)
Prepared ==
    /\ PathsNow \in pasts
    /\ \A o \in Operators :
          /\ work[o].step \in {"checked", "retiring"} => Mapped(work[o].manifest.bound)
          /\ work[o].step \in {"chosen", "switching"} => work[o].manifest \in issued

(* Only a mapping release rewrites paths, and it keeps the past ones.      *)
LEMMA PastsGrow ==
  ASSUME TypeOK, PathsNow \in pasts, [Next]_vars
  PROVE  /\ pasts \subseteq pasts' /\ PathsNow' \in pasts'
         /\ \A B : Mapped(B) => Mapped(B)'
<1>1. \/ UNCHANGED curriculum
      \/ \E cards \in SUBSET Revisions : ReleaseCurriculumMapping(cards)
  <2>1. ASSUME NEW o \in Operators, Reading(o) PROVE UNCHANGED curriculum
    BY <2>1, ReadingMoves
  <2> QED
    BY <2>1, NextSplits DEF vars, MoveQuestion, ArchiveQuestion, StoreProposals,
       CommitRelease, CommitRollback, DecideCapabilityBindingProposal,
       RevokeCapabilityBindingProposal
<1>2. pasts \subseteq pasts' /\ PathsNow' \in pasts'
  BY <1>1 DEF curriculum, PathsNow, ReleaseCurriculumMapping
<1>3. ASSUME NEW B, Mapped(B) PROVE Mapped(B)'
  BY <1>2, <1>3 DEF Mapped, Along
<1> QED
  BY <1>2, <1>3

LEMMA TypesStep == TypeOK /\ Prepared /\ [Next]_vars => TypeOK'
<1> SUFFICES ASSUME TypeOK, Prepared, [Next]_vars PROVE TypeOK'
  OBVIOUS
<1>1. ASSUME NEW r \in Revisions, MoveQuestion(r) PROVE TypeOK'
  <2>1. QuestionOf[r] \in Questions
    BY ConstantsAssumption
  <2>2. /\ current' \in [Questions -> Revisions]
        /\ \A q \in Questions : QuestionOf[current'[q]] = q
        /\ visible' \subseteq Questions
    BY <1>1, <2>1 DEF MoveQuestion, TypeOK
  <2> QED
    BY <1>1, <2>2 DEF MoveQuestion, TypeOK, curriculum, review, releases
<1>2. ASSUME NEW q \in Questions, ArchiveQuestion(q) PROVE TypeOK'
  BY <1>2 DEF ArchiveQuestion, TypeOK, curriculum, review, releases
<1>3. ASSUME NEW b \in Bindings, NEW decision \in {"accepted", "rejected"},
             DecideCapabilityBindingProposal(b, decision)
      PROVE  TypeOK'
  BY <1>3 DEF DecideCapabilityBindingProposal, TypeOK, content, curriculum, releases
<1>4. ASSUME NEW b \in Bindings, RevokeCapabilityBindingProposal(b) PROVE TypeOK'
  BY <1>4 DEF RevokeCapabilityBindingProposal, TypeOK, content, curriculum, releases
<1>5. ASSUME NEW o \in Operators, Reading(o) PROVE TypeOK'
  <2>1. UNCHANGED <<content, curriculum, review, releases>>
    BY <1>5, ReadingMoves DEF Prepared
  <2>2. work' \in [Operators -> Command]
    BY <1>5, ReadingMoves, WorkMoves, WorkEnds DEF Prepared
  <2> QED
    BY <2>1, <2>2 DEF TypeOK, content, curriculum, review, releases
<1>6. ASSUME NEW o \in Operators, StoreProposals(o) PROVE TypeOK'
  <2>1. /\ proposal' \in [Bindings -> {"none", "proposed", "accepted", "rejected"}]
        /\ pinOf' \in [Bindings -> SUBSET Revisions]
    <3>1. work[o].manifest \in Manifest
      BY WorkHas
    <3> QED
      BY <1>6, <3>1, ReviewTyped DEF StoreProposals
  <2>2. work' \in [Operators -> Command]
    BY <1>6, WorkEnds DEF StoreProposals
  <2>3. UNCHANGED <<content, curriculum, releases>>
    BY <1>6 DEF StoreProposals
  <2> QED
    BY <2>1, <2>2, <2>3 DEF TypeOK, content, curriculum, releases
<1>7. ASSUME NEW o \in Operators, CommitRelease(o) PROVE TypeOK'
  <2>1. PICK m \in Manifest, kept \in SUBSET active :
            /\ m = work[o].manifest /\ At(o, "retiring")
            /\ kept \subseteq {m}
            /\ issued' = issued \cup {m} /\ active' = {m}
            /\ \E W \in Choices(m.bound) :
                  projection' = Placed(Cleared(issued \ kept), m, W)
            /\ Accept(m) /\ End(o) /\ UNCHANGED <<content, curriculum>>
    BY <1>7, ReleaseEffect
  <2>2. projection' \subseteq Row
    BY <2>1, PlacedTyped DEF Choices
  <2>3. /\ proposal' \in [Bindings -> {"none", "proposed", "accepted", "rejected"}]
        /\ pinOf' \in [Bindings -> SUBSET Revisions]
    BY <2>1, ReviewTyped
  <2>4. work' \in [Operators -> Command]
    BY <2>1, WorkEnds
  <2> QED
    BY <2>1, <2>2, <2>3, <2>4 DEF TypeOK, content, curriculum
<1>8. ASSUME NEW o \in Operators, CommitRollback(o) PROVE TypeOK'
  <2>1. PICK m \in Manifest, previous \in SUBSET active :
            /\ m = work[o].manifest /\ At(o, "switching")
            /\ active \ previous \subseteq {m}
            /\ OnePerSlot(m.bound)
            /\ active' = {m}
            /\ projection' = Placed(Cleared(previous), m, m.bound)
            /\ End(o) /\ UNCHANGED <<content, curriculum, review, issued>>
    BY <1>8, RollbackEffect
  <2>4. m \in issued
    BY <2>1 DEF Prepared, At
  <2>2. projection' \subseteq Row
    BY <2>1, PlacedTyped
  <2>3. work' \in [Operators -> Command]
    BY <2>1, WorkEnds
  <2> QED
    BY <2>1, <2>2, <2>3, <2>4 DEF TypeOK, content, curriculum, review
<1>10. ASSUME NEW cards \in SUBSET Revisions, ReleaseCurriculumMapping(cards) PROVE TypeOK'
  <2>1. mapping' \in [Revisions -> MappingRow]
    <3>1. PICK rows \in [cards -> Mappings] :
             mapping' = [r \in Revisions |-> IF r \in cards THEN rows[r] ELSE mapping[r]]
      BY <1>10 DEF ReleaseCurriculumMapping
    <3> QED
      BY <3>1, ConstantsAssumption DEF TypeOK
  <2>2. PathsNow' \in [Revisions -> Paths \cup {NoPath}]
    BY <2>1 DEF PathsNow, MappingRow
  <2>3. /\ pasts' = pasts \cup {PathsNow'}
        /\ UNCHANGED <<content, review, releases, work>>
    BY <1>10 DEF ReleaseCurriculumMapping
  <2> QED
    BY <2>1, <2>2, <2>3 DEF TypeOK, content, review, releases
<1>9. CASE UNCHANGED vars
  BY <1>9 DEF vars, content, curriculum, review, releases, TypeOK
<1> QED
  BY <1>1, <1>2, <1>3, <1>4, <1>5, <1>6, <1>7, <1>8, <1>9, <1>10, NextSplits

LEMMA PreparedStep == TypeOK /\ Prepared /\ [Next]_vars => Prepared'
<1> SUFFICES ASSUME TypeOK, Prepared, [Next]_vars PROVE Prepared'
  OBVIOUS
<1>0. PathsNow' \in pasts' /\ \A B : Mapped(B) => Mapped(B)'
  BY PastsGrow DEF Prepared
<1>1. ASSUME UNCHANGED work, issued \subseteq issued' PROVE Prepared'
  BY <1>0, <1>1 DEF Prepared
<1>2. ASSUME NEW o \in Operators, End(o), issued \subseteq issued' PROVE Prepared'
  <2>1. work'[o].step = "idle"
    BY <1>2, WorkEnds DEF Idle
  <2>2. \A p \in Operators \ {o} : work'[p] = work[p]
    BY <1>2, WorkEnds
  <2> QED
    BY <1>0, <1>2, <2>1, <2>2 DEF Prepared
<1>3. ASSUME NEW o \in Operators, Reading(o) PROVE Prepared'
  <2>1. UNCHANGED issued
    BY <1>3, ReadingMoves DEF Prepared, releases
  <2>2. CASE End(o)
    BY <1>2, <2>1, <2>2
  <2>3. ASSUME NEW step \in Steps, NEW m \in Manifest, NEW seen \in SUBSET Manifest,
               NEW along \in SUBSET Bindings, Goes(o, step, m, seen, along),
               step \in {"checked", "retiring"} =>
                  Mapped(m.bound) \/ (m = work[o].manifest /\ At(o, "checked")),
               step \in {"chosen", "switching"} =>
                  m \in issued \/ (m = work[o].manifest /\ At(o, "chosen"))
        PROVE  Prepared'
    <3>1. /\ work'[o] = [step |-> step, manifest |-> m, seen |-> seen, along |-> along]
          /\ \A p \in Operators \ {o} : work'[p] = work[p]
      BY <2>3, WorkMoves
    <3>2. work'[o].step = step /\ work'[o].manifest = m
      BY <3>1
    <3>3. step \in {"checked", "retiring"} => Mapped(m.bound)'
      BY <1>0, <2>3 DEF Prepared, At
    <3>4. step \in {"chosen", "switching"} => m \in issued'
      BY <2>1, <2>3 DEF Prepared, At
    <3> QED
      BY <1>0, <2>1, <3>1, <3>2, <3>3, <3>4 DEF Prepared
  <2> QED
    BY <1>3, <2>2, <2>3, ReadingMoves DEF Prepared
<1>4. ASSUME NEW o \in Operators, StoreProposals(o) PROVE Prepared'
  BY <1>2, <1>4 DEF StoreProposals, releases
<1>5. ASSUME NEW o \in Operators, CommitRelease(o) PROVE Prepared'
  BY <1>2, <1>5 DEF CommitRelease
<1>6. ASSUME NEW o \in Operators, CommitRollback(o) PROVE Prepared'
  BY <1>2, <1>6 DEF CommitRollback
<1>7. ASSUME NEW r \in Revisions, MoveQuestion(r) PROVE Prepared'
  BY <1>1, <1>7 DEF MoveQuestion, releases
<1>8. ASSUME NEW q \in Questions, ArchiveQuestion(q) PROVE Prepared'
  BY <1>1, <1>8 DEF ArchiveQuestion, releases
<1>9. ASSUME NEW b \in Bindings, NEW decision \in {"accepted", "rejected"},
             DecideCapabilityBindingProposal(b, decision)
      PROVE  Prepared'
  BY <1>1, <1>9 DEF DecideCapabilityBindingProposal, releases
<1>10. ASSUME NEW b \in Bindings, RevokeCapabilityBindingProposal(b) PROVE Prepared'
  BY <1>1, <1>10 DEF RevokeCapabilityBindingProposal, releases
<1>12. ASSUME NEW cards \in SUBSET Revisions, ReleaseCurriculumMapping(cards) PROVE Prepared'
  BY <1>1, <1>12 DEF ReleaseCurriculumMapping, releases
<1>11. CASE UNCHANGED vars
  BY <1>1, <1>11 DEF vars, releases
<1> QED
  BY <1>3, <1>4, <1>5, <1>6, <1>7, <1>8, <1>9, <1>10, <1>11, <1>12, NextSplits

LEMMA TypesInit == Init => TypeOK /\ Prepared
<1> SUFFICES ASSUME Init PROVE TypeOK /\ Prepared
  OBVIOUS
<1>1. issued \subseteq Manifest /\ \A m, n \in issued : m = n
  BY ConstantsAssumption DEF Init
<1>2. /\ mapping \in [Revisions -> MappingRow]
      /\ pasts \subseteq [Revisions -> Paths \cup {NoPath}] /\ PathsNow \in pasts
  <2>1. mapping \in [Revisions -> MappingRow]
    BY ConstantsAssumption DEF Init
  <2>2. PathsNow \in [Revisions -> Paths \cup {NoPath}]
    BY <2>1 DEF PathsNow, MappingRow
  <2> QED
    BY <2>1, <2>2 DEF Init
<1>3. /\ proposal \in [Bindings -> {"none", "proposed", "accepted", "rejected"}]
      /\ pinOf \in [Bindings -> SUBSET Revisions]
      /\ projection \subseteq Row
  BY <1>1 DEF Init, Manifest, Row
<1>4. TypeOK
  BY <1>1, <1>2, <1>3, IdleIsCommand DEF Init, TypeOK
<1>5. \A o \in Operators : work[o].step = "idle"
  BY DEF Init, Idle
<1> QED
  BY <1>2, <1>4, <1>5 DEF Prepared

(* Every reachable state has its types, at most one release is active and  *)
(* an active one was issued: the row locks and the partial unique index of *)
(* ReleaseCapabilityBindings and RollbackCapabilityBindings see to it.     *)
THEOREM TypesHold == Spec => [](TypeOK /\ Prepared)
  BY TypesInit, TypesStep, PreparedStep, PTL DEF Spec

-----------------------------------------------------------------------------
(* What was issued has been decided, and stays so.                         *)

Decided(b) == proposal[b] \in {"accepted", "rejected"}
Settled == \A m \in issued : Mapped(m.bound) /\ \A b \in m.bound : Decided(b)

LEMMA DecisionsStay ==
  ASSUME TypeOK, Prepared, [Next]_vars, NEW b \in Bindings, Decided(b)
  PROVE  Decided(b)'
<1>1. CASE UNCHANGED proposal
  BY <1>1 DEF Decided
<1>2. ASSUME NEW r \in Revisions, MoveQuestion(r) PROVE Decided(b)'
  BY <1>1, <1>2 DEF MoveQuestion, review
<1>3. ASSUME NEW q \in Questions, ArchiveQuestion(q) PROVE Decided(b)'
  BY <1>1, <1>3 DEF ArchiveQuestion, review
<1>4. ASSUME NEW c \in Bindings, NEW decision \in {"accepted", "rejected"},
             DecideCapabilityBindingProposal(c, decision)
      PROVE  Decided(b)'
  BY <1>4 DEF DecideCapabilityBindingProposal, Decided, TypeOK
<1>5. ASSUME NEW c \in Bindings, RevokeCapabilityBindingProposal(c) PROVE Decided(b)'
  BY <1>5 DEF RevokeCapabilityBindingProposal, Decided, TypeOK
<1>6. ASSUME NEW o \in Operators, Reading(o) PROVE Decided(b)'
  BY <1>1, <1>6, ReadingMoves DEF Prepared, review
<1>7. ASSUME NEW o \in Operators, StoreProposals(o) PROVE Decided(b)'
  <2>1. proposal' = [c \in Bindings |->
           IF c \in work[o].manifest.bound THEN Staged(c) ELSE proposal[c]]
    BY <1>7 DEF StoreProposals
  <2>2. Staged(b) = proposal[b]
    BY DEF Staged, Decided
  <2>3. proposal'[b] = proposal[b]
    BY <2>1, <2>2
  <2> QED
    BY <2>3 DEF Decided
<1>8. ASSUME NEW o \in Operators, CommitRelease(o) PROVE Decided(b)'
  BY <1>8, ReleaseEffect DEF Accept, Decided
<1>9. ASSUME NEW o \in Operators, CommitRollback(o) PROVE Decided(b)'
  BY <1>1, <1>9, RollbackEffect DEF review
<1>11. ASSUME NEW cards \in SUBSET Revisions, ReleaseCurriculumMapping(cards) PROVE Decided(b)'
  BY <1>1, <1>11 DEF ReleaseCurriculumMapping, review
<1>10. CASE UNCHANGED vars
  BY <1>1, <1>10 DEF vars, review
<1> QED
  BY <1>2, <1>3, <1>4, <1>5, <1>6, <1>7, <1>8, <1>9, <1>10, <1>11, NextSplits

LEMMA IssuedGrows ==
  ASSUME TypeOK, Prepared, [Next]_vars
  PROVE  \/ UNCHANGED issued
         \/ \E o \in Operators : CommitRelease(o)
<1>1. ASSUME NEW o \in Operators, Reading(o) PROVE UNCHANGED issued
  BY <1>1, ReadingMoves DEF Prepared, releases
<1>2. ASSUME NEW o \in Operators, CommitRollback(o) PROVE UNCHANGED issued
  BY <1>2, RollbackEffect
<1>3. ASSUME NEW o \in Operators, StoreProposals(o) PROVE UNCHANGED issued
  BY <1>3 DEF StoreProposals, releases
<1> QED
  BY <1>1, <1>2, <1>3, NextSplits DEF MoveQuestion, ArchiveQuestion, ReleaseCurriculumMapping,
     DecideCapabilityBindingProposal, RevokeCapabilityBindingProposal, vars, releases

LEMMA SettledStep == TypeOK /\ Prepared /\ Settled /\ [Next]_vars => Settled'
<1> SUFFICES ASSUME TypeOK, Prepared, Settled, [Next]_vars,
                    NEW m \in issued'
             PROVE  (Mapped(m.bound) /\ \A b \in m.bound : Decided(b))'
  BY DEF Settled
<1>1. CASE m \in issued
  <2>1. Mapped(m.bound) /\ \A b \in m.bound : Decided(b)
    BY <1>1 DEF Settled
  <2>2. m.bound \subseteq Bindings
    BY <1>1 DEF TypeOK, Manifest
  <2>3. Mapped(m.bound)'
    BY <2>1, PastsGrow DEF Prepared
  <2>4. \A b \in m.bound : Decided(b)'
    BY <2>1, <2>2, DecisionsStay
  <2> QED
    BY <2>3, <2>4
<1>2. CASE m \notin issued
  <2>1. PICK o \in Operators : CommitRelease(o)
    BY <1>2, IssuedGrows
  <2>2. m = work[o].manifest /\ At(o, "retiring") /\ Accept(m)
    <3>1. PICK n \in Manifest : n = work[o].manifest /\ At(o, "retiring")
             /\ issued' = issued \cup {n} /\ Accept(n)
      BY <2>1, ReleaseEffect
    <3>2. m = n
      BY <1>2, <3>1
    <3> QED
      BY <3>1, <3>2
  <2>3. Mapped(m.bound)'
    BY <2>2, PastsGrow DEF Prepared, At
  <2>4. \A b \in m.bound : proposal'[b] = "accepted"
    <3>1. m.bound \subseteq Bindings
      BY <2>1, <2>2, WorkHas
    <3> QED
      BY <2>2, <3>1 DEF Accept
  <2> QED
    BY <2>3, <2>4 DEF Decided
<1> QED
  BY <1>1, <1>2

-----------------------------------------------------------------------------
(* The projection is one whole choice of the active release.               *)

Live == UNION {m.bound : m \in active}
Shown == {row.binding : row \in projection}
Mirrored ==
    /\ \A row \in projection : row.release \in active /\ row.binding \in row.release.bound
    /\ Shown \in Choices(Live)

(* Whatever is kept of the same release makes room for the new rows.       *)
LEMMA PlacedIsChoice ==
  ASSUME NEW m, NEW W \in Choices(m.bound), NEW kept,
         \A row \in kept : row.binding \in m.bound
  PROVE  Placed(kept, m, W) = {[binding |-> b, release |-> m] : b \in W}
<1>1. \A row \in kept : SlotOf[row.binding] \in Slots(W)
  BY DEF Choices, Slots
<1> QED
  BY <1>1 DEF Placed

LEMMA SwitchMirrors ==
  ASSUME NEW m, NEW W \in Choices(m.bound), active' = {m},
         projection' = {[binding |-> b, release |-> m] : b \in W}
  PROVE  Mirrored' /\ Live' = m.bound /\ Shown' = W
<1>1. Live' = m.bound
  BY DEF Live
<1>2. Shown' = W
  <2>1. \A row \in projection' : row.binding \in W
    OBVIOUS
  <2>2. ASSUME NEW b \in W PROVE b \in Shown'
    <3>1. [binding |-> b, release |-> m] \in projection'
      OBVIOUS
    <3> QED
      BY <3>1 DEF Shown
  <2> QED
    BY <2>1, <2>2 DEF Shown
<1>3. Shown' \in Choices(Live')
  BY <1>1, <1>2
<1>4. \A row \in projection' : row.release \in active' /\ row.binding \in row.release.bound
  BY DEF Choices
<1>5. Mirrored'
  BY <1>3, <1>4 DEF Mirrored, Choices, OnePerSlot, Slots
<1> QED
  BY <1>1, <1>2, <1>5

LEMMA MirroredStep ==
  ASSUME TypeOK, Prepared, Mirrored, [Next]_vars
  PROVE  /\ Mirrored'
         /\ \/ UNCHANGED <<Live, Shown>>
            \/ Live' \in SUBSET Bindings /\ Shown' \in Choices(Live')
<1>1. CASE UNCHANGED releases
  <2>1. UNCHANGED <<active, projection>>
    BY <1>1 DEF releases
  <2>2. UNCHANGED <<Live, Shown>>
    BY <2>1 DEF Live, Shown
  <2>3. Mirrored'
    BY <2>1, <2>2 DEF Mirrored, Choices, OnePerSlot, Slots
  <2> QED
    BY <2>2, <2>3
<1>2. ASSUME NEW o \in Operators, CommitRelease(o)
      PROVE  Mirrored' /\ Live' \in SUBSET Bindings /\ Shown' \in Choices(Live')
  <2>1. PICK m \in Manifest, kept \in SUBSET active :
            /\ kept \subseteq {m} /\ active' = {m}
            /\ \E W \in Choices(m.bound) :
                  projection' = Placed(Cleared(issued \ kept), m, W)
    BY <1>2, ReleaseEffect
  <2>2. PICK W \in Choices(m.bound) : projection' = Placed(Cleared(issued \ kept), m, W)
    BY <2>1
  <2>3. \A row \in Cleared(issued \ kept) : row.release = m /\ row.binding \in m.bound
    BY <2>1 DEF Cleared, Mirrored, TypeOK
  <2>4. projection' = {[binding |-> b, release |-> m] : b \in W}
    BY <2>2, <2>3, PlacedIsChoice
  <2>5. m.bound \in SUBSET Bindings
    BY DEF Manifest
  <2>6. Mirrored' /\ Live' = m.bound /\ Shown' = W
    BY <2>1, <2>4, SwitchMirrors
  <2> QED
    BY <2>5, <2>6
<1>3. ASSUME NEW o \in Operators, CommitRollback(o)
      PROVE  Mirrored' /\ Live' \in SUBSET Bindings /\ Shown' \in Choices(Live')
  <2>1. PICK m \in Manifest, previous \in SUBSET active :
            /\ active \ previous \subseteq {m}
            /\ OnePerSlot(m.bound)
            /\ active' = {m}
            /\ projection' = Placed(Cleared(previous), m, m.bound)
    BY <1>3, RollbackEffect
  <2>2. m.bound \in Choices(m.bound)
    BY <2>1 DEF Choices
  <2>3. \A row \in Cleared(previous) : row.release = m /\ row.binding \in m.bound
    BY <2>1 DEF Cleared, Mirrored
  <2>4. projection' = {[binding |-> b, release |-> m] : b \in m.bound}
    BY <2>1, <2>2, <2>3, PlacedIsChoice
  <2>5. m.bound \in SUBSET Bindings
    BY DEF Manifest
  <2>6. Mirrored' /\ Live' = m.bound /\ Shown' = m.bound
    BY <2>1, <2>2, <2>4, SwitchMirrors
  <2> QED
    BY <2>2, <2>5, <2>6
<1>4. ASSUME NEW o \in Operators, Reading(o) PROVE UNCHANGED releases
  BY <1>4, ReadingMoves DEF Prepared
<1>5. ASSUME NEW o \in Operators, StoreProposals(o) PROVE UNCHANGED releases
  BY <1>5 DEF StoreProposals
<1> QED
  BY <1>1, <1>2, <1>3, <1>4, <1>5, NextSplits DEF MoveQuestion, ArchiveQuestion, ReleaseCurriculumMapping,
     DecideCapabilityBindingProposal, RevokeCapabilityBindingProposal, vars

LEMMA InitSettled == Init => Settled /\ Mirrored /\ Learner!Init
<1> SUFFICES ASSUME Init PROVE Settled /\ Mirrored /\ Learner!Init
  OBVIOUS
<1> DEFINE B == UNION {m.bound : m \in issued}
<1>1. /\ issued = {} \/ \E m \in First : issued = {m}
      /\ active = issued
      /\ projection = UNION {{[binding |-> b, release |-> m] : b \in m.bound} : m \in issued}
  BY DEF Init
<1>2. Live = B /\ Shown = B
  <2>1. \A row \in projection : row.binding \in B
    BY <1>1
  <2>2. ASSUME NEW m \in issued, NEW b \in m.bound PROVE b \in Shown
    <3>1. [binding |-> b, release |-> m] \in projection
      BY <1>1
    <3> QED
      BY <3>1 DEF Shown
  <2> QED
    BY <1>1, <2>1, <2>2 DEF Live, Shown
<1>3. B \in SUBSET Bindings /\ B \in Choices(B)
  <2>1. OnePerSlot(B)
    BY <1>1, ConstantsAssumption DEF OnePerSlot
  <2>2. B \subseteq Bindings
    BY <1>1, ConstantsAssumption DEF Manifest
  <2> QED
    BY <2>1, <2>2 DEF Choices
<1>4. Settled
  <2> SUFFICES ASSUME NEW m \in issued
               PROVE  Mapped(m.bound) /\ \A b \in m.bound : Decided(b)
    BY DEF Settled
  <2>1. Mapped(m.bound)
    BY DEF Init, Mapped
  <2>2. ASSUME NEW b \in m.bound PROVE Decided(b)
    <3>1. b \in Bindings
      BY <1>3
    <3> QED
      BY <3>1 DEF Init, Decided
  <2> QED
    BY <2>1, <2>2
<1>5. Mirrored
  <2>1. \A row \in projection : row.release \in active /\ row.binding \in row.release.bound
    BY <1>1
  <2> QED
    BY <1>2, <1>3, <2>1 DEF Mirrored
<1> QED
  BY <1>2, <1>3, <1>4, <1>5 DEF Learner!Init, Learner!Choices, Learner!OnePerSlot,
     Learner!Slots, Choices, OnePerSlot, Slots, Live, Shown

(* For any number of commands and reviewers at once, only decided bindings *)
(* reach a learner: a release accepts what it binds, a decision is never   *)
(* taken back to proposed by staging, and every row belongs to an issued   *)
(* release.                                                                *)
THEOREM DecisionsHold == Spec => []ShownWasDecided
<1>1. TypeOK /\ Settled /\ Mirrored => ShownWasDecided
  BY DEF TypeOK, Settled, Mirrored, ShownWasDecided, Decided
<1> QED
  BY <1>1, TypesHold, InitSettled, SettledStep, MirroredStep, PTL DEF Spec

(* However often mapping releases rewrite the paths, before, between and   *)
(* after the statements of releases and rollbacks: what learners get lay   *)
(* on the paths of one past mapping, all of it.                            *)
THEOREM PathsHold == Spec => []ShownWasMapped
<1>1. TypeOK /\ Prepared /\ Settled /\ Mirrored => ShownWasMapped
  <2> SUFFICES ASSUME TypeOK, Prepared, Settled, Mirrored PROVE ShownWasMapped
    OBVIOUS
  <2>1. CASE projection = {}
    BY <2>1 DEF Prepared, ShownWasMapped
  <2>2. ASSUME NEW row \in projection PROVE ShownWasMapped
    <3>1. row.release \in active /\ row.release \in issued
      BY DEF Mirrored, TypeOK
    <3>2. PICK paths \in pasts : row.release.bound \subseteq Along(paths)
      BY <3>1 DEF Settled, Mapped
    <3>3. \A other \in projection : other.release = row.release
      BY <3>1 DEF Mirrored, TypeOK
    <3> QED
      BY <3>2, <3>3 DEF Mirrored, ShownWasMapped
  <2> QED
    BY <2>1, <2>2
<1> QED
  BY <1>1, TypesHold, InitSettled, SettledStep, MirroredStep, PTL DEF Spec

LEMMA StepSwitches ==
  ASSUME TypeOK, Prepared, Mirrored, [Next]_vars
  PROVE  [Learner!Switch]_(Learner!vars)
  BY MirroredStep DEF Learner!Switch, Learner!vars, Learner!Choices, Learner!OnePerSlot,
     Learner!Slots, Choices, OnePerSlot, Slots, Live, Shown

(* For any number of overlapping releases and rollbacks what learners get  *)
(* is a whole release, one binding for each of its stations.               *)
THEOREM ProjectionHolds == Spec => ImplementsProjection
  BY TypesHold, InitSettled, MirroredStep, StepSwitches, PTL
     DEF Spec, ImplementsProjection, Learner!Spec

-----------------------------------------------------------------------------
(* Renamed capabilities.                                                   *)


(* What a session that has materialised knows.                             *)
TxPrepared(s) ==
    LET p == tx[s].p
    IN  TxAt(s, "materialised") =>
          /\ tx[s].decision = "accepted"
          /\ tx[s].writes <=> FactOf(p) = None
          /\ p.action = "alias" => FactOf(p) \in {None, p.dst}

(* Two sessions never hold one row of the facts.                           *)
RowsExclusive ==
    \A s, t \in Sessions :
        /\ TxAt(s, "materialised") /\ TxAt(t, "materialised") /\ s # t
        => ~(tx[s].p.action = tx[t].p.action /\ tx[s].p.src = tx[t].p.src)

(* A proposal that is being created for the first time is still absent.    *)
CreatesHold ==
    /\ \A s \in Sessions : TxAt(s, "creating") /\ tx[s].writes => status[tx[s].p] = "absent"
    /\ \A s \in Sessions : TxAt(s, "deciding") => ~tx[s].writes

AliasInv ==
    /\ AliasTypeOK
    /\ \A s \in Sessions : TxPrepared(s)
    /\ RowsExclusive
    /\ CreatesHold
    /\ AcceptedIsResolved
    /\ FactsWereDecided

-----------------------------------------------------------------------------
LEMMA ProposalTyped ==
  ASSUME NEW p \in Proposals
  PROVE  p.action \in Kinds /\ p.src \in Keys /\ p.dst \in Capabilities /\ p.src # p.dst
  BY AliasesAssumption

LEMMA TxTyped ==
  ASSUME AliasTypeOK, NEW s \in Sessions, tx[s].step # "none"
  PROVE  /\ tx[s] \in OpenTx /\ tx[s] # NoTx /\ tx[s].p \in Proposals
         /\ tx[s].decision \in Decisions /\ tx[s].writes \in BOOLEAN
         /\ tx[s].step \in {"creating", "deciding", "materialised"}
<1>1. tx[s] \in OpenTx
  BY DEF AliasTypeOK, NoTx
<1> QED
  BY <1>1 DEF OpenTx, NoTx

LEMMA IdleTyped == NoTx \notin OpenTx /\ NoTx.step = "none"
  BY DEF NoTx, OpenTx

(* One fact is written, all others stay.                                   *)
LEMMA FactWritten ==
  ASSUME AliasTypeOK, NEW p \in Proposals,
         fact' = [fact EXCEPT ![p.action][p.src] = p.dst]
  PROVE  /\ fact' \in Facts
         /\ fact'[p.action][p.src] = p.dst
         /\ \A kind \in Kinds, k \in Keys :
               ~(kind = p.action /\ k = p.src) => fact'[kind][k] = fact[kind][k]
  BY ProposalTyped DEF AliasTypeOK, Facts

(* The outcome of a commit.                                                *)
LEMMA Committed ==
  ASSUME AliasInv, NEW s \in Sessions, CommitDecision(s)
  PROVE  LET p == tx[s].p
         IN  /\ p \in Proposals /\ tx[s].decision \in Decisions
             /\ status[p] = "proposed"
             /\ status' = [status EXCEPT ![p] = tx[s].decision]
             /\ \/ tx[s].decision = "rejected" /\ UNCHANGED fact
                \/ /\ tx[s].decision = "accepted" /\ TxAt(s, "materialised")
                   /\ \/ FactOf(p) # None /\ UNCHANGED fact
                      \/ /\ FactOf(p) = None
                         /\ fact' = [fact EXCEPT ![p.action][p.src] = p.dst]
<1>1. tx[s].step \in {"deciding", "materialised"}
  BY DEF CommitDecision
<1>2. /\ tx[s].p \in Proposals /\ tx[s].decision \in Decisions /\ tx[s] # NoTx
      /\ tx[s].writes \in BOOLEAN
  BY <1>1, TxTyped DEF AliasInv
<1>3. status[tx[s].p] = "proposed"
  BY <1>1 DEF AliasInv, AliasTypeOK
<1>4. CASE tx[s].decision = "accepted"
  <2>1. TxAt(s, "materialised")
    BY <1>2, <1>4 DEF CommitDecision, TxAt
  <2>2. tx[s].writes <=> FactOf(tx[s].p) = None
    BY <2>1 DEF AliasInv, TxPrepared
  <2> QED
    BY <1>2, <1>3, <1>4, <2>1, <2>2 DEF CommitDecision, FactAfter, StatusOnCommit
<1>5. CASE tx[s].decision = "rejected"
  <2>1. TxAt(s, "deciding")
    BY <1>2, <1>5 DEF CommitDecision, TxAt
  <2>2. ~tx[s].writes
    BY <2>1 DEF AliasInv, CreatesHold
  <2> QED
    BY <1>2, <1>3, <1>5, <2>2 DEF CommitDecision, FactAfter, StatusOnCommit
<1> QED
  BY <1>2, <1>4, <1>5 DEF Decisions

-----------------------------------------------------------------------------
LEMMA TxChanged ==
  ASSUME AliasTypeOK, NEW s \in Sessions, NEW X, tx' = [tx EXCEPT ![s] = X]
  PROVE  /\ tx'[s] = X
         /\ \A t \in Sessions : t # s => tx'[t] = tx[t]
         /\ X \in OpenTx \cup {NoTx} => tx' \in [Sessions -> OpenTx \cup {NoTx}]
  BY DEF AliasTypeOK

LEMMA AliasInitHolds == AliasInit => AliasInv
<1> SUFFICES ASSUME AliasInit PROVE AliasInv
  OBVIOUS
<1> USE DEF AliasInit
<1>1. \A s \in Sessions : tx[s] = NoTx /\ tx[s].step = "none"
  BY DEF NoTx
<1>2. AliasTypeOK
  BY <1>1, AliasesAssumption DEF AliasTypeOK, Decides
<1>3. (\A s \in Sessions : TxPrepared(s)) /\ RowsExclusive /\ CreatesHold
  BY <1>1 DEF TxPrepared, RowsExclusive, CreatesHold, TxAt
<1>4. AcceptedIsResolved /\ FactsWereDecided
  BY DEF AcceptedIsResolved, FactsWereDecided
<1> QED
  BY <1>2, <1>3, <1>4 DEF AliasInv

(* Steps that leave the decisions and the facts alone.                     *)
LEMMA NothingWritten ==
  ASSUME AliasInv, UNCHANGED <<status, fact>>
  PROVE  AcceptedIsResolved' /\ FactsWereDecided'
  BY DEF AliasInv, AcceptedIsResolved, FactsWereDecided, FactOf

LEMMA CreateProposalKeeps ==
  ASSUME AliasInv, NEW s \in Sessions, NEW p \in Proposals, CreateProposal(s, p)
  PROVE  AliasInv'
<1> DEFINE X == [step |-> "creating", p |-> p, decision |-> "rejected",
                 writes |-> status[p] = "absent"]
<1>1. X \in OpenTx /\ X.step = "creating" /\ X.p = p
  BY DEF OpenTx, Decisions
<1>w. X.writes => status[p] = "absent"
  OBVIOUS
<1>2. /\ tx'[s] = X /\ \A t \in Sessions : t # s => tx'[t] = tx[t]
      /\ tx' \in [Sessions -> OpenTx \cup {NoTx}]
  BY <1>1, TxChanged DEF CreateProposal, AliasInv
<1>3. UNCHANGED <<status, fact, overlapped>>
  BY DEF CreateProposal
<1> HIDE DEF X
<1>4. AliasTypeOK'
  BY <1>1, <1>2, <1>3 DEF AliasInv, AliasTypeOK, Decides
<1>5. (\A t \in Sessions : TxPrepared(t))'
  BY <1>1, <1>2, <1>3 DEF AliasInv, TxPrepared, TxAt, FactOf
<1>6. RowsExclusive'
  BY <1>1, <1>2 DEF AliasInv, RowsExclusive, TxAt
<1>7. CreatesHold'
  BY <1>1, <1>w, <1>2, <1>3 DEF AliasInv, CreatesHold, TxAt
<1> QED
  BY <1>3, <1>4, <1>5, <1>6, <1>7, NothingWritten DEF AliasInv

LEMMA CommitCreateKeeps ==
  ASSUME AliasInv, NEW s \in Sessions, CommitCreate(s)
  PROVE  AliasInv'
<1> DEFINE p == tx[s].p
<1>1. /\ p \in Proposals /\ tx[s].writes \in BOOLEAN /\ tx[s].step = "creating"
  BY TxTyped DEF AliasInv, CommitCreate, TxAt
<1>2. tx'[s] = NoTx /\ (\A t \in Sessions : t # s => tx'[t] = tx[t])
      /\ tx' \in [Sessions -> OpenTx \cup {NoTx}]
  BY TxChanged DEF CommitCreate, AliasInv
<1>3. UNCHANGED <<fact, overlapped>>
  BY DEF CommitCreate
<1>4. status' = [status EXCEPT ![p] = StatusOnCreate(s, p)]
  BY DEF CommitCreate
<1>5. tx[s].writes => status[p] = "absent"
  BY <1>1 DEF AliasInv, CreatesHold, TxAt
<1>6. \A q \in Proposals : \/ status'[q] = status[q]
                           \/ q = p /\ status[q] = "absent" /\ status'[q] = "proposed"
  BY <1>1, <1>4, <1>5 DEF StatusOnCreate, AliasInv, AliasTypeOK
<1>7. status' \in [Proposals -> {"absent", "proposed", "accepted", "rejected"}]
  BY <1>1, <1>4, <1>6 DEF AliasInv, AliasTypeOK
<1>8. \A t \in Sessions \ {s} : ~(TxAt(t, "creating") /\ tx[t].p = p)
  BY <1>1 DEF CommitCreate, WorkspaceFree, Creates
<1>9. AliasTypeOK'
  <2>1. ASSUME NEW t \in Sessions, (tx[t].step \in {"deciding", "materialised"})'
        PROVE  (status[tx[t].p] = "proposed")'
    <3>1. t # s /\ tx'[t] = tx[t] /\ tx[t].step # "none"
      BY <2>1, <1>2, IdleTyped
    <3>2. tx[t].p \in Proposals /\ status[tx[t].p] = "proposed"
      BY <2>1, <3>1, TxTyped DEF AliasInv, AliasTypeOK
    <3> QED
      BY <3>1, <3>2, <1>6
  <2>2. \A t, u \in Sessions, q \in Proposals :
           (Decides(t, q.ws) /\ Decides(u, q.ws))' => t = u
    BY <1>2, IdleTyped DEF AliasInv, AliasTypeOK, Decides
  <2> QED
    BY <1>2, <1>3, <1>7, <2>1, <2>2 DEF AliasInv, AliasTypeOK
<1>10. (\A t \in Sessions : TxPrepared(t))'
  BY <1>2, <1>3, IdleTyped DEF AliasInv, TxPrepared, TxAt, FactOf
<1>11. RowsExclusive'
  BY <1>2, IdleTyped DEF AliasInv, RowsExclusive, TxAt
<1>12. CreatesHold'
  <2>1. ASSUME NEW t \in Sessions, (TxAt(t, "creating") /\ tx[t].writes)'
        PROVE  (status[tx[t].p] = "absent")'
    <3>1. t # s /\ tx'[t] = tx[t] /\ tx[t].step = "creating"
      BY <2>1, <1>2, IdleTyped DEF TxAt
    <3>2. tx[t].p \in Proposals /\ status[tx[t].p] = "absent"
      BY <2>1, <3>1, TxTyped DEF AliasInv, CreatesHold, TxAt
    <3>3. tx[t].p # p
      BY <1>8, <3>1 DEF TxAt
    <3> QED
      BY <3>1, <3>2, <3>3, <1>6
  <2>2. \A t \in Sessions : TxAt(t, "deciding")' => ~tx'[t].writes
    BY <1>2, IdleTyped DEF AliasInv, CreatesHold, TxAt
  <2> QED
    BY <2>1, <2>2 DEF CreatesHold
<1>13. AcceptedIsResolved' /\ FactsWereDecided'
  <2>1. AcceptedIsResolved'
    BY <1>3, <1>6 DEF AliasInv, AcceptedIsResolved, FactOf
  <2>2. FactsWereDecided'
    BY <1>3, <1>6 DEF AliasInv, FactsWereDecided
  <2> QED
    BY <2>1, <2>2
<1> QED
  BY <1>9, <1>10, <1>11, <1>12, <1>13 DEF AliasInv

LEMMA LockForDecisionKeeps ==
  ASSUME AliasInv, NEW s \in Sessions, NEW p \in Proposals, NEW decision \in Decisions,
         LockForDecision(s, p, decision)
  PROVE  AliasInv'
<1> DEFINE X == [step |-> "deciding", p |-> p, decision |-> decision, writes |-> FALSE]
<1>1. X \in OpenTx /\ X.step = "deciding" /\ X.p = p /\ ~X.writes
  BY DEF OpenTx
<1>2. /\ tx'[s] = X /\ \A t \in Sessions : t # s => tx'[t] = tx[t]
      /\ tx' \in [Sessions -> OpenTx \cup {NoTx}]
  BY <1>1, TxChanged DEF LockForDecision, AliasInv
<1>3. UNCHANGED <<status, fact>> /\ status[p] = "proposed" /\ WorkspaceFree(s, p)
  BY DEF LockForDecision
<1>3a. overlapped' \in BOOLEAN
  BY DEF LockForDecision
<1> HIDE DEF X
<1>4. AliasTypeOK'
  <2>1. \A t, u \in Sessions, q \in Proposals :
           (Decides(t, q.ws) /\ Decides(u, q.ws))' => t = u
    BY <1>1, <1>2, <1>3 DEF AliasInv, AliasTypeOK, Decides, WorkspaceFree
  <2>2. \A t \in Sessions : (tx[t].step \in {"deciding", "materialised"})'
                            => (status[tx[t].p] = "proposed")'
    BY <1>1, <1>2, <1>3 DEF AliasInv, AliasTypeOK
  <2> QED
    BY <1>2, <1>3, <1>3a, <2>1, <2>2 DEF AliasInv, AliasTypeOK
<1>5. (\A t \in Sessions : TxPrepared(t))'
  BY <1>1, <1>2, <1>3 DEF AliasInv, TxPrepared, TxAt, FactOf
<1>6. RowsExclusive'
  BY <1>1, <1>2 DEF AliasInv, RowsExclusive, TxAt
<1>7. CreatesHold'
  BY <1>1, <1>2, <1>3 DEF AliasInv, CreatesHold, TxAt
<1> QED
  BY <1>3, <1>4, <1>5, <1>6, <1>7, NothingWritten DEF AliasInv

LEMMA MaterializeKeeps ==
  ASSUME AliasInv, NEW s \in Sessions, Materialize(s)
  PROVE  AliasInv'
<1> DEFINE p == tx[s].p
           X == [tx[s] EXCEPT !.step = "materialised", !.writes = FactOf(p) = None]
<1>1. /\ p \in Proposals /\ tx[s] \in OpenTx /\ tx[s].step = "deciding"
      /\ tx[s].decision = "accepted"
  BY TxTyped DEF AliasInv, Materialize, TxAt
<1>2. /\ X \in OpenTx /\ X.step = "materialised" /\ X.p = p
      /\ X.decision = "accepted"
  BY <1>1 DEF OpenTx
<1>3. X.writes <=> FactOf(p) = None
  BY <1>1 DEF OpenTx
<1>4. tx' = [tx EXCEPT ![s] = X]
  BY DEF Materialize
<1>5. /\ tx'[s] = X /\ \A t \in Sessions : t # s => tx'[t] = tx[t]
      /\ tx' \in [Sessions -> OpenTx \cup {NoTx}]
  BY <1>2, <1>4, TxChanged DEF AliasInv
<1>6. UNCHANGED <<status, fact, overlapped>>
  BY DEF Materialize
<1>7. p.action = "alias" => FactOf(p) \in {None, p.dst}
  BY DEF Materialize, MayMaterialize
<1>8. \A t \in Sessions : ~(/\ TxAt(t, "materialised")
                            /\ tx[t].p.action = p.action /\ tx[t].p.src = p.src)
  BY DEF Materialize
<1>9. \A t \in Sessions : Decides(t, p.ws) => t = s
  BY <1>1 DEF AliasInv, AliasTypeOK, Decides
<1>10. status[p] = "proposed"
  BY <1>1 DEF AliasInv, AliasTypeOK
<1> HIDE DEF X, p
<1>11. AliasTypeOK'
  <2>1. \A t, u \in Sessions, q \in Proposals :
           (Decides(t, q.ws) /\ Decides(u, q.ws))' => t = u
    <3>1. \A t \in Sessions, q \in Proposals : Decides(t, q.ws)' => Decides(t, q.ws)
      BY <1>1, <1>2, <1>5 DEF Decides, p
    <3> QED
      BY <3>1 DEF AliasInv, AliasTypeOK
  <2>2. \A t \in Sessions : (tx[t].step \in {"deciding", "materialised"})'
                            => (status[tx[t].p] = "proposed")'
    BY <1>2, <1>5, <1>6, <1>10 DEF AliasInv, AliasTypeOK
  <2> QED
    BY <1>5, <1>6, <2>1, <2>2 DEF AliasInv, AliasTypeOK
<1>12. (\A t \in Sessions : TxPrepared(t))'
  BY <1>2, <1>3, <1>5, <1>6, <1>7 DEF AliasInv, TxPrepared, TxAt, FactOf
<1>13. RowsExclusive'
  BY <1>2, <1>5, <1>8 DEF AliasInv, RowsExclusive, TxAt
<1>14. CreatesHold'
  BY <1>2, <1>5, <1>6 DEF AliasInv, CreatesHold, TxAt
<1> QED
  BY <1>6, <1>11, <1>12, <1>13, <1>14, NothingWritten DEF AliasInv

LEMMA AbortKeeps ==
  ASSUME AliasInv, NEW s \in Sessions, Abort(s)
  PROVE  AliasInv'
<1>1. /\ tx'[s] = NoTx /\ \A t \in Sessions : t # s => tx'[t] = tx[t]
      /\ tx' \in [Sessions -> OpenTx \cup {NoTx}]
  BY TxChanged DEF Abort, AliasInv
<1>2. UNCHANGED <<status, fact, overlapped>>
  BY DEF Abort
<1>3. AliasTypeOK'
  BY <1>1, <1>2, IdleTyped DEF AliasInv, AliasTypeOK, Decides
<1>4. ((\A t \in Sessions : TxPrepared(t)) /\ RowsExclusive /\ CreatesHold)'
  BY <1>1, <1>2, IdleTyped DEF AliasInv, TxPrepared, RowsExclusive, CreatesHold, TxAt, FactOf
<1> QED
  BY <1>2, <1>3, <1>4, NothingWritten DEF AliasInv

LEMMA CommitDecisionKeeps ==
  ASSUME AliasInv, NEW s \in Sessions, CommitDecision(s)
  PROVE  AliasInv'
<1> DEFINE p == tx[s].p
<1>1. /\ p \in Proposals /\ tx[s].decision \in Decisions /\ status[p] = "proposed"
      /\ status' = [status EXCEPT ![p] = tx[s].decision]
      /\ \/ tx[s].decision = "rejected" /\ UNCHANGED fact
         \/ /\ tx[s].decision = "accepted" /\ TxAt(s, "materialised")
            /\ \/ FactOf(p) # None /\ UNCHANGED fact
               \/ /\ FactOf(p) = None
                  /\ fact' = [fact EXCEPT ![p.action][p.src] = p.dst]
  BY Committed
<1>2. /\ tx'[s] = NoTx /\ \A t \in Sessions : t # s => tx'[t] = tx[t]
      /\ tx' \in [Sessions -> OpenTx \cup {NoTx}]
  BY TxChanged DEF CommitDecision, AliasInv
<1>3. UNCHANGED overlapped /\ tx[s].step \in {"deciding", "materialised"}
  BY DEF CommitDecision
<1>4. /\ status'[p] = tx[s].decision
      /\ \A q \in Proposals : q # p => status'[q] = status[q]
      /\ status' \in [Proposals -> {"absent", "proposed", "accepted", "rejected"}]
  BY <1>1 DEF AliasInv, AliasTypeOK, Decisions
<1>5. p.action \in Kinds /\ p.src \in Keys /\ p.dst \in Capabilities /\ p.dst # None
  BY <1>1, ProposalTyped, AliasesAssumption
<1>6. /\ fact' \in Facts
      /\ \A kind \in Kinds, k \in Keys :
            fact'[kind][k] # fact[kind][k] =>
               /\ kind = p.action /\ k = p.src /\ fact[kind][k] = None
               /\ fact'[kind][k] = p.dst
               /\ tx[s].decision = "accepted" /\ TxAt(s, "materialised")
  <2>1. CASE UNCHANGED fact
    BY <2>1 DEF AliasInv, AliasTypeOK
  <2>2. CASE fact' = [fact EXCEPT ![p.action][p.src] = p.dst]
    BY <1>1, <2>2, FactWritten DEF AliasInv, FactOf
  <2> QED
    BY <1>1, <2>1, <2>2
<1>7. tx[s].decision = "accepted" =>
         /\ fact'[p.action][p.src] # None
         /\ p.action = "alias" => fact'[p.action][p.src] = p.dst
  <2> SUFFICES ASSUME tx[s].decision = "accepted"
               PROVE  /\ fact'[p.action][p.src] # None
                      /\ p.action = "alias" => fact'[p.action][p.src] = p.dst
    OBVIOUS
  <2>1. TxAt(s, "materialised") /\ (p.action = "alias" => FactOf(p) \in {None, p.dst})
    BY <1>1 DEF AliasInv, TxPrepared
  <2>2. CASE FactOf(p) # None /\ UNCHANGED fact
    BY <2>1, <2>2 DEF FactOf
  <2>3. CASE fact' = [fact EXCEPT ![p.action][p.src] = p.dst]
    <3>1. fact'[p.action][p.src] = p.dst
      BY <1>1, <2>3, FactWritten DEF AliasInv
    <3> QED
      BY <1>5, <3>1
  <2> QED
    BY <1>1, <2>2, <2>3
<1>8. \A t \in Sessions \ {s} : ~(tx[t].step \in {"deciding", "materialised"}
                                 /\ tx[t].p = p)
  BY <1>1, <1>3 DEF AliasInv, AliasTypeOK, Decides
<1> HIDE DEF p
<1>9. AliasTypeOK'
  <2>1. ASSUME NEW t \in Sessions, (tx[t].step \in {"deciding", "materialised"})'
        PROVE  (status[tx[t].p] = "proposed")'
    <3>1. t # s /\ tx'[t] = tx[t] /\ tx[t].step # "none"
      BY <2>1, <1>2, IdleTyped
    <3>2. tx[t].p \in Proposals /\ status[tx[t].p] = "proposed"
      BY <2>1, <3>1, TxTyped DEF AliasInv, AliasTypeOK
    <3> QED
      BY <2>1, <3>1, <3>2, <1>4, <1>8
  <2>2. \A t, u \in Sessions, q \in Proposals :
           (Decides(t, q.ws) /\ Decides(u, q.ws))' => t = u
    BY <1>2, IdleTyped DEF AliasInv, AliasTypeOK, Decides
  <2> QED
    BY <1>2, <1>3, <1>4, <1>6, <2>1, <2>2 DEF AliasInv, AliasTypeOK
<1>10. (\A t \in Sessions : TxPrepared(t))'
  <2> SUFFICES ASSUME NEW t \in Sessions, TxAt(t, "materialised")'
               PROVE  TxPrepared(t)'
    BY DEF TxPrepared
  <2>1. t # s /\ tx'[t] = tx[t] /\ TxAt(t, "materialised")
    BY <1>2, IdleTyped DEF TxAt
  <2>2. tx[t].p \in Proposals /\ TxPrepared(t)
    BY <2>1, TxTyped DEF AliasInv, TxAt
  <2>3. tx[t].p.action \in Kinds /\ tx[t].p.src \in Keys
    BY <2>2, ProposalTyped
  <2>4. fact'[tx[t].p.action][tx[t].p.src] = fact[tx[t].p.action][tx[t].p.src]
    <3> SUFFICES ASSUME fact'[tx[t].p.action][tx[t].p.src] # fact[tx[t].p.action][tx[t].p.src]
                 PROVE  FALSE
      OBVIOUS
    <3>1. TxAt(s, "materialised") /\ tx[t].p.action = p.action /\ tx[t].p.src = p.src
      BY <1>6, <2>3
    <3> QED
      BY <2>1, <3>1 DEF AliasInv, RowsExclusive, p
  <2> QED
    BY <2>1, <2>2, <2>4 DEF TxPrepared, TxAt, FactOf
<1>11. RowsExclusive'
  BY <1>2, IdleTyped DEF AliasInv, RowsExclusive, TxAt
<1>12. CreatesHold'
  <2>1. ASSUME NEW t \in Sessions, (TxAt(t, "creating") /\ tx[t].writes)'
        PROVE  (status[tx[t].p] = "absent")'
    <3>1. t # s /\ tx'[t] = tx[t] /\ tx[t].step = "creating"
      BY <2>1, <1>2, IdleTyped DEF TxAt
    <3>2. tx[t].p \in Proposals /\ status[tx[t].p] = "absent"
      BY <2>1, <3>1, TxTyped DEF AliasInv, CreatesHold, TxAt
    <3> QED
      BY <1>1, <1>4, <3>1, <3>2 DEF p
  <2>2. \A t \in Sessions : TxAt(t, "deciding")' => ~tx'[t].writes
    BY <1>2, IdleTyped DEF AliasInv, CreatesHold, TxAt
  <2> QED
    BY <2>1, <2>2 DEF CreatesHold
<1>13. AcceptedIsResolved'
  <2> SUFFICES ASSUME NEW q \in Proposals, status'[q] = "accepted"
               PROVE  FactOf(q)' # None /\ (q.action = "alias" => FactOf(q)' = q.dst)
    BY DEF AcceptedIsResolved
  <2>1. CASE q = p
    BY <1>4, <1>7, <2>1 DEF FactOf
  <2>2. CASE q # p
    <3>1. FactOf(q) # None /\ (q.action = "alias" => FactOf(q) = q.dst)
      BY <1>4, <2>2 DEF AliasInv, AcceptedIsResolved
    <3>2. fact'[q.action][q.src] = fact[q.action][q.src]
      BY <1>6, <3>1, ProposalTyped DEF FactOf
    <3> QED
      BY <3>1, <3>2 DEF FactOf
  <2> QED
    BY <2>1, <2>2
<1>14. FactsWereDecided'
  <2> SUFFICES ASSUME NEW kind \in Kinds, NEW k \in Keys, fact'[kind][k] # Seed[kind][k]
               PROVE  \E q \in Proposals : /\ status'[q] = "accepted"
                                           /\ q.action = kind /\ q.src = k
                                           /\ q.dst = fact'[kind][k]
    BY DEF FactsWereDecided
  <2>1. CASE fact'[kind][k] = fact[kind][k]
    <3>1. PICK q \in Proposals : /\ status[q] = "accepted" /\ q.action = kind
                                /\ q.src = k /\ q.dst = fact[kind][k]
      BY <2>1 DEF AliasInv, FactsWereDecided
    <3>2. q # p
      BY <1>1, <3>1 DEF p
    <3> QED
      BY <1>4, <2>1, <3>1, <3>2
  <2>2. CASE fact'[kind][k] # fact[kind][k]
    BY <1>1, <1>4, <1>6, <2>2 DEF p
  <2> QED
    BY <2>1, <2>2
<1> QED
  BY <1>9, <1>10, <1>11, <1>12, <1>13, <1>14 DEF AliasInv

LEMMA AliasStepKeeps == AliasInv /\ [AliasNext]_aliasVars => AliasInv'
<1> SUFFICES ASSUME AliasInv, [AliasNext]_aliasVars PROVE AliasInv'
  OBVIOUS
<1>1. CASE UNCHANGED aliasVars
  <2> USE <1>1 DEF aliasVars
  <2>1. AliasTypeOK'
    BY DEF AliasInv, AliasTypeOK, Decides
  <2>2. ((\A s \in Sessions : TxPrepared(s)) /\ RowsExclusive /\ CreatesHold)'
    BY DEF AliasInv, TxPrepared, RowsExclusive, CreatesHold, TxAt, FactOf
  <2> QED
    BY <2>1, <2>2, NothingWritten DEF AliasInv
<1>2. ASSUME NEW s \in Sessions, NEW p \in Proposals, CreateProposal(s, p) PROVE AliasInv'
  BY <1>2, CreateProposalKeeps
<1>3. ASSUME NEW s \in Sessions, CommitCreate(s) PROVE AliasInv'
  BY <1>3, CommitCreateKeeps
<1>4. ASSUME NEW s \in Sessions, NEW p \in Proposals, NEW decision \in Decisions,
             LockForDecision(s, p, decision)
      PROVE  AliasInv'
  BY <1>4, LockForDecisionKeeps
<1>5. ASSUME NEW s \in Sessions, Materialize(s) PROVE AliasInv'
  BY <1>5, MaterializeKeeps
<1>6. ASSUME NEW s \in Sessions, CommitDecision(s) PROVE AliasInv'
  BY <1>6, CommitDecisionKeeps
<1>7. ASSUME NEW s \in Sessions, Abort(s) PROVE AliasInv'
  BY <1>7, AbortKeeps
<1> QED
  BY <1>1, <1>2, <1>3, <1>4, <1>5, <1>6, <1>7 DEF AliasNext

LEMMA AliasInvHolds == AliasSpec => []AliasInv
  BY AliasInitHolds, AliasStepKeeps, PTL DEF AliasSpec

(* Two decisions of one workspace are never open together, and what they   *)
(* decide is still undecided (scan...ForUpdate locks both rows).           *)
THEOREM AliasTypesHold == AliasSpec => []AliasTypeOK
<1>1. AliasInv => AliasTypeOK
  BY DEF AliasInv
<1> QED
  BY AliasInvHolds, <1>1, PTL

(* An accepted proposal always resolves: its fact is materialised in the   *)
(* transaction that accepts it, or refuses to be (read back after "on      *)
(* conflict do nothing").                                                  *)
THEOREM AliasesResolve == AliasSpec => []AcceptedIsResolved
<1>1. AliasInv => AcceptedIsResolved
  BY DEF AliasInv
<1> QED
  BY AliasInvHolds, <1>1, PTL

(* A fact that the migration did not insert was accepted: materialise...   *)
(* and the update of the status commit together.                           *)
THEOREM FactsHold == AliasSpec => []FactsWereDecided
<1>1. AliasInv => FactsWereDecided
  BY DEF AliasInv
<1> QED
  BY AliasInvHolds, <1>1, PTL

-----------------------------------------------------------------------------
(* What a step may change: nothing decided and no existing fact.           *)
LEMMA FactsForward ==
  ASSUME AliasInv, [AliasNext]_aliasVars
  PROVE  /\ \A kind \in Kinds, k \in Keys :
              fact[kind][k] # None => fact'[kind][k] = fact[kind][k]
         /\ \A p \in Proposals : status[p] \in Decisions => status'[p] = status[p]
<1> DEFINE Goal == /\ \A kind \in Kinds, k \in Keys :
                         fact[kind][k] # None => fact'[kind][k] = fact[kind][k]
                   /\ \A p \in Proposals : status[p] \in Decisions => status'[p] = status[p]
<1>1. CASE UNCHANGED <<status, fact>>
  BY <1>1
<1>2. ASSUME NEW s \in Sessions, CommitCreate(s) PROVE Goal
  <2>1. tx[s].p \in Proposals /\ (tx[s].writes => status[tx[s].p] = "absent")
    BY <1>2, TxTyped DEF CommitCreate, AliasInv, CreatesHold, TxAt
  <2>2. status' = [status EXCEPT ![tx[s].p] = StatusOnCreate(s, tx[s].p)] /\ UNCHANGED fact
    BY <1>2 DEF CommitCreate
  <2> QED
    BY <2>1, <2>2 DEF StatusOnCreate, AliasInv, AliasTypeOK, Decisions
<1>3. ASSUME NEW s \in Sessions, CommitDecision(s) PROVE Goal
  <2> DEFINE p == tx[s].p
  <2>1. /\ p \in Proposals /\ status[p] = "proposed"
        /\ status' = [status EXCEPT ![p] = tx[s].decision]
        /\ \/ UNCHANGED fact
           \/ /\ FactOf(p) = None
              /\ fact' = [fact EXCEPT ![p.action][p.src] = p.dst]
    BY <1>3, Committed
  <2> HIDE DEF p
  <2>2. \A q \in Proposals : status[q] \in Decisions => status'[q] = status[q]
    BY <2>1 DEF AliasInv, AliasTypeOK, Decisions
  <2>3. \A kind \in Kinds, k \in Keys :
           fact[kind][k] # None => fact'[kind][k] = fact[kind][k]
    BY <2>1, FactWritten DEF AliasInv, FactOf
  <2> QED
    BY <2>2, <2>3
<1>4. CASE UNCHANGED aliasVars
  BY <1>1, <1>4 DEF aliasVars
<1> QED
  BY <1>1, <1>2, <1>3, <1>4
     DEF AliasNext, CreateProposal, LockForDecision, Materialize, Abort

(* Neither the resolution of a key nor a decision ever changes (on         *)
(* conflict do nothing; only a status "proposed" is decided).              *)
THEOREM HistoryHolds == AliasSpec => HistoryStands
<1>1. AliasInv /\ [AliasNext]_aliasVars =>
        [/\ \A kind \in Kinds, k \in Keys :
              fact[kind][k] # None => fact'[kind][k] = fact[kind][k]
         /\ \A p \in Proposals :
              status[p] \in Decisions => status'[p] = status[p]]_aliasVars
  BY FactsForward
<1> QED
  BY AliasInvHolds, <1>1, PTL DEF AliasSpec, HistoryStands

-----------------------------------------------------------------------------
(* A supersession that the trigger let through closes no cycle: a new      *)
(* cycle would go through its canonical key, and everything that key leads *)
(* to was seen without the superseded key.                                 *)
LEMMA CheckedEdge ==
  ASSUME AliasTypeOK, NEW p \in Proposals, p.action = "supersedes",
         Acyclic(fact["supersedes"]), ClosesNoCycle(p),
         fact' = [fact EXCEPT ![p.action][p.src] = p.dst]
  PROVE  Acyclic(fact'["supersedes"])
<1> DEFINE next == fact["supersedes"]
           after == fact'["supersedes"]
<1>1. /\ "supersedes" \in Kinds /\ p.src \in Keys /\ p.dst \in Keys
      /\ after[p.src] = p.dst
      /\ \A k \in Keys : k # p.src => after[k] = next[k]
  BY ProposalTyped, FactWritten, AliasesAssumption DEF Kinds
<1>2. SUFFICES ASSUME NEW T \in SUBSET Keys, T # {}, \A k \in T : after[k] \in T
               PROVE  FALSE
  BY DEF Acyclic
<1>3. PICK S \in SUBSET Keys : /\ p.dst \in S /\ p.src \notin S
                             /\ \A k \in S : next[k] \in S \cup {None}
  BY DEF ClosesNoCycle
<1>4. None \notin Keys
  BY AliasesAssumption
<1>5. CASE p.src \notin T
  <2>1. \A k \in T : next[k] \in T
    BY <1>1, <1>2, <1>5
  <2> QED
    BY <2>1, <1>2 DEF Acyclic
<1>6. CASE p.src \in T
  <2>1. p.dst \in T
    BY <1>1, <1>2, <1>6
  <2>2. \A k \in T \cap S : next[k] \in T \cap S
    BY <1>1, <1>2, <1>3, <1>4
  <2>3. T \cap S # {} /\ T \cap S \in SUBSET Keys
    BY <2>1, <1>3
  <2> QED
    BY <2>2, <2>3 DEF Acyclic
<1> QED
  BY <1>5, <1>6

(* As long as acceptances did not overlap, there is at most one, and what  *)
(* the trigger saw for it is still so.                                     *)
CheckStillGood ==
    ~overlapped =>
        /\ \A s, t \in Sessions : OpenAcceptance(s) /\ OpenAcceptance(t) => s = t
        /\ \A s \in Sessions : TxAt(s, "materialised") /\ OpenAcceptance(s)
                               => ClosesNoCycle(tx[s].p)
        /\ Acyclic(fact["supersedes"])

LEMMA InitChecked == AliasInit => CheckStillGood
<1> SUFFICES ASSUME AliasInit PROVE CheckStillGood
  OBVIOUS
<1>1. \A s \in Sessions : tx[s].step = "none"
  BY DEF AliasInit, NoTx
<1>2. Acyclic(fact["supersedes"])
  BY AliasesAssumption DEF AliasInit
<1> QED
  BY <1>1, <1>2 DEF CheckStillGood, OpenAcceptance, TxAt

(* A step after which a session has no open acceptance, or the one it had, *)
(* and that leaves the facts alone.                                        *)
LEMMA NoNewAcceptance ==
  ASSUME CheckStillGood, UNCHANGED <<fact, overlapped>>,
         \A t \in Sessions : OpenAcceptance(t)' =>
             /\ OpenAcceptance(t) /\ tx'[t].p = tx[t].p
             /\ TxAt(t, "materialised")' => TxAt(t, "materialised") \/ ClosesNoCycle(tx[t].p)
  PROVE  CheckStillGood'
<1>1. \A p : ClosesNoCycle(p)' <=> ClosesNoCycle(p)
  BY DEF ClosesNoCycle
<1> QED
  BY <1>1 DEF CheckStillGood

LEMMA StepChecked == AliasInv /\ CheckStillGood /\ [AliasNext]_aliasVars => CheckStillGood'
<1> SUFFICES ASSUME AliasInv, CheckStillGood, [AliasNext]_aliasVars PROVE CheckStillGood'
  OBVIOUS
<1>1. CASE UNCHANGED aliasVars
  BY <1>1, NoNewAcceptance DEF aliasVars, OpenAcceptance, TxAt
<1>2. ASSUME NEW s \in Sessions, NEW p \in Proposals, CreateProposal(s, p)
      PROVE  CheckStillGood'
  <2> DEFINE X == [step |-> "creating", p |-> p, decision |-> "rejected",
                   writes |-> status[p] = "absent"]
  <2>0. tx' = [tx EXCEPT ![s] = X] /\ X.step = "creating"
    BY <1>2 DEF CreateProposal
  <2> HIDE DEF X
  <2>1. tx'[s].step = "creating" /\ \A t \in Sessions : t # s => tx'[t] = tx[t]
    BY <2>0, TxChanged DEF AliasInv
  <2>2. UNCHANGED <<fact, overlapped>>
    BY <1>2 DEF CreateProposal
  <2> QED
    BY <2>1, <2>2, NoNewAcceptance DEF OpenAcceptance, TxAt
<1>3. ASSUME NEW s \in Sessions, CommitCreate(s) \/ Abort(s)
      PROVE  CheckStillGood'
  <2>1. tx'[s].step = "none" /\ \A t \in Sessions : t # s => tx'[t] = tx[t]
    BY <1>3, TxChanged, IdleTyped DEF CommitCreate, Abort, AliasInv
  <2>2. UNCHANGED <<fact, overlapped>>
    BY <1>3 DEF CommitCreate, Abort
  <2> QED
    BY <2>1, <2>2, NoNewAcceptance DEF OpenAcceptance, TxAt
<1>4. ASSUME NEW s \in Sessions, NEW p \in Proposals, NEW decision \in Decisions,
             LockForDecision(s, p, decision)
      PROVE  CheckStillGood'
  <2>1. /\ tx'[s] = [step |-> "deciding", p |-> p, decision |-> decision, writes |-> FALSE]
        /\ \A t \in Sessions : t # s => tx'[t] = tx[t]
    BY <1>4, TxChanged DEF LockForDecision, AliasInv
  <2>2. UNCHANGED fact
    BY <1>4 DEF LockForDecision
  <2>3. CASE ~(p.action = "supersedes" /\ decision = "accepted")
    <3>1. UNCHANGED overlapped
      BY <1>4, <2>3 DEF LockForDecision, AliasInv, AliasTypeOK
    <3> QED
      BY <2>1, <2>2, <2>3, <3>1, NoNewAcceptance DEF OpenAcceptance, TxAt
  <2>4. CASE p.action = "supersedes" /\ decision = "accepted"
    <3> SUFFICES ASSUME ~overlapped' PROVE CheckStillGood'
      BY DEF CheckStillGood
    <3>1. ~overlapped /\ \A t \in Sessions : ~OpenAcceptance(t)
      BY <1>4, <2>4 DEF LockForDecision
    <3>2. \A t \in Sessions : OpenAcceptance(t)' => t = s
      BY <2>1, <3>1 DEF OpenAcceptance
    <3>3. ~TxAt(s, "materialised")'
      BY <2>1 DEF TxAt
    <3> QED
      BY <2>2, <3>1, <3>2, <3>3 DEF CheckStillGood
  <2> QED
    BY <2>3, <2>4
<1>5. ASSUME NEW s \in Sessions, Materialize(s)
      PROVE  CheckStillGood'
  <2>1. tx[s].step = "deciding" /\ tx[s] \in OpenTx /\ tx[s].p \in Proposals
    BY <1>5, TxTyped DEF AliasInv, Materialize, TxAt
  <2>2. /\ tx'[s].p = tx[s].p /\ tx'[s].decision = tx[s].decision
        /\ \A t \in Sessions : t # s => tx'[t] = tx[t]
    BY <1>5, <2>1 DEF Materialize, AliasInv, AliasTypeOK, OpenTx
  <2>3. UNCHANGED <<fact, overlapped>>
    BY <1>5 DEF Materialize
  <2>4. tx[s].p.action = "supersedes" => ClosesNoCycle(tx[s].p)
    BY <1>5 DEF Materialize, MayMaterialize
  <2>5. OpenAcceptance(s)' => OpenAcceptance(s) /\ tx[s].p.action = "supersedes"
    BY <2>1, <2>2 DEF OpenAcceptance
  <2> QED
    BY <2>2, <2>3, <2>4, <2>5, NoNewAcceptance DEF OpenAcceptance, TxAt
<1>6. ASSUME NEW s \in Sessions, CommitDecision(s)
      PROVE  CheckStillGood'
  <2> DEFINE p == tx[s].p
  <2>1. /\ p \in Proposals
        /\ \/ UNCHANGED fact
           \/ /\ tx[s].decision = "accepted" /\ TxAt(s, "materialised")
              /\ fact' = [fact EXCEPT ![p.action][p.src] = p.dst]
    BY <1>6, Committed
  <2>2. tx'[s].step = "none" /\ \A t \in Sessions : t # s => tx'[t] = tx[t]
    BY <1>6, TxChanged, IdleTyped DEF CommitDecision, AliasInv
  <2>3. UNCHANGED overlapped
    BY <1>6 DEF CommitDecision
  <2>4. CASE UNCHANGED fact
    BY <2>2, <2>3, <2>4, NoNewAcceptance DEF OpenAcceptance, TxAt
  <2>5. CASE /\ tx[s].decision = "accepted" /\ TxAt(s, "materialised")
             /\ fact' = [fact EXCEPT ![p.action][p.src] = p.dst]
    <3>1. CASE p.action = "alias"
      <4>1. fact'["supersedes"] = fact["supersedes"]
        BY <2>5, <3>1 DEF AliasInv, AliasTypeOK, Facts, Kinds
      <4>2. \A q : ClosesNoCycle(q)' <=> ClosesNoCycle(q)
        BY <4>1 DEF ClosesNoCycle
      <4> QED
        BY <2>2, <2>3, <4>1, <4>2 DEF CheckStillGood, OpenAcceptance, TxAt
    <3>2. CASE p.action = "supersedes"
      <4> SUFFICES ASSUME ~overlapped' PROVE CheckStillGood'
        BY DEF CheckStillGood
      <4>1. OpenAcceptance(s) /\ ~overlapped
        BY <2>3, <2>5, <3>2 DEF OpenAcceptance, TxAt
      <4>2. ClosesNoCycle(p) /\ Acyclic(fact["supersedes"])
        BY <2>5, <4>1 DEF CheckStillGood
      <4>3. Acyclic(fact'["supersedes"])
        BY <2>1, <2>5, <3>2, <4>2, CheckedEdge DEF AliasInv
      <4>4. \A t \in Sessions : ~OpenAcceptance(t)'
        BY <2>2, <4>1 DEF CheckStillGood, OpenAcceptance
      <4> QED
        BY <4>3, <4>4 DEF CheckStillGood
    <3> QED
      BY <2>1, <3>1, <3>2, ProposalTyped DEF Kinds
  <2> QED
    BY <2>1, <2>4, <2>5
<1> QED
  BY <1>1, <1>2, <1>3, <1>4, <1>5, <1>6 DEF AliasNext

(* One acceptance at a time keeps the supersessions acyclic, for chains of *)
(* any length (reject_capability_supersedes_cycle).                        *)
THEOREM AcyclicHolds == AliasSpec => []AcyclicUnlessOverlapped
<1>1. CheckStillGood => AcyclicUnlessOverlapped
  BY DEF CheckStillGood, AcyclicUnlessOverlapped
<1> QED
  BY AliasInvHolds, InitChecked, StepChecked, <1>1, PTL DEF AliasSpec

(* Within one workspace the lock of the workspace row lets only one        *)
(* decision be open, so no two acceptances overlap.                        *)
LEMMA OneWorkspaceStep ==
  ASSUME \A p, q \in Proposals : p.ws = q.ws,
         AliasInv, ~overlapped, [AliasNext]_aliasVars
  PROVE  ~overlapped'
<1>1. ASSUME NEW s \in Sessions, NEW p \in Proposals, NEW decision \in Decisions,
             LockForDecision(s, p, decision)
      PROVE  ~overlapped'
  <2>1. ASSUME NEW t \in Sessions, OpenAcceptance(t)
        PROVE  FALSE
    <3>1. tx[t].step \in {"deciding", "materialised"} /\ t # s
      BY <1>1, <2>1 DEF OpenAcceptance, LockForDecision, TxAt
    <3>2. tx[t].p.ws = p.ws
      BY <3>1, TxTyped DEF AliasInv
    <3> QED
      BY <1>1, <3>1, <3>2 DEF LockForDecision, WorkspaceFree, Decides
  <2> QED
    BY <1>1, <2>1 DEF LockForDecision
<1>2. CASE UNCHANGED overlapped
  BY <1>2
<1> QED
  BY <1>1, <1>2
  DEF AliasNext, aliasVars, CreateProposal, CommitCreate, Materialize, CommitDecision, Abort

(* In a store with one workspace the comment of migration 0015 is true:    *)
(* the trigger rejects every cycle of supersessions, of whatever length.   *)
THEOREM OneWorkspaceAcyclic ==
  ASSUME \A p, q \in Proposals : p.ws = q.ws
  PROVE  AliasSpec => []SupersessionsAcyclic
<1>1. AliasInit => ~overlapped
  BY DEF AliasInit
<1>2. AliasInv /\ ~overlapped /\ [AliasNext]_aliasVars => ~overlapped'
  BY OneWorkspaceStep
<1>3. AcyclicUnlessOverlapped /\ ~overlapped => SupersessionsAcyclic
  BY DEF AcyclicUnlessOverlapped, SupersessionsAcyclic
<1> QED
  BY <1>1, <1>2, <1>3, AliasInvHolds, AcyclicHolds, PTL DEF AliasSpec
=============================================================================

----------------------- MODULE EditorialReleasesProofs -----------------------
(***************************************************************************)
(* Proofs about EditorialReleases, for any sessions, questions, revisions, *)
(* manifests and bounds.                                                   *)
(***************************************************************************)
EXTENDS EditorialReleases, FiniteSetTheorems, WellFoundedInduction, TLAPS

(* What one mapping release has done so far: in the order of the keys, one *)
(* row locked for each entry, unchanged rows still as they were found.     *)
Orderly(s) ==
    LET w == writing[s]
    IN  /\ w.done \subseteq w.entries
        /\ \A e, f \in w.entries : e.q = f.q => e = f
        /\ \A e \in w.entries : QuestionOf[e.rev] = e.q
        /\ \A d \in w.done, e \in w.entries \ w.done : d.q < e.q
        /\ w.locked = {d.rev : d \in w.done}
        /\ w.writes \subseteq w.done
        /\ Writing(s, "idle") => w.entries = {}
        /\ \A d \in w.done \ w.writes : mapping[d.rev] = d.value
        /\ Writing(s, "audited") =>
              /\ w.done = w.entries
              /\ w.audit /\ w.entries # {} => <<"mapping", w.entries>> \notin DOMAIN audits

IInv == TypeOK /\ (\A s \in Sessions : Orderly(s)) /\ ReleasesAreWhole

(* What one placement release knows of the topics it depends on.           *)
HasTopic(s, r) == r \in slipped \/ TopicRow(r) \in placing[s].inserted \cup topics

Covering(s) ==
    /\ Placing(s, "materialising") =>
          \A r \in Current : decision[r] # "none" =>
              r \in slipped \/ TopicRow(r) \in placing[s].eligible
    /\ Placing(s, "materialised") =>
          \A r \in Current : decision[r] # "none" => HasTopic(s, r)
    /\ \A r \in placing[s].accepts : decision[r] # "none" /\ HasTopic(s, r)
    /\ placing[s].step \notin {"accepted", "announcing"} => placing[s].accepts = {}

Covered == (\A s \in Sessions : Covering(s)) /\ AcceptedIsMaterialised

-----------------------------------------------------------------------------
(* Types.                                                                  *)
LEMMA CurrentRevisions ==
  ASSUME TypeOK
  PROVE  /\ Current \subseteq Revisions
         /\ \A r \in Current : current[QuestionOf[r]] = r /\ QuestionOf[r] \in Published
         /\ EligibleTopics \subseteq Topic
         /\ {TopicRow(r) : r \in Current} \subseteq Topic
         /\ Cardinality(Published) \in Nat
<1>1. Current \subseteq Revisions
  BY DEF TypeOK, Current, Published
<1>2. \A r \in Current : current[QuestionOf[r]] = r /\ QuestionOf[r] \in Published
  BY DEF TypeOK, Current, Published
<1>3. EligibleTopics \subseteq Topic /\ {TopicRow(r) : r \in Current} \subseteq Topic
  BY <1>1 DEF EligibleTopics, Topic
<1>4. Cardinality(Published) \in Nat
  BY ConstantsAssumption, FS_Subset, FS_CardinalityType DEF Published
<1> QED
  BY <1>1, <1>2, <1>3, <1>4

(* What a mapping release may cover.                                       *)
LEMMA CoveredEntries ==
  ASSUME TypeOK,
         NEW entries \in {m \in Manifests : Complete(m)} \cup {UnmappedCurrent}
  PROVE  /\ entries \subseteq MappingEntry
         /\ \A e, f \in entries : e.q = f.q => e = f
         /\ \A e \in entries : QuestionOf[e.rev] = e.q
<1>1. CASE entries = UnmappedCurrent
  BY <1>1 DEF UnmappedCurrent, TypeOK, Published, MappingEntry, Values
<1>2. CASE entries \in Manifests /\ Complete(entries)
  <2>1. entries \subseteq MappingEntry /\ \A e, f \in entries : e.q = f.q => e = f
    BY <1>2, ConstantsAssumption DEF MappingEntry
  <2>2. ASSUME NEW e \in entries PROVE QuestionOf[e.rev] = e.q
    <3>1. <<e.q, e.rev>> \in {<<q, current[q]>> : q \in Published}
      BY <1>2 DEF Complete
    <3> QED
      BY <3>1 DEF TypeOK
  <2> QED
    BY <2>1, <2>2
<1> QED
  BY <1>1, <1>2

-----------------------------------------------------------------------------
(* The actions that leave the two tables and the mapping rows alone.       *)
LEMMA PublishedMoves ==
  ASSUME TypeOK,
         \/ \E r \in Revisions : PublishRevision(r)
         \/ \E q \in Questions : ArchiveQuestion(q)
  PROVE  TypeOK'
<1>1. ASSUME NEW r \in Revisions, PublishRevision(r) PROVE TypeOK'
  <2>1. QuestionOf[r] \in Questions /\ r # NoRevision
    BY ConstantsAssumption
  <2>2. /\ current' \in [Questions -> Revisions \cup {NoRevision}]
        /\ \A q \in Published' : QuestionOf[current'[q]] = q
        /\ decision' \in [Revisions -> {"none", "proposed", "accepted"}]
        /\ slipped' \subseteq Revisions
    BY <1>1, <2>1 DEF PublishRevision, TypeOK, Published
  <2> QED
    BY <1>1, <2>2 DEF PublishRevision, TypeOK
<1>2. ASSUME NEW q \in Questions, ArchiveQuestion(q) PROVE TypeOK'
  <2>1. /\ current' \in [Questions -> Revisions \cup {NoRevision}]
        /\ \A p \in Published' : QuestionOf[current'[p]] = p
    BY <1>2, ConstantsAssumption DEF ArchiveQuestion, TypeOK, Published
  <2> QED
    BY <1>2, <2>1 DEF ArchiveQuestion, TypeOK, history
<1> QED
  BY <1>1, <1>2

(* A step of one placement release before its commit: no row is shared.    *)
LEMMA PlacingStep ==
  ASSUME TypeOK, NEW s \in Sessions, NEW release \in PlacementRelease,
         placing' = [placing EXCEPT ![s] = release],
         UNCHANGED <<data, history, writing>>,
         \A t \in Others(s) : /\ placing[t].inserted \cap release.inserted = {}
                              /\ placing[t].accepts \cap release.accepts = {}
  PROVE  TypeOK'
<1>1. placing' \in [Sessions -> PlacementRelease]
  BY DEF TypeOK
<1>2. ASSUME NEW t \in Sessions, NEW u \in Sessions, t # u
      PROVE  /\ placing'[t].inserted \cap placing'[u].inserted = {}
             /\ placing'[t].accepts \cap placing'[u].accepts = {}
  BY <1>2 DEF TypeOK, Others
<1> QED
  BY <1>1, <1>2 DEF TypeOK, data, history, Published

PlacingMoves(s) ==
    \/ StartPlacement(s) \/ CountPublished(s) \/ InspectPlacements(s)
    \/ StartMaterialize(s) \/ MaterializeTopics(s) \/ AcceptPlacements(s)
    \/ AuditPlacements(s)

LEMMA PlacingMovesType ==
  ASSUME TypeOK, NEW s \in Sessions, PlacingMoves(s)
  PROVE  TypeOK'
<1> DEFINE release == placing'[s]
<1>1. placing[s] \in PlacementRelease /\ placing \in [Sessions -> PlacementRelease]
  BY DEF TypeOK
<1>2. /\ UNCHANGED <<data, history, writing>>
      /\ placing' = [placing EXCEPT ![s] = release]
  BY DEF PlacingMoves, StartPlacement, CountPublished, InspectPlacements,
     StartMaterialize, MaterializeTopics, AcceptPlacements, AuditPlacements, TypeOK
<1>3. release \in PlacementRelease
  <2>1. CASE StartPlacement(s)
    BY <2>1, <1>1 DEF StartPlacement, TypeOK, PlacementRelease
  <2>2. CASE CountPublished(s)
    BY <2>2, <1>1, CurrentRevisions DEF CountPublished, TypeOK, PlacementRelease
  <2>6. CASE InspectPlacements(s)
    <3> DEFINE rows == {TopicRow(r) : r \in Current}
    <3>1. rows \subseteq Topic
      BY CurrentRevisions
    <3>2. release = [placing[s] EXCEPT !.step = "inspected", !.placements = rows]
      BY <2>6 DEF InspectPlacements, TypeOK
    <3> HIDE DEF rows, release
    <3> QED
      BY <3>1, <3>2, <1>1 DEF PlacementRelease
  <2>7. CASE StartMaterialize(s)
    BY <2>7, <1>1, CurrentRevisions DEF StartMaterialize, TypeOK, PlacementRelease
  <2>3. CASE MaterializeTopics(s)
    BY <2>3, <1>1 DEF MaterializeTopics, TypeOK, PlacementRelease
  <2>4. CASE AcceptPlacements(s)
    <3>1. ToAccept(s) \subseteq Revisions
      BY CurrentRevisions DEF ToAccept
    <3> QED
      BY <2>4, <3>1, <1>1 DEF AcceptPlacements, TypeOK, PlacementRelease
  <2>5. CASE AuditPlacements(s)
    BY <2>5, <1>1 DEF AuditPlacements, TypeOK, PlacementRelease
  <2> QED
    BY <2>1, <2>2, <2>3, <2>4, <2>5, <2>6, <2>7 DEF PlacingMoves
<1>4. ASSUME NEW t \in Others(s)
      PROVE  /\ placing[t].inserted \cap release.inserted = {}
             /\ placing[t].accepts \cap release.accepts = {}
  <2>1. /\ placing[t].inserted \cap placing[s].inserted = {}
        /\ placing[t].accepts \cap placing[s].accepts = {}
    BY DEF Others, TypeOK
  <2>2. CASE MaterializeTopics(s)
    BY <2>1, <2>2, <1>1 DEF MaterializeTopics, TypeOK, PlacementRelease
  <2>3. CASE AcceptPlacements(s)
    BY <2>1, <2>3, <1>1 DEF AcceptPlacements, TypeOK, PlacementRelease
  <2>4. CASE ~MaterializeTopics(s) /\ ~AcceptPlacements(s)
    <3> DEFINE Same == /\ release.inserted = placing[s].inserted
                       /\ release.accepts = placing[s].accepts
    <3>1. StartPlacement(s) => Same
      BY <1>1 DEF StartPlacement, PlacementRelease
    <3>2. CountPublished(s) => Same
      BY <1>1 DEF CountPublished, PlacementRelease
    <3>3. InspectPlacements(s) => Same
      BY <1>1 DEF InspectPlacements, PlacementRelease
    <3>4. StartMaterialize(s) => Same
      BY <1>1 DEF StartMaterialize, PlacementRelease
    <3>5. AuditPlacements(s) => Same
      BY <1>1 DEF AuditPlacements, PlacementRelease
    <3> HIDE DEF release
    <3> QED
      BY <2>1, <2>4, <3>1, <3>2, <3>3, <3>4, <3>5 DEF PlacingMoves
  <2> QED
    BY <2>2, <2>3, <2>4
<1> HIDE DEF release
<1> QED
  BY <1>2, <1>3, <1>4, PlacingStep

(* The audit rows count from one.                                          *)
LEMMA AuditsCount ==
  ASSUME TypeOK, NEW key
  PROVE  /\ \A k \in DOMAIN CountAudit(key) : CountAudit(key)[k] \in Nat \ {0}
         /\ DOMAIN CountAudit(key) = DOMAIN audits \cup {key}
         /\ \A k \in DOMAIN audits \ {key} : CountAudit(key)[k] = audits[k]
         /\ key \notin DOMAIN audits => CountAudit(key)[key] = 1
  BY DEF TypeOK, CountAudit

LEMMA CommitPlacementsType ==
  ASSUME TypeOK, NEW s \in Sessions, CommitPlacements(s)
  PROVE  TypeOK'
<1>1. placing[s] \in PlacementRelease /\ NotPlacing \in PlacementRelease
  BY DEF TypeOK, NotPlacing, PlacementRelease
<1>2. placing' \in [Sessions -> PlacementRelease]
  BY <1>1 DEF CommitPlacements, TypeOK
<1>3. ASSUME NEW t \in Sessions, NEW u \in Sessions, t # u
      PROVE  /\ placing'[t].inserted \cap placing'[u].inserted = {}
             /\ placing'[t].accepts \cap placing'[u].accepts = {}
  BY <1>3 DEF CommitPlacements, TypeOK, NotPlacing
<1>4. topics' \subseteq Topic
  BY <1>1 DEF CommitPlacements, TypeOK, PlacementRelease
<1>5. decision' \in [Revisions -> {"none", "proposed", "accepted"}]
  BY DEF CommitPlacements, TypeOK
<1>6. \A k \in DOMAIN audits' : audits'[k] \in Nat \ {0}
  BY AuditsCount DEF CommitPlacements, TypeOK
<1> QED
  BY <1>2, <1>3, <1>4, <1>5, <1>6 DEF CommitPlacements, TypeOK, history, Published

-----------------------------------------------------------------------------
(* A step of one mapping release before its commit: no row is shared.      *)
LEMMA WritingStep ==
  ASSUME TypeOK, NEW s \in Sessions, NEW release \in MappingRelease,
         writing' = [writing EXCEPT ![s] = release],
         UNCHANGED <<data, history, placing>>,
         \A t \in Others(s) : writing[t].locked \cap release.locked = {}
  PROVE  TypeOK'
<1>1. writing' \in [Sessions -> MappingRelease]
  BY DEF TypeOK
<1>2. ASSUME NEW t \in Sessions, NEW u \in Sessions, t # u
      PROVE  writing'[t].locked \cap writing'[u].locked = {}
  BY <1>2 DEF TypeOK, Others
<1> QED
  BY <1>1, <1>2 DEF TypeOK, data, history, Published

WritingMoves(s) == StartMapping(s) \/ UpsertMapping(s) \/ AuditMapping(s)

(* The record that each of these actions leaves.                           *)
LEMMA StartMappingEffect ==
  ASSUME TypeOK, NEW s \in Sessions, Orderly(s), StartMapping(s)
  PROVE  /\ writing'[s] \in MappingRelease
         /\ writing'[s].locked = writing[s].locked
         /\ Orderly(s)'
<1>1. PICK entries \in {m \in Manifests : Complete(m)} \cup {UnmappedCurrent} :
         writing' = [writing EXCEPT ![s].step = "writing", ![s].entries = entries]
  BY DEF StartMapping
<1> HIDE DEF StartMapping
<1>2. writing[s] \in MappingRelease /\ writing \in [Sessions -> MappingRelease]
  BY DEF TypeOK
<1>3. writing'[s] = [writing[s] EXCEPT !.step = "writing", !.entries = entries]
  BY <1>1, <1>2
<1>4. /\ entries \subseteq MappingEntry
      /\ \A e, f \in entries : e.q = f.q => e = f
      /\ \A e \in entries : QuestionOf[e.rev] = e.q
  BY CoveredEntries
<1>5. writing[s].step = "idle"
  BY DEF StartMapping, Idle, Writing
<1>6. /\ writing[s].done = {} /\ writing[s].locked = {} /\ writing[s].writes = {}
  BY <1>5 DEF Orderly, Writing
<1> QED
  BY <1>2, <1>3, <1>4, <1>6 DEF MappingRelease, Orderly, Writing

LEMMA UpsertMappingEffect ==
  ASSUME TypeOK, NEW s \in Sessions, Orderly(s), UpsertMapping(s)
  PROVE  /\ writing'[s] \in MappingRelease
         /\ \A t \in Others(s) : writing[t].locked \cap writing'[s].locked = {}
         /\ Orderly(s)'
<1> DEFINE w == writing[s]
<1>1. PICK e \in w.entries :
         /\ IsNextEntry(s, e) /\ RowFree(s, e)
         /\ writing' = [writing EXCEPT
              ![s].done = @ \cup {e},
              ![s].locked = @ \cup LockRow(e),
              ![s].writes = IF mapping[e.rev] = e.value THEN @ ELSE @ \cup {e}]
  BY DEF UpsertMapping
<1>2. w \in MappingRelease /\ writing \in [Sessions -> MappingRelease] /\ w.step = "writing"
  BY DEF TypeOK, UpsertMapping, Writing
<1>3. writing'[s] = [w EXCEPT !.done = @ \cup {e},
                              !.locked = @ \cup {e.rev},
                              !.writes = IF mapping[e.rev] = e.value THEN @ ELSE @ \cup {e}]
  BY <1>1, <1>2 DEF LockRow
<1>4. /\ e \in MappingEntry /\ e.rev \in Revisions /\ e.q \in Int
      /\ e \in w.entries \ w.done
      /\ \A f \in w.entries \ w.done : e.q <= f.q
  BY <1>1, <1>2, ConstantsAssumption DEF IsNextEntry, Remaining, MappingRelease, MappingEntry
<1>5. writing'[s] \in MappingRelease
  <2> DEFINE done == w.done \cup {e}
             locked == w.locked \cup {e.rev}
             writes == IF mapping[e.rev] = e.value THEN w.writes ELSE w.writes \cup {e}
  <2>1. done \in SUBSET MappingEntry /\ locked \in SUBSET Revisions /\ writes \in SUBSET MappingEntry
    BY <1>2, <1>4 DEF MappingRelease
  <2>2. writing'[s] = [w EXCEPT !.done = done, !.locked = locked, !.writes = writes]
    BY <1>3
  <2> HIDE DEF done, locked, writes, w
  <2> QED
    BY <1>2, <2>1, <2>2 DEF MappingRelease
<1>6. \A t \in Others(s) : writing[t].locked \cap writing'[s].locked = {}
  BY <1>1, <1>2, <1>3 DEF TypeOK, Others, RowFree, MappingRelease
<1>7. \A d \in writing'[s].done, f \in writing'[s].entries \ writing'[s].done : d.q < f.q
  <2> SUFFICES ASSUME NEW d \in w.done \cup {e}, NEW f \in w.entries \ (w.done \cup {e})
               PROVE  d.q < f.q
    BY <1>2, <1>3 DEF MappingRelease
  <2>1. CASE d = e
    <3>1. f.q \in Int /\ f.q # e.q /\ e.q <= f.q
      BY <1>2, <1>4, ConstantsAssumption DEF Orderly, MappingRelease, MappingEntry
    <3> QED
      BY <2>1, <3>1, <1>4
  <2> QED
    BY <2>1 DEF Orderly
<1>8. writing'[s].locked = {d.rev : d \in writing'[s].done}
  BY <1>2, <1>3 DEF Orderly, MappingRelease
<1>9. mapping' = mapping /\ audits' = audits
  BY DEF UpsertMapping, data
<1>10. \A d \in writing'[s].done \ writing'[s].writes : mapping[d.rev] = d.value
  BY <1>2, <1>3 DEF Orderly, MappingRelease
<1>11. /\ writing'[s].done \subseteq writing'[s].entries
       /\ writing'[s].writes \subseteq writing'[s].done
       /\ writing'[s].entries = w.entries /\ writing'[s].step = "writing"
  BY <1>2, <1>3 DEF Orderly, MappingRelease
<1> HIDE DEF w
<1> QED
  BY <1>5, <1>6, <1>7, <1>8, <1>9, <1>10, <1>11 DEF Orderly, Writing, w

LEMMA AuditMappingEffect ==
  ASSUME TypeOK, NEW s \in Sessions, Orderly(s), AuditMapping(s)
  PROVE  /\ writing'[s] \in MappingRelease
         /\ writing'[s].locked = writing[s].locked
         /\ Orderly(s)'
<1>1. writing[s] \in MappingRelease /\ writing \in [Sessions -> MappingRelease]
  BY DEF TypeOK
<1>2. writing'[s] = [writing[s] EXCEPT
         !.step = "audited", !.audit = <<"mapping", writing[s].entries>> \notin DOMAIN audits]
  BY <1>1 DEF AuditMapping
<1>3. writing[s].done = writing[s].entries
  BY DEF AuditMapping, Remaining, Orderly
<1>4. mapping' = mapping /\ audits' = audits
  BY DEF AuditMapping, data
<1> QED
  BY <1>1, <1>2, <1>3, <1>4 DEF MappingRelease, Orderly, Writing

LEMMA WritingMovesKeep ==
  ASSUME IInv, NEW s \in Sessions, WritingMoves(s)
  PROVE  IInv'
<1>1. TypeOK /\ Orderly(s)
  BY DEF IInv
<1>2. /\ writing'[s] \in MappingRelease /\ Orderly(s)'
      /\ \A t \in Others(s) : writing[t].locked \cap writing'[s].locked = {}
  BY <1>1, StartMappingEffect, UpsertMappingEffect, AuditMappingEffect
     DEF WritingMoves, TypeOK, Others
<1>3. /\ UNCHANGED <<data, history, placing>>
      /\ writing' = [writing EXCEPT ![s] = writing'[s]]
  BY <1>1 DEF WritingMoves, StartMapping, UpsertMapping, AuditMapping, TypeOK
<1>4. TypeOK'
  BY <1>1, <1>2, <1>3, WritingStep
<1>5. ASSUME NEW t \in Others(s) PROVE Orderly(t)'
  <2>1. writing'[t] = writing[t] /\ mapping' = mapping /\ audits' = audits /\ Orderly(t)
    BY <1>3 DEF Others, data, IInv, TypeOK
  <2> QED
    BY <2>1 DEF Orderly, Writing
<1>6. ReleasesAreWhole'
  BY <1>3 DEF IInv, ReleasesAreWhole, data, history
<1> QED
  BY <1>2, <1>4, <1>5, <1>6 DEF IInv, Others

-----------------------------------------------------------------------------
(* The commit of a mapping release: only rows it locked change.            *)
LEMMA CommitMappingRows ==
  ASSUME IInv, NEW s \in Sessions, CommitMapping(s)
  PROVE  /\ mapping' \in [Revisions -> Values \cup {NoRow}]
         /\ \A r \in Revisions \ writing[s].locked : mapping'[r] = mapping[r]
         /\ \A e \in writing[s].entries : mapping'[e.rev] = e.value
<1> DEFINE w == writing[s]
<1>1. TypeOK /\ Orderly(s) /\ w \in MappingRelease /\ w.step = "audited"
  BY DEF IInv, TypeOK, CommitMapping, Writing
<1>2. /\ w.done = w.entries /\ w.writes \subseteq w.done
      /\ w.locked = {d.rev : d \in w.done}
      /\ \A d \in w.done \ w.writes : mapping[d.rev] = d.value
      /\ \A e, f \in w.entries : e.rev = f.rev => e = f
  BY <1>1 DEF Orderly, Writing
<1>3. \A e \in w.entries : e.rev \in Revisions /\ e.value \in Values
  BY <1>1 DEF MappingRelease, MappingEntry
<1>4. mapping' = [r \in Revisions |-> IF \E e \in w.writes : e.rev = r
                                      THEN (CHOOSE e \in w.writes : e.rev = r).value
                                      ELSE mapping[r]]
  BY DEF CommitMapping
<1>5. \A e \in w.writes : (CHOOSE f \in w.writes : f.rev = e.rev) = e
  BY <1>2
<1> HIDE DEF w
<1>6. \A e \in w.writes : mapping'[e.rev] = e.value
  BY <1>2, <1>3, <1>4, <1>5
<1>7. \A r \in Revisions : (\A e \in w.writes : e.rev # r) => mapping'[r] = mapping[r]
  BY <1>4
<1>8. \A e \in w.entries : mapping'[e.rev] = e.value
  <2> SUFFICES ASSUME NEW e \in w.entries PROVE mapping'[e.rev] = e.value
    OBVIOUS
  <2>1. CASE e \in w.writes
    BY <2>1, <1>6
  <2>2. CASE e \notin w.writes
    BY <2>2, <1>2, <1>3, <1>7
  <2> QED
    BY <2>1, <2>2
<1>9. ASSUME NEW r \in Revisions
      PROVE  /\ mapping'[r] \in Values \cup {NoRow}
             /\ r \notin w.locked => mapping'[r] = mapping[r]
  <2>1. CASE \E e \in w.writes : e.rev = r
    BY <2>1, <1>2, <1>3, <1>6
  <2>2. CASE \A e \in w.writes : e.rev # r
    BY <2>2, <1>1, <1>7 DEF TypeOK
  <2> QED
    BY <2>1, <2>2
<1> QED
  BY <1>4, <1>8, <1>9 DEF w

LEMMA CommitMappingKeeps ==
  ASSUME IInv, NEW s \in Sessions, CommitMapping(s)
  PROVE  IInv'
<1> DEFINE w == writing[s]
           key == <<"mapping", w.entries>>
<1>1. TypeOK /\ Orderly(s) /\ ReleasesAreWhole /\ w \in MappingRelease /\ w.step = "audited"
  BY DEF IInv, TypeOK, CommitMapping, Writing
<1>2. /\ audits' = IF w.audit THEN CountAudit(key) ELSE audits
      /\ last' = w.entries
      /\ writing' = [writing EXCEPT ![s] = NotWriting]
      /\ UNCHANGED <<current, decision, topics, outbox, slipped, placing>>
  BY DEF CommitMapping
<1>3. /\ mapping' \in [Revisions -> Values \cup {NoRow}]
      /\ \A r \in Revisions \ w.locked : mapping'[r] = mapping[r]
      /\ \A e \in w.entries : mapping'[e.rev] = e.value
  BY CommitMappingRows
<1>4. w.done = w.entries /\ (w.audit /\ w.entries # {} => key \notin DOMAIN audits)
  BY <1>1 DEF Orderly, Writing
<1>5. NotWriting \in MappingRelease /\ NotWriting.locked = {}
  BY DEF NotWriting, MappingRelease
<1>6. /\ \A k \in DOMAIN audits' : audits'[k] \in Nat \ {0}
      /\ DOMAIN audits' = IF w.audit THEN DOMAIN audits \cup {key} ELSE DOMAIN audits
      /\ \A k \in DOMAIN audits : ~(w.audit /\ k = key) => audits'[k] = audits[k]
  <2>1. CASE w.audit
    <3> HIDE DEF key
    <3> QED
      BY <2>1, <1>1, <1>2, AuditsCount
  <2>2. CASE ~w.audit
    BY <2>2, <1>1, <1>2 DEF TypeOK
  <2> QED
    BY <2>1, <2>2
<1>7. TypeOK'
  <2>1. writing' \in [Sessions -> MappingRelease]
    BY <1>1, <1>2, <1>5 DEF TypeOK
  <2>2. \A t, u \in Sessions : t # u => writing'[t].locked \cap writing'[u].locked = {}
    BY <1>1, <1>2, <1>5 DEF TypeOK
  <2>3. last' \subseteq MappingEntry
    BY <1>1, <1>2 DEF MappingRelease
  <2> QED
    BY <1>1, <1>2, <1>3, <1>6, <2>1, <2>2, <2>3 DEF TypeOK, Published
<1>8. ReleasesAreWhole'
  <2>1. \A e \in last' : mapping'[e.rev] = e.value
    BY <1>2, <1>3
  <2>2. ASSUME NEW k \in DOMAIN audits', k[1] = "mapping", k[2] # {} PROVE audits'[k] = 1
    <3>1. CASE w.audit /\ k = key
      BY <2>2, <3>1, <1>1, <1>2, <1>4, AuditsCount
    <3>2. CASE ~(w.audit /\ k = key)
      <4>1. k \in DOMAIN audits /\ audits'[k] = audits[k]
        BY <2>2, <3>2, <1>6
      <4> QED
        BY <2>2, <4>1, <1>1 DEF ReleasesAreWhole
    <3> QED
      BY <3>1, <3>2
  <2> QED
    BY <2>1, <2>2 DEF ReleasesAreWhole
<1>9. ASSUME NEW t \in Sessions PROVE Orderly(t)'
  <2>1. CASE t = s
    BY <2>1, <1>1, <1>2 DEF Orderly, NotWriting, Writing, TypeOK
  <2>2. CASE t # s
    <3> DEFINE x == writing[t]
    <3>1. Orderly(t) /\ x \in MappingRelease /\ writing'[t] = x
      BY <2>2, <1>2 DEF IInv, TypeOK
    <3>2. x.locked \cap w.locked = {}
      BY <2>2, <1>1 DEF TypeOK
    <3>3. x.locked = {d.rev : d \in x.done} /\ w.locked = {d.rev : d \in w.done}
      BY <3>1, <1>1 DEF Orderly
    <3>4. \A d \in x.done : mapping'[d.rev] = mapping[d.rev]
      <4>1. \A d \in x.done : d.rev \in Revisions
        BY <3>1 DEF MappingRelease, MappingEntry
      <4> QED
        BY <4>1, <3>2, <3>3, <1>3
    <3>5. ASSUME x.step = "audited", x.entries # {}, <<"mapping", x.entries>> \in DOMAIN audits'
          PROVE  <<"mapping", x.entries>> \in DOMAIN audits
      <4>1. x.done = x.entries
        BY <3>1, <3>5 DEF Orderly, Writing
      <4>2. x.entries # w.entries
        BY <4>1, <3>2, <3>3, <3>5, <1>4
      <4> HIDE DEF w, x
      <4>3. <<"mapping", x.entries>> # key
        BY <4>2
      <4> HIDE DEF key
      <4> QED
        BY <4>3, <3>5, <1>6
    <3> QED
      BY <3>1, <3>4, <3>5 DEF Orderly, Writing
  <2> QED
    BY <2>1, <2>2
<1> QED
  BY <1>7, <1>8, <1>9 DEF IInv

-----------------------------------------------------------------------------
(* The other actions leave the rows of the mapping alone.                  *)
LEMMA MappingUntouched ==
  ASSUME IInv, TypeOK',
         UNCHANGED <<mapping, last>>,
         \A s \in Sessions : writing'[s] = writing[s] \/ writing'[s] = NotWriting,
         \A k \in DOMAIN audits' : k[1] = "mapping" => k \in DOMAIN audits /\ audits'[k] = audits[k]
  PROVE  IInv'
<1>1. ASSUME NEW s \in Sessions PROVE Orderly(s)'
  <2>1. CASE writing'[s] = NotWriting
    BY <2>1 DEF Orderly, NotWriting, Writing
  <2>2. CASE writing'[s] = writing[s]
    <3>1. Orderly(s)
      BY DEF IInv
    <3>2. <<"mapping", writing[s].entries>> \in DOMAIN audits'
             => <<"mapping", writing[s].entries>> \in DOMAIN audits
      OBVIOUS
    <3> QED
      BY <2>2, <3>1, <3>2 DEF Orderly, Writing
  <2> QED
    BY <2>1, <2>2
<1>2. ReleasesAreWhole'
  BY DEF IInv, ReleasesAreWhole
<1> QED
  BY <1>1, <1>2 DEF IInv

LEMMA CommitPlacementsKeeps ==
  ASSUME IInv, NEW s \in Sessions, CommitPlacements(s)
  PROVE  IInv'
<1> DEFINE key == <<"placement", ReleaseId(s)>>
<1>1. TypeOK /\ TypeOK'
  BY CommitPlacementsType DEF IInv
<1>2. audits' = CountAudit(key) \/ audits' = audits
  BY DEF CommitPlacements
<1>3. key[1] # "mapping"
  OBVIOUS
<1> HIDE DEF key
<1>4. /\ DOMAIN CountAudit(key) = DOMAIN audits \cup {key}
      /\ \A k \in DOMAIN audits \ {key} : CountAudit(key)[k] = audits[k]
  BY <1>1, AuditsCount
<1>5. ASSUME NEW k \in DOMAIN audits', k[1] = "mapping"
      PROVE  k \in DOMAIN audits /\ audits'[k] = audits[k]
  <2>1. k # key
    BY <1>3, <1>5
  <2> QED
    BY <1>2, <1>4, <2>1
<1> QED
  BY <1>1, <1>5, MappingUntouched DEF CommitPlacements, history

LEMMA StopKeeps ==
  ASSUME IInv, NEW s \in Sessions, Stop(s)
  PROVE  IInv'
<1>1. /\ placing' = [placing EXCEPT ![s] = NotPlacing]
      /\ writing' = [writing EXCEPT ![s] = NotWriting]
      /\ UNCHANGED <<data, history>> /\ TypeOK
  BY DEF Stop, IInv
<1>2. /\ NotPlacing \in PlacementRelease /\ NotWriting \in MappingRelease
      /\ NotPlacing.inserted = {} /\ NotPlacing.accepts = {} /\ NotWriting.locked = {}
  <2>1. [q \in Questions |-> NoRevision] \in [Questions -> Revisions \cup {NoRevision}]
    OBVIOUS
  <2> QED
    BY <2>1 DEF NotPlacing, NotWriting, PlacementRelease, MappingRelease
<1>3. TypeOK'
  <2>1. placing' \in [Sessions -> PlacementRelease] /\ writing' \in [Sessions -> MappingRelease]
    BY <1>1, <1>2 DEF TypeOK
  <2>2. ASSUME NEW t \in Sessions, NEW u \in Sessions, t # u
        PROVE  /\ writing'[t].locked \cap writing'[u].locked = {}
               /\ placing'[t].inserted \cap placing'[u].inserted = {}
               /\ placing'[t].accepts \cap placing'[u].accepts = {}
    BY <1>1, <1>2, <2>2 DEF TypeOK
  <2> QED
    BY <1>1, <2>1, <2>2 DEF TypeOK, data, history, Published
<1> QED
  BY <1>1, <1>3, MappingUntouched DEF TypeOK, data, history

LEMMA StepKeeps == IInv /\ [Next]_vars => IInv'
<1> SUFFICES ASSUME IInv, [Next]_vars PROVE IInv'
  OBVIOUS
<1>1. CASE \E r \in Revisions : PublishRevision(r)
  BY <1>1, PublishedMoves, MappingUntouched DEF IInv, PublishRevision
<1>2. CASE \E q \in Questions : ArchiveQuestion(q)
  BY <1>2, PublishedMoves, MappingUntouched DEF IInv, ArchiveQuestion, history
<1>3. ASSUME NEW s \in Sessions, PlacingMoves(s) PROVE IInv'
  <2>1. UNCHANGED <<data, history, writing>>
    BY <1>3 DEF PlacingMoves, StartPlacement, CountPublished, InspectPlacements,
       StartMaterialize, MaterializeTopics, AcceptPlacements, AuditPlacements
  <2> QED
    BY <1>3, <2>1, PlacingMovesType, MappingUntouched DEF IInv, data, history
<1>4. CASE UNCHANGED vars
  BY <1>4 DEF vars, data, history, IInv, TypeOK, Published, Orderly, Writing, ReleasesAreWhole
<1> QED
  BY <1>1, <1>2, <1>3, <1>4, CommitPlacementsKeeps, WritingMovesKeep, CommitMappingKeeps,
     StopKeeps DEF Next, PlacingMoves, WritingMoves

LEMMA InitHolds == Init => IInv
<1> SUFFICES ASSUME Init PROVE IInv
  OBVIOUS
<1>1. /\ current \in [Questions -> Revisions \cup {NoRevision}]
      /\ \A q \in Published : QuestionOf[current[q]] = q
  BY DEF Init, Published
<1>2. /\ NotPlacing \in PlacementRelease /\ NotWriting \in MappingRelease
      /\ NotPlacing.inserted = {} /\ NotPlacing.accepts = {} /\ NotWriting.locked = {}
  <2>1. [q \in Questions |-> NoRevision] \in [Questions -> Revisions \cup {NoRevision}]
    OBVIOUS
  <2> QED
    BY <2>1 DEF NotPlacing, NotWriting, PlacementRelease, MappingRelease
<1>3. DOMAIN audits = {}
  BY DEF Init
<1>4. TypeOK
  BY <1>1, <1>2, <1>3 DEF Init, TypeOK
<1>5. \A s \in Sessions : Orderly(s)
  BY DEF Init, Orderly, NotWriting, Writing
<1>6. ReleasesAreWhole
  BY <1>3 DEF Init, ReleasesAreWhole
<1> QED
  BY <1>4, <1>5, <1>6 DEF IInv

LEMMA IInvHolds == Spec => []IInv
  BY InitHolds, StepKeeps, PTL DEF Spec

(* The shapes of the rows and of the commands, and that no row is held by  *)
(* two of the transactions that release.                                   *)
THEOREM TypesHold == Spec => []TypeOK
<1>1. IInv => TypeOK
  BY DEF IInv
<1> QED
  BY <1>1, IInvHolds, PTL

(* Mapping releases never mix, whatever set of them is open at once: what  *)
(* the last one covers stands in every row, and no id is audited twice.    *)
THEOREM WholeHolds == Spec => []ReleasesAreWhole
<1>1. IInv => ReleasesAreWhole
  BY DEF IInv
<1> QED
  BY <1>1, IInvHolds, PTL

-----------------------------------------------------------------------------
(* Waiting.  A family of subsets of a finite set has a least member: the   *)
(* induction that the argument about circles needs.                        *)
LEMMA MinimalMember ==
  ASSUME NEW S, IsFiniteSet(S), NEW family \in SUBSET (SUBSET S), family # {}
  PROVE  \E T \in family : \A U \in family : U \subseteq T => U = T
<1> DEFINE R == StrictSubsetOrdering(S)
<1>1. IsWellFoundedOn(R, SUBSET S)
  BY FS_StrictSubsetOrderingWellFounded, FS_FiniteSubsetsOfFinite
<1>2. \E T \in family : \A U \in family : ~(<<U, T>> \in R)
  <2> HIDE DEF R
  <2> QED
    BY <1>1, WFMin
<1> QED
  BY <1>2 DEF StrictSubsetOrdering

LEMMA GreatestMember ==
  ASSUME NEW S, IsFiniteSet(S), NEW keys \in SUBSET S, keys # {}
  PROVE  S \subseteq Int => \E k \in keys : \A q \in keys : q <= k
<1> DEFINE After(k) == {q \in S : k < q}
           family == {After(k) : k \in keys}
<1>1. family \in SUBSET (SUBSET S) /\ family # {}
  OBVIOUS
<1>2. \E T \in family : \A U \in family : U \subseteq T => U = T
  <2> HIDE DEF family
  <2> QED
    BY <1>1, MinimalMember
<1>3. PICK k \in keys : \A q \in keys : After(q) \subseteq After(k) => After(q) = After(k)
  <2>1. PICK T \in family : \A U \in family : U \subseteq T => U = T
    BY <1>2, Zenon
  <2>2. PICK k \in keys : T = After(k)
    BY <2>1, Zenon
  <2>3. ASSUME NEW q \in keys PROVE After(q) \in family
    BY Zenon
  <2> HIDE DEF After, family
  <2> QED
    BY <2>1, <2>2, <2>3, Zenon
<1>4. HAVE S \subseteq Int
<1>5. ASSUME NEW q \in keys, k < q PROVE FALSE
  <2>1. k \in Int /\ q \in Int
    BY <1>4
  <2>2. ASSUME NEW p \in S, q < p PROVE k < p
    BY <1>4, <1>5, <2>1, <2>2
  <2>3. After(q) \subseteq After(k)
    BY <2>2
  <2>4. q \in After(k) /\ q \notin After(q)
    BY <1>5, <2>1
  <2> QED
    BY <1>3, <2>3, <2>4, Zenon
<1>6. \A q \in keys : q \in Int
  BY <1>4
<1> QED
  BY <1>5, <1>6

(* Who waits for t is behind t: all that t has left comes later.           *)
LEMMA WaitsBehind ==
  ASSUME IInv, NEW s \in Sessions, NEW t \in Sessions,
         NEW e \in writing[s].entries, e.rev \in writing[t].locked,
         NEW f \in Remaining(t)
  PROVE  e.q < f.q
<1>1. Orderly(s) /\ Orderly(t)
  BY DEF IInv
<1>2. PICK d \in writing[t].done : d.rev = e.rev
  BY <1>1 DEF Orderly
<1>3. d.q = e.q
  BY <1>1, <1>2 DEF Orderly
<1> QED
  BY <1>1, <1>2, <1>3 DEF Orderly, Remaining

LEMMA NoCircle == IInv => NeverDeadlock
<1> SUFFICES ASSUME IInv, NEW circle \in (SUBSET Sessions) \ {{}},
                    \A s \in circle : \E t \in circle : WaitsFor(s, t)
             PROVE  FALSE
  BY DEF NeverDeadlock
<1> DEFINE NextKey(s, q) == \E e \in writing[s].entries : IsNextEntry(s, e) /\ e.q = q
           keys == {q \in Questions : \E s \in circle : NextKey(s, q)}
<1>1. circle \subseteq Sessions /\ circle # {}
  OBVIOUS
<1>2. \A s \in circle : \E t \in circle : \E e \in writing[s].entries :
         IsNextEntry(s, e) /\ e.rev \in writing[t].locked
  BY DEF WaitsFor
<1>3. \A s \in Sessions : \A e \in writing[s].entries : e.q \in Questions /\ e.q \in Int
  <2>1. \A s \in Sessions : writing[s].entries \subseteq MappingEntry
    BY DEF IInv, TypeOK, MappingRelease
  <2> QED
    BY <2>1, ConstantsAssumption DEF MappingEntry
<1>4. keys # {}
  <2>1. PICK s \in circle : TRUE
    BY <1>1
  <2>2. PICK e \in writing[s].entries : IsNextEntry(s, e)
    BY <1>2
  <2> QED
    BY <1>1, <1>3, <2>1, <2>2
<1>5. PICK k \in keys : \A q \in keys : q <= k
  <2>1. keys \in SUBSET Questions
    OBVIOUS
  <2> HIDE DEF keys
  <2> QED
    BY <1>4, <2>1, GreatestMember, ConstantsAssumption
<1>6. PICK s \in circle : NextKey(s, k)
  OBVIOUS
<1>7. PICK t \in circle, e \in writing[s].entries :
         IsNextEntry(s, e) /\ e.rev \in writing[t].locked
  BY <1>2
<1>8. k <= e.q
  <2>1. PICK d \in writing[s].entries : IsNextEntry(s, d) /\ d.q = k
    BY <1>6
  <2> QED
    BY <1>7, <2>1 DEF IsNextEntry
<1>9. PICK f \in writing[t].entries : IsNextEntry(t, f)
  BY <1>2
<1>10. e.q < f.q
  BY <1>1, <1>7, <1>9, WaitsBehind DEF IsNextEntry
<1>11. f.q \in keys
  BY <1>1, <1>3, <1>9
<1>12. k \in Int /\ e.q \in Int /\ f.q \in Int /\ f.q <= k
  BY <1>1, <1>3, <1>5, <1>11, ConstantsAssumption
<1> QED
  BY <1>8, <1>10, <1>12

(* Any number of mapping releases, over any manifests: none of them waits  *)
(* in a circle.                                                            *)
THEOREM DeadlockHolds == Spec => []NeverDeadlock
  BY NoCircle, IInvHolds, PTL

-----------------------------------------------------------------------------
(* Topics.                                                                 *)
LEMMA PublishedCovers ==
  ASSUME TypeOK, Covered,
         \/ \E r \in Revisions : PublishRevision(r)
         \/ \E q \in Questions : ArchiveQuestion(q)
  PROVE  Covered'
<1>1. ASSUME NEW r \in Revisions, PublishRevision(r) PROVE Covered'
  <2>1. /\ Current' \subseteq Current \cup {r}
        /\ \A x \in Revisions \ {r} : decision'[x] = decision[x]
        /\ decision'[r] = decision[r] \/ (decision[r] = "none" /\ decision'[r] = "proposed")
        /\ slipped \subseteq slipped' /\ UNCHANGED <<topics, placing>>
    BY <1>1 DEF PublishRevision, TypeOK, Current, Published
  <2>2. (\E s \in Sessions : placing[s].step \in {"materialising", "materialised"}) => r \in slipped'
    BY <1>1 DEF PublishRevision
  <2>3. ASSUME NEW s \in Sessions PROVE Covering(s)'
    <3>1. placing[s].accepts \subseteq Revisions /\ Current \subseteq Revisions
      BY CurrentRevisions DEF TypeOK, PlacementRelease
    <3>2. Covering(s)
      BY DEF Covered
    <3>3. \A x \in placing[s].accepts : decision'[x] # "none"
      BY <2>1, <3>1, <3>2 DEF Covering
    <3>4. \A x \in Current' : x # r => x \in Current /\ decision'[x] = decision[x]
      BY <2>1, <3>1
    <3> QED
      BY <2>1, <2>2, <3>2, <3>3, <3>4 DEF Covering, HasTopic, Placing, TopicRow
  <2>4. AcceptedIsMaterialised'
    BY <2>1 DEF Covered, AcceptedIsMaterialised, TopicRow
  <2> QED
    BY <2>3, <2>4 DEF Covered
<1>2. ASSUME NEW q \in Questions, ArchiveQuestion(q) PROVE Covered'
  <2>1. Current' \subseteq Current /\ UNCHANGED <<decision, topics, slipped, placing>>
    BY <1>2 DEF ArchiveQuestion, TypeOK, Current, Published, history
  <2> QED
    BY <2>1 DEF Covered, Covering, HasTopic, Placing, AcceptedIsMaterialised, TopicRow
<1> QED
  BY <1>1, <1>2

LEMMA PlacingMovesCover ==
  ASSUME TypeOK, Covered, NEW s \in Sessions, PlacingMoves(s)
  PROVE  Covered'
<1> DEFINE p == placing[s]
<1>1. p \in PlacementRelease /\ placing \in [Sessions -> PlacementRelease] /\ Covering(s)
  BY DEF TypeOK, Covered
<1>2. /\ UNCHANGED <<data, history>>
      /\ \A t \in Others(s) : placing'[t] = placing[t]
  BY <1>1 DEF PlacingMoves, StartPlacement, CountPublished, InspectPlacements, Others,
     StartMaterialize, MaterializeTopics, AcceptPlacements, AuditPlacements
<1>3. UNCHANGED <<decision, topics, slipped, Current>>
  BY <1>2 DEF data, history, Current, Published
<1>4. ASSUME NEW t \in Others(s) PROVE Covering(t)'
  BY <1>2, <1>3 DEF Covered, Others, Covering, HasTopic, Placing, TopicRow
<1>5. Covering(s)'
  <2>1. CASE StartPlacement(s) \/ CountPublished(s) \/ InspectPlacements(s)
    <3>1. /\ placing'[s].step \in {"fingerprinted", "counted", "inspected"}
          /\ placing'[s].accepts = p.accepts /\ p.accepts = {}
      BY <2>1, <1>1 DEF StartPlacement, CountPublished, InspectPlacements, PlacementRelease,
         Covering, Placing, Idle
    <3> QED
      BY <3>1 DEF Covering, Placing
  <2>2. CASE StartMaterialize(s)
    <3>1. placing'[s] = [p EXCEPT !.step = "materialising", !.eligible = EligibleTopics]
      BY <2>2, <1>1 DEF StartMaterialize
    <3>2. p.accepts = {}
      BY <2>2, <1>1 DEF StartMaterialize, Covering, Placing
    <3>3. /\ placing'[s].step = "materialising" /\ placing'[s].eligible = EligibleTopics
          /\ placing'[s].accepts = {}
      BY <3>1, <3>2, <1>1 DEF PlacementRelease
    <3>4. \A r \in Current : decision[r] # "none" => TopicRow(r) \in EligibleTopics
      BY DEF EligibleTopics
    <3> QED
      BY <3>3, <3>4, <1>3 DEF Covering, Placing, TopicRow
  <2>3. CASE MaterializeTopics(s)
    <3>1. placing'[s] = [p EXCEPT !.step = "materialised", !.inserted = p.eligible \ topics]
      BY <2>3, <1>1 DEF MaterializeTopics
    <3>2. p.step = "materialising" /\ p.accepts = {}
      BY <2>3, <1>1 DEF MaterializeTopics, Covering, Placing
    <3>3. /\ placing'[s].step = "materialised" /\ placing'[s].inserted = p.eligible \ topics
          /\ placing'[s].accepts = {}
      BY <3>1, <3>2, <1>1 DEF PlacementRelease
    <3>4. \A r \in Current : decision[r] # "none" => r \in slipped \/ TopicRow(r) \in p.eligible
      BY <3>2, <1>1 DEF Covering, Placing
    <3> HIDE DEF p
    <3> QED
      BY <3>3, <3>4, <1>3 DEF Covering, Placing, HasTopic, TopicRow
  <2>4. CASE AcceptPlacements(s)
    <3>1. placing'[s] = [p EXCEPT !.step = "accepted", !.accepts = ToAccept(s)]
      BY <2>4, <1>1 DEF AcceptPlacements
    <3>2. p.step = "materialised"
      BY <2>4 DEF AcceptPlacements, Placing
    <3>3. /\ placing'[s].step = "accepted" /\ placing'[s].inserted = p.inserted
          /\ placing'[s].accepts = ToAccept(s)
      BY <3>1, <1>1 DEF PlacementRelease
    <3>4. \A r \in ToAccept(s) : decision[r] # "none" /\ HasTopic(s, r)
      BY <3>2, <1>1 DEF ToAccept, Covering, Placing
    <3> HIDE DEF p
    <3> QED
      BY <3>3, <3>4, <1>3 DEF Covering, Placing, HasTopic, TopicRow, p
  <2>5. CASE AuditPlacements(s)
    <3>1. /\ placing'[s].step = "announcing" /\ placing'[s].inserted = p.inserted
          /\ placing'[s].accepts = p.accepts
      BY <2>5, <1>1 DEF AuditPlacements, PlacementRelease
    <3> QED
      BY <3>1, <1>1, <1>3 DEF Covering, Placing, HasTopic, TopicRow
  <2> QED
    BY <2>1, <2>2, <2>3, <2>4, <2>5 DEF PlacingMoves
<1>6. AcceptedIsMaterialised'
  BY <1>3 DEF Covered, AcceptedIsMaterialised, TopicRow
<1> QED
  BY <1>4, <1>5, <1>6 DEF Covered, Others

LEMMA CommitPlacementsCovers ==
  ASSUME TypeOK, Covered, NEW s \in Sessions, CommitPlacements(s)
  PROVE  Covered'
<1> DEFINE p == placing[s]
<1>1. /\ topics' = topics \cup p.inserted
      /\ decision' = [r \in Revisions |-> IF r \in p.accepts THEN "accepted" ELSE decision[r]]
      /\ UNCHANGED <<current, slipped, Current>>
      /\ placing' = [placing EXCEPT ![s] = NotPlacing]
  BY DEF CommitPlacements, history, Current, Published
<1>2. placing \in [Sessions -> PlacementRelease] /\ Covering(s) /\ Current \subseteq Revisions
  BY CurrentRevisions DEF TypeOK, Covered
<1>3. \A r \in Revisions : decision'[r] # "none" => decision[r] # "none"
  BY <1>1, <1>2 DEF Covering
<1>4. ASSUME NEW t \in Sessions PROVE Covering(t)'
  <2>1. CASE t = s
    BY <2>1, <1>1, <1>2 DEF Covering, NotPlacing, Placing
  <2>2. CASE t # s
    <3>1. placing'[t] = placing[t] /\ Covering(t) /\ placing[t].accepts \subseteq Revisions
      BY <2>2, <1>1, <1>2 DEF Covered, PlacementRelease
    <3>2. \A r \in placing[t].accepts : decision'[r] # "none"
      BY <3>1, <1>1 DEF Covering
    <3> QED
      BY <3>1, <3>2, <1>1, <1>2, <1>3 DEF Covering, HasTopic, Placing, TopicRow
  <2> QED
    BY <2>1, <2>2
<1>5. AcceptedIsMaterialised'
  <2> SUFFICES ASSUME NEW r \in Revisions, decision'[r] = "accepted"
               PROVE  r \in slipped \/ TopicRow(r) \in topics'
    BY <1>1 DEF AcceptedIsMaterialised, TopicRow
  <2>1. CASE r \in p.accepts
    BY <2>1, <1>1, <1>2 DEF Covering, HasTopic
  <2>2. CASE r \notin p.accepts
    BY <2>2, <1>1 DEF Covered, AcceptedIsMaterialised
  <2> QED
    BY <2>1, <2>2
<1> QED
  BY <1>4, <1>5 DEF Covered

LEMMA StepCovers == TypeOK /\ Covered /\ [Next]_vars => Covered'
<1> SUFFICES ASSUME TypeOK, Covered, [Next]_vars PROVE Covered'
  OBVIOUS
<1>1. ASSUME NEW s \in Sessions, WritingMoves(s) \/ CommitMapping(s) PROVE Covered'
  <2>1. UNCHANGED <<current, decision, topics, slipped, placing>>
    BY <1>1 DEF WritingMoves, StartMapping, UpsertMapping, AuditMapping, CommitMapping, data,
       history
  <2> QED
    BY <2>1 DEF Covered, Covering, HasTopic, Placing, TopicRow, AcceptedIsMaterialised,
       Current, Published
<1>2. ASSUME NEW s \in Sessions, Stop(s) PROVE Covered'
  <2>1. /\ UNCHANGED <<decision, topics, slipped, Current>>
        /\ \A t \in Sessions : placing'[t] = placing[t] \/ placing'[t] = NotPlacing
    BY <1>2 DEF Stop, data, history, Current, Published, TypeOK
  <2>2. ASSUME NEW t \in Sessions PROVE Covering(t)'
    BY <2>1 DEF Covered, Covering, HasTopic, Placing, TopicRow, NotPlacing
  <2> QED
    BY <2>1, <2>2 DEF Covered, TopicRow, AcceptedIsMaterialised
<1>3. CASE UNCHANGED vars
  BY <1>3 DEF vars, data, history, Covered, Covering, HasTopic, Placing, TopicRow,
     AcceptedIsMaterialised, Current, Published
<1> QED
  BY <1>1, <1>2, <1>3, PublishedCovers, PlacingMovesCover, CommitPlacementsCovers
     DEF Next, PlacingMoves, WritingMoves

LEMMA InitCovers == Init => Covered
  BY DEF Init, Covered, Covering, NotPlacing, Placing, AcceptedIsMaterialised

(* Whatever releases and publications overlap, an accepted placement has   *)
(* its topic, or its revision was published while topics were inserted.    *)
THEOREM MaterialisedHolds == Spec => []AcceptedIsMaterialised
<1>1. IInv => TypeOK
  BY DEF IInv
<1>2. Spec => []Covered
  BY <1>1, IInvHolds, InitCovers, StepCovers, PTL DEF Spec
<1>3. Covered => AcceptedIsMaterialised
  BY DEF Covered
<1> QED
  BY <1>2, <1>3, PTL

=============================================================================

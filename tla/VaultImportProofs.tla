-------------------------- MODULE VaultImportProofs --------------------------
(***************************************************************************)
(* Proofs about VaultImport, for any number of runs, files, questions and  *)
(* changes by others.  The invariant follows one run: what it has recorded *)
(* is what it has listed without what is left to do, and what it has in    *)
(* hand is stored before it is recorded.  Steps of anybody else touch none *)
(* of its variables, and never remove a revision or an edge proposal.      *)
(***************************************************************************)
EXTENDS VaultImport, TLAPS

(* A run whose records are complete up to what is left to do.              *)
Whole(r) == Live(r) \/ row[r] = "succeeded"

(* Where one run stands.                                                   *)
Position(r) ==
    /\ stage[r] = "off" => row[r] = "none" /\ Recorded(r) = {}
    /\ row[r] = "succeeded" => stage[r] = "ended" /\ todo[r] = {}
    /\ Whole(r) => Recorded(r) = listed[r] \ todo[r] /\ todo[r] \subseteq listed[r]
    /\ stage[r] \in {"upsert", "stored"} => hand[r] \in Cards
    /\ stage[r] = "archived" => todo[r] = {}

(* What it is about to record.                                             *)
InHand(r) ==
    /\ stage[r] = "stored" => action[r] \in Stored /\ Exists(hand[r].q, hand[r].h)
    /\ stage[r] = "record" => action[r] # "none"
    /\ stage[r] = "record" /\ action[r] \in Stored =>
          /\ hand[r] \in Cards /\ Exists(hand[r].q, hand[r].h)
          /\ action[r] # "unchanged" => hand[r] \in edges

Records ==
    /\ TypeOK
    /\ \A r \in Runs : Position(r) /\ InHand(r)
    /\ RecordedIsStored

-----------------------------------------------------------------------------
LEMMA CardFields ==
  ASSUME NEW c \in Cards
  PROVE  c.q \in Questions /\ c.h \in Hashes /\ c.h # NoRev /\ c \in Content
  BY ConstantsAssumption DEF Content

(* Storing a card: the tables stay typed and no revision disappears.       *)
LEMMA Written ==
  ASSUME TypeOK, NEW c \in Cards, NEW ref \in Refs, WriteRevision(c, ref)
  PROVE  /\ current' \in [Questions -> Hashes \cup {NoRev}]
         /\ source' \in [Questions -> [Hashes -> Refs \cup {NoRef}]]
         /\ \A q \in Questions, h \in Hashes : Exists(q, h) => Exists(q, h)'
         /\ Exists(c.q, c.h)'
         /\ current'[c.q] = c.h
         /\ \A q \in Questions : q # c.q => current'[q] = current[q]
         /\ \A q \in Questions : current'[q] # NoRev => source'[q][current'[q]] # NoRef
<1>1. c.q \in Questions /\ c.h \in Hashes /\ ref # NoRef
  BY CardFields, ConstantsAssumption DEF Refs
<1>2. current' = [current EXCEPT ![c.q] = c.h]
  BY DEF WriteRevision, PointerAfter
<1>3. /\ current' \in [Questions -> Hashes \cup {NoRev}]
      /\ current'[c.q] = c.h
      /\ \A q \in Questions : q # c.q => current'[q] = current[q]
  BY <1>1, <1>2 DEF TypeOK
<1>4. /\ source' \in [Questions -> [Hashes -> Refs \cup {NoRef}]]
      /\ \A q \in Questions, h \in Hashes : source[q][h] # NoRef => source'[q][h] # NoRef
      /\ source'[c.q][c.h] # NoRef
  <2>1. CASE Exists(c.q, c.h)
    BY <1>1, <2>1 DEF WriteRevision, TypeOK, Exists
  <2>2. CASE ~Exists(c.q, c.h)
    <3>1. source' = [source EXCEPT ![c.q][c.h] = ref]
      BY <2>2 DEF WriteRevision
    <3> QED
      BY <1>1, <3>1 DEF TypeOK
  <2> QED
    BY <2>1, <2>2
<1>5. \A q \in Questions : current'[q] # NoRev => source'[q][current'[q]] # NoRef
  BY <1>1, <1>3, <1>4 DEF TypeOK, Exists
<1> QED
  BY <1>3, <1>4, <1>5 DEF Exists

(* Every step keeps the types, every revision and every edge proposal.     *)
Kept == /\ TypeOK'
        /\ \A q \in Questions, h \in Hashes : Exists(q, h) => Exists(q, h)'
        /\ edges \subseteq edges'

LEMMA RunTyped ==
  ASSUME Records, NEW r \in Runs, RunStep(r)
  PROVE  Kept
<1> USE DEF Records, Kept, Exists
<1>1. CASE \E m \in Modes, chosen \in SUBSET Files : StartRun(r, m, chosen)
  BY <1>1, SMTT(20) DEF StartRun, TypeOK, tables, Stages
<1>2. CASE ReadFile(r)
  BY <1>2, SMTT(20) DEF ReadFile, TypeOK, tables, records, process, Stages, Content
<1>3. CASE RefuseFile(r)
  <2>1. PICK f \in todo[r] : hand' = [hand EXCEPT ![r] = disk[f]]
    BY <1>3 DEF RefuseFile
  <2>2. f \in Files
    BY <2>1 DEF TypeOK
  <2> QED
    BY <1>3, <2>1, <2>2, SMTT(20)
       DEF RefuseFile, TypeOK, tables, records, process, Stages, Actions
<1>4. CASE UpsertCard(r)
  <2>1. PICK f \in todo[r] : WriteRevision(hand[r], f)
    BY <1>4 DEF UpsertCard
  <2>2. f \in Refs /\ hand[r] \in Cards /\ hand[r].q \in Questions
    BY <1>4, <2>1, CardFields DEF UpsertCard, Position, TypeOK, Refs
  <2>3. /\ status' \in [Questions -> Statuses]
        /\ action' \in [Runs -> Actions]
        /\ stage' \in [Runs -> Stages]
        /\ quiet' \subseteq Runs
    BY <1>4, <2>2, SMTT(20)
       DEF UpsertCard, TypeOK, Statuses, Actions, Stored, Stages, ActionFor, ChangedBy
  <2>4. UNCHANGED <<disk, edges, row, item, mode, listed, todo, hand, others>>
    BY <1>4 DEF UpsertCard, records, process
  <2> QED
    BY <2>1, <2>2, <2>3, <2>4, Written DEF TypeOK
<1>5. CASE FailUpsert(r)
  BY <1>5, SMTT(20) DEF FailUpsert, TypeOK, tables, records, process, Stages, Actions
<1>6. CASE MaterializeImportEdgeProposals(r)
  BY <1>6, SMTT(20)
     DEF MaterializeImportEdgeProposals, Position, TypeOK, records, process, Stages
<1>7. CASE FailAfterCommit(r)
  BY <1>7, SMTT(20)
     DEF FailAfterCommit, ActionAfterError, TypeOK, tables, records, process, Stages, Actions
<1>8. CASE RecordImportItem(r)
  <2>1. PICK f \in todo[r] : /\ item' = [item EXCEPT ![r][f] = ItemOf(r)]
                             /\ todo' = [todo EXCEPT ![r] = @ \ {f}]
    BY <1>8 DEF RecordImportItem
  <2>2. f \in Files /\ ItemOf(r) \in Items
    BY <2>1 DEF TypeOK, ItemOf, Items
  <2>3. item' \in [Runs -> [Files -> Items]]
    BY <2>1, <2>2 DEF TypeOK
  <2> QED
    BY <1>8, <2>1, <2>3, SMTT(20)
       DEF RecordImportItem, TypeOK, tables, Stages, Actions, Content
<1>9. CASE \E skipped \in SUBSET HeldByOthers(r) : ArchiveMissingSourceQuestions(r, skipped)
  BY <1>9, SMTT(20)
     DEF ArchiveMissingSourceQuestions, ChangedBy, TypeOK, Statuses, records, process, Stages
<1>10. CASE FinishImportRun(r)
  BY <1>10, SMTT(20) DEF FinishImportRun, TypeOK, tables, process, Stages
<1>11. CASE \E verdict \in {"running", "failed"} : EndEarly(r, verdict)
  BY <1>11, SMTT(20) DEF EndEarly, TypeOK, tables, Stages, Actions, Content
<1> QED
  BY <1>1, <1>2, <1>3, <1>4, <1>5, <1>6, <1>7, <1>8, <1>9, <1>10, <1>11 DEF RunStep

LEMMA OtherTyped ==
  ASSUME Records, OtherStep
  PROVE  Kept
<1> USE DEF Records, Kept
<1>1. Other /\ others' \in 0..MaxOthers /\ quiet' \subseteq Runs
  BY ConstantsAssumption
     DEF OtherStep, EditFile, MoveFile, PublishCard, RollbackQuestion, Other, TypeOK
<1>2. CASE \E f \in Files, c \in Content : EditFile(f, c)
  BY <1>1, <1>2, SMTT(20) DEF EditFile, TypeOK, tables, records, process, Exists
<1>3. CASE \E f \in Files, g \in Files : MoveFile(f, g)
  <2>1. PICK f \in Files, g \in Files : MoveFile(f, g)
    BY <1>3
  <2>2. NoFile \in Content /\ disk[f] \in Content
    BY DEF TypeOK, Content
  <2>3. disk' \in [Files -> Content]
    BY <2>1, <2>2 DEF MoveFile, TypeOK
  <2>4. UNCHANGED <<tables, records, stage, process, hand, action>>
    BY <2>1 DEF MoveFile
  <2> QED
    BY <1>1, <2>3, <2>4 DEF TypeOK, tables, records, process, Exists
<1>4. CASE \E c \in Cards, ref \in Refs : PublishCard(c, ref)
  <2>1. PICK c \in Cards, ref \in Refs : PublishCard(c, ref)
    BY <1>4
  <2>2. /\ status' \in [Questions -> Statuses]
        /\ edges' \subseteq Cards /\ edges \subseteq edges'
        /\ UNCHANGED <<disk, row, item, stage, mode, listed, todo, hand, action>>
    BY <2>1 DEF PublishCard, TypeOK, Statuses, records, process
  <2>3. WriteRevision(c, ref) /\ TypeOK
    BY <2>1 DEF PublishCard
  <2>4. /\ current' \in [Questions -> Hashes \cup {NoRev}]
        /\ source' \in [Questions -> [Hashes -> Refs \cup {NoRef}]]
        /\ \A q \in Questions, h \in Hashes : Exists(q, h) => Exists(q, h)'
        /\ \A q \in Questions : current'[q] # NoRev => source'[q][current'[q]] # NoRef
    BY <2>3, Written
  <2> QED
    BY <1>1, <2>2, <2>3, <2>4 DEF TypeOK, Exists
<1>5. CASE \E q \in Questions, h \in Hashes : RollbackQuestion(q, h)
  BY <1>1, <1>5, SMTT(20)
     DEF RollbackQuestion, TypeOK, Statuses, records, process, Exists
<1> QED
  BY <1>2, <1>3, <1>4, <1>5 DEF OtherStep

-----------------------------------------------------------------------------
(* What a step of somebody else leaves of run r.                           *)
Untouched(r) ==
    /\ stage'[r] = stage[r] /\ mode'[r] = mode[r] /\ listed'[r] = listed[r]
    /\ todo'[r] = todo[r] /\ hand'[r] = hand[r] /\ action'[r] = action[r]
    /\ row'[r] = row[r] /\ item'[r] = item[r]

LEMMA OnlyOwnRun ==
  ASSUME TypeOK, NEW r \in Runs, NEW s \in Runs, s # r, RunStep(s) \/ OtherStep
  PROVE  Untouched(r)
<1> USE DEF TypeOK, Untouched, records, process
<1>1. CASE RunStep(s)
  <2>1. CASE \E m \in Modes, chosen \in SUBSET Files : StartRun(s, m, chosen)
    BY <2>1 DEF StartRun
  <2>2. CASE ReadFile(s)
    BY <2>2 DEF ReadFile
  <2>3. CASE RefuseFile(s)
    BY <2>3 DEF RefuseFile
  <2>4. CASE UpsertCard(s)
    BY <2>4 DEF UpsertCard
  <2>5. CASE FailUpsert(s)
    BY <2>5 DEF FailUpsert
  <2>6. CASE MaterializeImportEdgeProposals(s)
    BY <2>6 DEF MaterializeImportEdgeProposals
  <2>7. CASE FailAfterCommit(s)
    BY <2>7 DEF FailAfterCommit
  <2>8. CASE RecordImportItem(s)
    BY <2>8 DEF RecordImportItem
  <2>9. CASE \E skipped \in SUBSET HeldByOthers(s) : ArchiveMissingSourceQuestions(s, skipped)
    BY <2>9 DEF ArchiveMissingSourceQuestions
  <2>10. CASE FinishImportRun(s)
    BY <2>10 DEF FinishImportRun
  <2>11. CASE \E verdict \in {"running", "failed"} : EndEarly(s, verdict)
    BY <2>11 DEF EndEarly
  <2> QED
    BY <1>1, <2>1, <2>2, <2>3, <2>4, <2>5, <2>6, <2>7, <2>8, <2>9, <2>10, <2>11 DEF RunStep
<1>2. CASE OtherStep
  BY <1>2 DEF OtherStep, EditFile, MoveFile, PublishCard, RollbackQuestion
<1> QED
  BY <1>1, <1>2

LEMMA OthersTouchNothing ==
  ASSUME TypeOK, NEW r \in Runs, OtherStep
  PROVE  Untouched(r)
  BY DEF OtherStep, EditFile, MoveFile, PublishCard, RollbackQuestion, TypeOK, Untouched,
         records, process

(* The items of run r that name a stored card.                             *)
Truthful(r) ==
    \A f \in Files :
        LET i == item[r][f]
        IN  i.action \in Stored =>
              /\ i.card \in Cards /\ Exists(i.card.q, i.card.h)
              /\ i.action # "unchanged" => i.card \in edges

LEMMA UntouchedKept ==
  ASSUME Records, Kept, NEW r \in Runs, Untouched(r)
  PROVE  Position(r)' /\ InHand(r)' /\ Truthful(r)'
<1>1. Position(r) /\ InHand(r) /\ Truthful(r)
  BY DEF Records, RecordedIsStored, Truthful
<1>2. Recorded(r)' = Recorded(r) /\ (Whole(r))' = Whole(r)
  BY DEF Untouched, Recorded, Whole, Live
<1>3. Position(r)'
  BY <1>1, <1>2 DEF Position, Untouched
<1>4. \A c \in Cards : Exists(c.q, c.h) => Exists(c.q, c.h)'
  BY CardFields DEF Kept
<1>5. InHand(r)'
  BY <1>1, <1>4 DEF InHand, Untouched, Kept, Position, Exists
<1>6. Truthful(r)'
  BY <1>1, <1>4 DEF Truthful, Untouched, Kept, Exists
<1> QED
  BY <1>3, <1>5, <1>6

(* The steps of run r itself.                                              *)
LEMMA RunSafe ==
  ASSUME Records, Kept, NEW r \in Runs, RunStep(r)
  PROVE  Position(r)' /\ InHand(r)' /\ Truthful(r)'
<1> USE DEF TypeOK
<1>0. Position(r) /\ InHand(r) /\ Truthful(r) /\ TypeOK /\ TypeOK'
  BY DEF Records, RecordedIsStored, Truthful, Kept
<1>a. \A c \in Cards : Exists(c.q, c.h) => Exists(c.q, c.h)'
  BY CardFields DEF Kept
<1>b. ASSUME item'[r] = item[r] PROVE Recorded(r)' = Recorded(r) /\ Truthful(r)'
  BY <1>0, <1>a, <1>b DEF Recorded, Truthful, Kept, Exists
<1>1. CASE \E m \in Modes, chosen \in SUBSET Files : StartRun(r, m, chosen)
  <2>1. item'[r] = item[r]
    BY <1>1 DEF StartRun
  <2>2. /\ stage[r] = "off" /\ stage'[r] = "next" /\ listed'[r] = todo'[r]
        /\ row'[r] = "running"
    BY <1>0, <1>1 DEF StartRun
  <2> QED
    BY <1>0, <1>b, <2>1, <2>2 DEF Position, InHand, Whole, Live
<1>2. CASE ReadFile(r)
  <2>1. item'[r] = item[r] /\ UNCHANGED <<listed, todo, row>>
    BY <1>2 DEF ReadFile, records, process
  <2>2. stage[r] = "next" /\ stage'[r] = "upsert" /\ hand'[r] \in Cards
    BY <1>0, <1>2 DEF ReadFile
  <2> QED
    BY <1>0, <1>b, <2>1, <2>2 DEF Position, InHand, Whole, Live
<1>3. CASE RefuseFile(r)
  <2>1. item'[r] = item[r] /\ UNCHANGED <<listed, todo, row>>
    BY <1>3 DEF RefuseFile, records, process
  <2>2. stage[r] = "next" /\ stage'[r] = "record" /\ action'[r] = "invalid"
    BY <1>0, <1>3 DEF RefuseFile
  <2> QED
    BY <1>0, <1>b, <2>1, <2>2 DEF Position, InHand, Whole, Live, Stored
<1>4. CASE UpsertCard(r)
  <2>1. item'[r] = item[r] /\ UNCHANGED <<listed, todo, row, hand>>
    BY <1>4 DEF UpsertCard, records, process
  <2>2. stage[r] = "upsert" /\ stage'[r] = "stored" /\ action'[r] \in Stored
    BY <1>0, <1>4 DEF UpsertCard, ActionFor, Stored
  <2>3. hand[r] \in Cards
    BY <1>0, <2>2 DEF Position
  <2>4. PICK f \in todo[r] : WriteRevision(hand[r], f)
    BY <1>4 DEF UpsertCard
  <2>5. Exists(hand[r].q, hand[r].h)'
    BY <1>0, <2>1, <2>3, <2>4, Written DEF Refs, Exists
  <2> QED
    BY <1>0, <1>b, <2>1, <2>2, <2>3, <2>5 DEF Position, InHand, Whole, Live, Exists
<1>5. CASE FailUpsert(r)
  <2>1. item'[r] = item[r] /\ UNCHANGED <<listed, todo, row>>
    BY <1>5 DEF FailUpsert, records, process
  <2>2. stage[r] = "upsert" /\ stage'[r] = "record" /\ action'[r] = "invalid"
    BY <1>0, <1>5 DEF FailUpsert
  <2> QED
    BY <1>0, <1>b, <2>1, <2>2 DEF Position, InHand, Whole, Live, Stored
<1>6. CASE MaterializeImportEdgeProposals(r)
  <2>1. item'[r] = item[r] /\ UNCHANGED <<listed, todo, row, hand, action, source>>
    BY <1>6 DEF MaterializeImportEdgeProposals, records, process
  <2>2. /\ stage[r] = "stored" /\ stage'[r] = "record"
        /\ action[r] # "unchanged" => hand[r] \in edges'
    BY <1>0, <1>6 DEF MaterializeImportEdgeProposals
  <2> QED
    BY <1>0, <1>b, <2>1, <2>2 DEF Position, InHand, Whole, Live, Stored, Exists
<1>7. CASE FailAfterCommit(r)
  <2>1. item'[r] = item[r] /\ UNCHANGED <<listed, todo, row>>
    BY <1>7 DEF FailAfterCommit, records, process
  <2>2. stage[r] = "stored" /\ stage'[r] = "record" /\ action'[r] = "invalid"
    BY <1>0, <1>7 DEF FailAfterCommit, ActionAfterError
  <2> QED
    BY <1>0, <1>b, <2>1, <2>2 DEF Position, InHand, Whole, Live, Stored
<1>8. CASE RecordImportItem(r)
  <2>1. PICK f \in todo[r] : /\ item' = [item EXCEPT ![r][f] = ItemOf(r)]
                             /\ todo' = [todo EXCEPT ![r] = @ \ {f}]
    BY <1>8 DEF RecordImportItem
  <2>2. /\ stage[r] = "record" /\ stage'[r] = "next"
        /\ UNCHANGED <<listed, row, source, edges>>
    BY <1>0, <1>8 DEF RecordImportItem, tables
  <2>3. f \in Files /\ todo'[r] = todo[r] \ {f}
    BY <1>0, <2>1
  <2>4. item'[r] = [item[r] EXCEPT ![f] = ItemOf(r)]
    BY <1>0, <2>1
  <2>5. ItemOf(r).action = action[r] /\ ItemOf(r).card = hand[r] /\ action[r] # "none"
    BY <1>0, <2>2 DEF ItemOf, InHand
  <2>6. item'[r][f] = ItemOf(r) /\ \A g \in Files : g # f => item'[r][g] = item[r][g]
    BY <1>0, <2>3, <2>4
  <2>7. Recorded(r)' = Recorded(r) \cup {f}
    BY <2>3, <2>5, <2>6 DEF Recorded
  <2>8. Truthful(r)'
    BY <1>0, <2>2, <2>5, <2>6 DEF Truthful, InHand, Exists
  <2> QED
    BY <1>0, <2>1, <2>2, <2>3, <2>7, <2>8 DEF Position, InHand, Whole, Live
<1>9. CASE \E skipped \in SUBSET HeldByOthers(r) : ArchiveMissingSourceQuestions(r, skipped)
  <2>1. item'[r] = item[r] /\ UNCHANGED <<listed, todo, row>>
    BY <1>9 DEF ArchiveMissingSourceQuestions, records, process
  <2>2. stage[r] = "next" /\ stage'[r] = "archived" /\ todo[r] = {}
    BY <1>0, <1>9 DEF ArchiveMissingSourceQuestions
  <2> QED
    BY <1>0, <1>b, <2>1, <2>2 DEF Position, InHand, Whole, Live
<1>10. CASE FinishImportRun(r)
  <2>1. item'[r] = item[r] /\ UNCHANGED <<listed, todo>>
    BY <1>10 DEF FinishImportRun, process
  <2>2. /\ stage[r] \in {"next", "archived"} /\ stage'[r] = "ended"
        /\ todo[r] = {} /\ row'[r] = "succeeded"
    BY <1>0, <1>10 DEF FinishImportRun
  <2> QED
    BY <1>0, <1>b, <2>1, <2>2 DEF Position, InHand, Whole, Live
<1>11. CASE \E verdict \in {"running", "failed"} : EndEarly(r, verdict)
  <2>1. item'[r] = item[r] /\ row'[r] \in {"running", "failed"} /\ stage'[r] = "ended"
    BY <1>0, <1>11 DEF EndEarly
  <2> QED
    BY <1>0, <1>b, <2>1 DEF Position, InHand, Whole, Live
<1> QED
  BY <1>1, <1>2, <1>3, <1>4, <1>5, <1>6, <1>7, <1>8, <1>9, <1>10, <1>11 DEF RunStep

LEMMA NextRecords ==
  ASSUME Records, [Next]_vars
  PROVE  Records' /\ Kept
<1>1. CASE Next
  <2>1. Kept
    BY <1>1, RunTyped, OtherTyped DEF Next
  <2>2. ASSUME NEW r \in Runs PROVE Position(r)' /\ InHand(r)' /\ Truthful(r)'
    <3>1. CASE RunStep(r)
      BY <2>1, <3>1, RunSafe
    <3>2. CASE ~RunStep(r)
      BY <1>1, <2>1, <3>2, OnlyOwnRun, OthersTouchNothing, UntouchedKept DEF Next, Records
    <3> QED
      BY <3>1, <3>2
  <2> QED
    BY <2>1, <2>2 DEF Records, RecordedIsStored, Truthful, Kept
<1>2. CASE UNCHANGED vars
  <2>1. Kept /\ \A r \in Runs : Untouched(r)
    BY <1>2 DEF vars, tables, records, process, Kept, Untouched, Records, TypeOK, Exists
  <2> QED
    BY <2>1, UntouchedKept DEF Records, RecordedIsStored, Truthful, Kept
<1> QED
  BY <1>1, <1>2

LEMMA InitRecords ==
  ASSUME Init
  PROVE  Records
<1>1. TypeOK
  BY ConstantsAssumption
     DEF Init, TypeOK, Content, Statuses, Items, NoItem, Actions, Stages, Modes, Exists
<1>2. \A r \in Runs : Recorded(r) = {} /\ ~Whole(r)
  BY DEF Init, Recorded, NoItem, Whole, Live
<1> QED
  BY <1>1, <1>2 DEF Init, Records, Position, InHand, RecordedIsStored, NoItem, Stored

LEMMA RecordsStay == Spec => []Records
  BY InitRecords, NextRecords, PTL DEF Spec

(* Shapes of the runs, their items and the tables they write.              *)
THEOREM TypesHold == Spec => []TypeOK
<1>1. Records => TypeOK
  BY DEF Records
<1> QED
  BY <1>1, RecordsStay, PTL

(* An item that says "stored" is true of the tables: the card and its item *)
(* are two statements, the item after the card.                            *)
THEOREM RecordsHold == Spec => []RecordedIsStored
<1>1. Records => RecordedIsStored
  BY DEF Records
<1> QED
  BY <1>1, RecordsStay, PTL

-----------------------------------------------------------------------------
(* Archiving: the statement of a run is the only step that archives, and   *)
(* when it runs, every file of the run's list has an item.                 *)
OnlyUnlisted ==
    \A q \in Questions :
        status[q] # "archived" /\ status'[q] = "archived"
        => \E r \in Runs : /\ stage[r] = "next" /\ stage'[r] = "archived"
                           /\ mode[r] = "reconcile"
                           /\ source[q][current[q]] \in Files \ listed[r]

LEMMA ArchivingStep ==
  ASSUME TypeOK, NEW q \in Questions, status[q] # "archived", status'[q] = "archived",
         [Next]_vars
  PROVE  \E r \in Runs, skipped \in SUBSET Questions :
            ArchiveMissingSourceQuestions(r, skipped) /\ q \in Missing(r)
<1>1. CASE UNCHANGED vars
  BY <1>1 DEF vars, tables
<1>2. CASE OtherStep
  BY <1>2 DEF OtherStep, EditFile, MoveFile, PublishCard, RollbackQuestion, tables, TypeOK
<1>3. ASSUME NEW r \in Runs, RunStep(r)
      PROVE  \E skipped \in SUBSET Questions :
                ArchiveMissingSourceQuestions(r, skipped) /\ q \in Missing(r)
  <2>1. status'[q] = status[q] \/ \E skipped \in SUBSET HeldByOthers(r) :
                                    ArchiveMissingSourceQuestions(r, skipped)
    <3>1. CASE UpsertCard(r)
      BY <3>1 DEF UpsertCard, TypeOK
    <3> QED
      BY <1>3, <3>1
         DEF RunStep, StartRun, ReadFile, RefuseFile, FailUpsert, FailAfterCommit,
             MaterializeImportEdgeProposals, RecordImportItem, FinishImportRun, EndEarly,
             tables
  <2>2. PICK skipped \in SUBSET HeldByOthers(r) : ArchiveMissingSourceQuestions(r, skipped)
    BY <2>1
  <2>3. q \in Missing(r)
    BY <2>2 DEF ArchiveMissingSourceQuestions
  <2> QED
    BY <2>2, <2>3 DEF HeldByOthers
<1> QED
  BY <1>1, <1>2, <1>3 DEF Next

LEMMA NextOnlyUnlisted ==
  ASSUME Records, [Next]_vars
  PROVE  OnlyUnlisted
<1> SUFFICES ASSUME NEW q \in Questions, status[q] # "archived", status'[q] = "archived"
             PROVE  \E r \in Runs : /\ stage[r] = "next" /\ stage'[r] = "archived"
                                    /\ mode[r] = "reconcile"
                                    /\ source[q][current[q]] \in Files \ listed[r]
  BY DEF OnlyUnlisted
<1>1. PICK r \in Runs, skipped \in SUBSET Questions :
         ArchiveMissingSourceQuestions(r, skipped) /\ q \in Missing(r)
  BY ArchivingStep DEF Records
<1>2. /\ stage[r] = "next" /\ stage'[r] = "archived"
      /\ mode[r] = "reconcile" /\ todo[r] = {}
  BY <1>1 DEF ArchiveMissingSourceQuestions, Records, TypeOK
<1>3. Recorded(r) = listed[r]
  BY <1>2 DEF Records, Position, Whole, Live
<1> QED
  BY <1>1, <1>2, <1>3 DEF Missing

(* A pass over the whole root is the only thing that archives, and it      *)
(* spares every question whose file it found, readable or not.             *)
THEOREM ArchivingHolds == Spec => ArchivesOnlyUnlisted
<1>1. Records /\ [Next]_vars => [OnlyUnlisted]_vars
  BY NextOnlyUnlisted
<1> QED
  BY <1>1, InitRecords, NextRecords, PTL DEF Spec, ArchivesOnlyUnlisted, OnlyUnlisted

-----------------------------------------------------------------------------
(* A run that nobody disturbed.  Files are recorded in path order, so the  *)
(* card of a recorded file is current unless a later file of its question  *)
(* was recorded, or is in hand.                                            *)
InOrder(r) == Whole(r) => \A f \in Recorded(r), g \in todo[r] : f < g

Pending(r, q) == /\ stage[r] \in {"stored", "record"}
                 /\ hand[r] \in Cards /\ hand[r].q = q

Lasting(r, f) ==
    \A g \in Recorded(r) : g > f /\ item[r][g].card \in Cards
                           => item[r][g].card.q # item[r][f].card.q

FilesWin(r) ==
    \A f \in Recorded(r) :
        /\ item[r][f].action \in Stored
        /\ Lasting(r, f) /\ ~Pending(r, item[r][f].card.q)
        => current[item[r][f].card.q] = item[r][f].card.h

HandWins(r) ==
    stage[r] \in {"stored", "record"} /\ action[r] \in Stored
    => current[hand[r].q] = hand[r].h

Swept(r) ==
    (stage[r] = "archived" \/ row[r] = "succeeded") /\ mode[r] = "reconcile" =>
        \A q \in Questions :
            current[q] # NoRev /\ source[q][current[q]] \in Files \ listed[r]
            => status[q] = "archived"

Settled(r) == Whole(r) => FilesWin(r) /\ HandWins(r) /\ Swept(r)

Undisturbed == /\ Records
               /\ \A r \in Runs : InOrder(r)
               /\ \A r \in quiet : Settled(r)

LEMMA FileOrder ==
  ASSUME TypeOK, NEW r \in Runs
  PROVE  todo[r] \subseteq Nat /\ Recorded(r) \subseteq Nat
<1>1. todo[r] \subseteq Files
  BY DEF TypeOK
<1>2. Recorded(r) \subseteq Files
  BY DEF Recorded
<1> QED
  BY <1>1, <1>2, ConstantsAssumption

(* What keeps a run quiet leaves the questions alone.                      *)
LEMMA QuietStep ==
  ASSUME Records, NEW r \in Runs, r \in quiet', ~RunStep(r), [Next]_vars
  PROVE  /\ r \in quiet /\ UNCHANGED <<status, current, source>> /\ Untouched(r)
<1>1. CASE UNCHANGED vars
  BY <1>1 DEF vars, tables, records, process, Untouched
<1>2. CASE OtherStep
  BY <1>2 DEF OtherStep, EditFile, MoveFile, PublishCard, RollbackQuestion, Other
<1>3. ASSUME NEW s \in Runs, RunStep(s)
      PROVE  r \in quiet /\ UNCHANGED <<status, current, source>> /\ Untouched(r)
  <2>1. Untouched(r)
    BY <1>3, OnlyOwnRun DEF Records
  <2>2. ~UpsertCard(s)
    BY <1>3 DEF UpsertCard, ChangedBy
  <2>3. \A skipped \in SUBSET HeldByOthers(s) : ~ArchiveMissingSourceQuestions(s, skipped)
    BY <1>3 DEF ArchiveMissingSourceQuestions, ChangedBy
  <2>4. s # r
    BY <1>3
  <2> QED
    BY <1>3, <2>1, <2>2, <2>3, <2>4
       DEF RunStep, StartRun, ReadFile, RefuseFile, FailUpsert, FailAfterCommit,
           MaterializeImportEdgeProposals, RecordImportItem, FinishImportRun, EndEarly,
           tables
<1> QED
  BY <1>1, <1>2, <1>3 DEF Next

LEMMA UntouchedSettled ==
  ASSUME NEW r \in Runs, Settled(r), Untouched(r), UNCHANGED <<status, current, source>>
  PROVE  Settled(r)'
<1>1. Recorded(r)' = Recorded(r) /\ (Whole(r))' = Whole(r)
  BY DEF Untouched, Recorded, Whole, Live
<1>2. \A q : Pending(r, q)' = Pending(r, q)
  BY DEF Untouched, Pending
<1>3. \A f : Lasting(r, f)' = Lasting(r, f)
  BY <1>1 DEF Untouched, Lasting
<1>4. FilesWin(r)' = FilesWin(r)
  BY <1>1, <1>2, <1>3 DEF Untouched, FilesWin
<1>5. HandWins(r)' = HandWins(r) /\ Swept(r)' = Swept(r)
  BY DEF Untouched, HandWins, Swept
<1> QED
  BY <1>1, <1>4, <1>5 DEF Settled

(* A file is recorded when it is the next one.                             *)
LEMMA RecordedInOrder ==
  ASSUME Records, Records', NEW r \in Runs, InOrder(r), [Next]_vars
  PROVE  InOrder(r)'
<1>1. CASE ~RunStep(r)
  <2>1. Untouched(r)
    BY <1>1, OnlyOwnRun, OthersTouchNothing
       DEF Next, Records, vars, records, process, Untouched
  <2> QED
    BY <2>1 DEF InOrder, Untouched, Recorded, Whole, Live
<1>2. CASE RecordImportItem(r)
  <2>1. PICK f \in todo[r] : /\ IsNextFile(r, f)
                             /\ item' = [item EXCEPT ![r][f] = ItemOf(r)]
                             /\ todo' = [todo EXCEPT ![r] = @ \ {f}]
    BY <1>2 DEF RecordImportItem
  <2>2. todo'[r] = todo[r] \ {f} /\ item'[r] = [item[r] EXCEPT ![f] = ItemOf(r)]
    BY <2>1 DEF Records, TypeOK
  <2>3. Recorded(r)' \subseteq Recorded(r) \cup {f}
    BY <2>2 DEF Recorded, Records, TypeOK
  <2>4. Whole(r)
    BY <1>2 DEF RecordImportItem, Whole, Live
  <2>5. \A g \in todo[r] \ {f} : f < g
    BY <2>1, FileOrder DEF IsNextFile, Records
  <2> QED
    BY <2>2, <2>3, <2>4, <2>5 DEF InOrder
<1>3. CASE \E m \in Modes, chosen \in SUBSET Files : StartRun(r, m, chosen)
  <2>1. Recorded(r)' = {}
    BY <1>3 DEF StartRun, Records, Position, Recorded
  <2> QED
    BY <2>1 DEF InOrder
<1>4. CASE \E verdict \in {"running", "failed"} : EndEarly(r, verdict)
  BY <1>4 DEF EndEarly, InOrder, Whole, Live, Records, TypeOK
<1>5. CASE RunStep(r) /\ ~RecordImportItem(r)
           /\ ~(\E m \in Modes, chosen \in SUBSET Files : StartRun(r, m, chosen))
           /\ ~(\E verdict \in {"running", "failed"} : EndEarly(r, verdict))
  <2>1. UNCHANGED <<item, todo>> /\ Whole(r)
    BY <1>5 DEF RunStep, ReadFile, RefuseFile, UpsertCard, FailUpsert, FailAfterCommit,
                MaterializeImportEdgeProposals, ArchiveMissingSourceQuestions,
                FinishImportRun, records, process, Whole, Live
  <2> QED
    BY <2>1 DEF InOrder, Recorded
<1> QED
  BY <1>1, <1>2, <1>3, <1>4, <1>5

(* The steps of an undisturbed run.                                        *)
LEMMA RunSettled ==
  ASSUME Records, Records', NEW r \in Runs, InOrder(r), InOrder(r)',
         RunStep(r), r \in quiet => Settled(r), r \in quiet'
  PROVE  Settled(r)'
<1>0. TypeOK /\ TypeOK' /\ Position(r) /\ InHand(r) /\ Position(r)' /\ InHand(r)'
  BY DEF Records
<1>a. ASSUME UNCHANGED item PROVE /\ Recorded(r)' = Recorded(r)
                                  /\ \A f : Lasting(r, f)' = Lasting(r, f)
  BY <1>a DEF Recorded, Lasting
<1>1. CASE \E m \in Modes, chosen \in SUBSET Files : StartRun(r, m, chosen)
  <2>1. UNCHANGED item /\ stage[r] = "off" /\ stage'[r] = "next" /\ row'[r] = "running"
    BY <1>0, <1>1 DEF StartRun, TypeOK
  <2>2. Recorded(r)' = {}
    BY <1>0, <1>a, <2>1 DEF Position
  <2> QED
    BY <2>1, <2>2 DEF Settled, FilesWin, HandWins, Swept
<1>2. CASE ReadFile(r) \/ RefuseFile(r) \/ FailUpsert(r)
  <2>1. UNCHANGED <<tables, records, process, quiet>> /\ Settled(r) /\ Whole(r)
    BY <1>2 DEF ReadFile, RefuseFile, FailUpsert, Whole, Live
  <2>2. /\ stage[r] \in {"next", "upsert"} /\ stage'[r] \in {"upsert", "record"}
        /\ stage'[r] = "record" => action'[r] \notin Stored
    BY <1>0, <1>2 DEF ReadFile, RefuseFile, FailUpsert, TypeOK, Stored
  <2>3. \A q : Pending(r, q) => Pending(r, q)'
    BY <2>2 DEF Pending
  <2>4. FilesWin(r)'
    BY <1>a, <2>1, <2>3 DEF Settled, FilesWin, records, tables
  <2>5. HandWins(r)'
    BY <2>2 DEF HandWins
  <2>6. Swept(r)'
    BY <1>0, <2>1, <2>2 DEF Swept, Position, records
  <2> QED
    BY <2>4, <2>5, <2>6 DEF Settled
<1>3. CASE UpsertCard(r)
  <2>1. /\ UNCHANGED <<item, row, hand>> /\ r \in quiet
        /\ stage[r] = "upsert" /\ stage'[r] = "stored"
    BY <1>0, <1>3 DEF UpsertCard, ChangedBy, TypeOK, records
  <2>2. hand[r] \in Cards
    BY <1>0, <2>1 DEF Position
  <2>3. PICK f \in todo[r] : WriteRevision(hand[r], f)
    BY <1>3 DEF UpsertCard
  <2>4. f \in Refs
    BY <1>0, <2>3 DEF TypeOK, Refs
  <2>5. /\ current'[hand[r].q] = hand[r].h
        /\ \A q \in Questions : q # hand[r].q => current'[q] = current[q]
    BY <1>0, <2>2, <2>3, <2>4, Written
  <2>6. Settled(r) /\ Whole(r)
    BY <2>1 DEF Whole, Live
  <2>7. \A q : ~Pending(r, q) /\ (Pending(r, q)' <=> q = hand[r].q)
    BY <2>1, <2>2 DEF Pending
  <2>8. \A g \in Recorded(r) : item[r][g].action \in Stored => item[r][g].card.q \in Questions
    BY CardFields DEF Records, RecordedIsStored, Recorded
  <2>9. FilesWin(r)'
    BY <1>a, <2>1, <2>5, <2>6, <2>7, <2>8 DEF Settled, FilesWin
  <2>10. HandWins(r)'
    BY <2>1, <2>5 DEF HandWins
  <2>11. Swept(r)'
    BY <1>0, <2>1 DEF Swept, Position
  <2> QED
    BY <2>9, <2>10, <2>11 DEF Settled
<1>4. CASE MaterializeImportEdgeProposals(r) \/ FailAfterCommit(r)
  <2>1. /\ UNCHANGED <<status, current, source, records, process, hand, quiet>>
        /\ Settled(r) /\ Whole(r)
    BY <1>4 DEF MaterializeImportEdgeProposals, FailAfterCommit, tables, Whole, Live
  <2>2. /\ stage[r] = "stored" /\ stage'[r] = "record"
        /\ action'[r] \in Stored => action[r] \in Stored
    BY <1>0, <1>4
       DEF MaterializeImportEdgeProposals, FailAfterCommit, ActionAfterError, TypeOK, Stored
  <2>3. \A q : Pending(r, q)' = Pending(r, q)
    BY <2>1, <2>2 DEF Pending
  <2>4. FilesWin(r)'
    BY <1>a, <2>1, <2>3 DEF Settled, FilesWin, records
  <2>5. HandWins(r)'
    BY <2>1, <2>2 DEF Settled, HandWins
  <2>6. Swept(r)'
    BY <1>0, <2>1, <2>2 DEF Swept, Position, records
  <2> QED
    BY <2>4, <2>5, <2>6 DEF Settled
<1>5. CASE RecordImportItem(r)
  <2>1. PICK f \in todo[r] : item' = [item EXCEPT ![r][f] = ItemOf(r)]
    BY <1>5 DEF RecordImportItem
  <2>2. /\ stage[r] = "record" /\ stage'[r] = "next"
        /\ UNCHANGED <<current, row, quiet>>
    BY <1>0, <1>5 DEF RecordImportItem, TypeOK, tables
  <2>3. Settled(r) /\ Whole(r)
    BY <2>2 DEF Whole, Live
  <2>4. f \in Files /\ item'[r] = [item[r] EXCEPT ![f] = ItemOf(r)]
    BY <1>0, <2>1 DEF TypeOK
  <2>5. ItemOf(r).action = action[r] /\ ItemOf(r).card = hand[r] /\ action[r] # "none"
    BY <1>0, <2>2 DEF ItemOf, InHand
  <2>6. item'[r][f] = ItemOf(r) /\ \A g \in Files : g # f => item'[r][g] = item[r][g]
    BY <1>0, <2>4 DEF TypeOK
  <2>7. Recorded(r)' = Recorded(r) \cup {f} /\ Recorded(r) \subseteq Files
    BY <2>4, <2>5, <2>6 DEF Recorded
  <2>8. \A g \in Recorded(r) : f > g /\ g # f
    BY <1>0, <2>3, FileOrder DEF InOrder
  <2>9. ASSUME NEW g \in Recorded(r), item[r][g].action \in Stored, Lasting(r, g)'
        PROVE  current[item[r][g].card.q] = item[r][g].card.h
    <3>1. Lasting(r, g)
      BY <2>6, <2>7, <2>8, <2>9 DEF Lasting
    <3>2. ~Pending(r, item[r][g].card.q)
      BY <2>5, <2>6, <2>7, <2>8, <2>9 DEF Lasting, Pending
    <3> QED
      BY <2>3, <2>9, <3>1, <3>2 DEF Settled, FilesWin
  <2>10. action[r] \in Stored => current[hand[r].q] = hand[r].h
    BY <2>2, <2>3 DEF Settled, HandWins
  <2>11. FilesWin(r)'
    BY <2>2, <2>5, <2>6, <2>7, <2>8, <2>9, <2>10 DEF FilesWin
  <2>12. HandWins(r)' /\ Swept(r)'
    BY <1>0, <2>2 DEF HandWins, Swept, Position
  <2> QED
    BY <2>11, <2>12 DEF Settled
<1>6. CASE \E skipped \in SUBSET HeldByOthers(r) : ArchiveMissingSourceQuestions(r, skipped)
  <2>1. PICK skipped \in SUBSET HeldByOthers(r) : ArchiveMissingSourceQuestions(r, skipped)
    BY <1>6
  <2>2. skipped = {} /\ r \in quiet
    BY <2>1 DEF ArchiveMissingSourceQuestions, ChangedBy
  <2>3. /\ stage[r] = "next" /\ stage'[r] = "archived" /\ todo[r] = {}
        /\ UNCHANGED <<current, source, item, listed>>
        /\ \A q \in Missing(r) : status'[q] = "archived"
    BY <1>0, <2>1, <2>2
       DEF ArchiveMissingSourceQuestions, TypeOK, records, process, Missing
  <2>4. Settled(r) /\ Whole(r) /\ Recorded(r) = listed[r]
    BY <1>0, <2>2, <2>3 DEF Whole, Live, Position
  <2>5. \A q : ~Pending(r, q)
    BY <2>3 DEF Pending
  <2>6. FilesWin(r)' /\ HandWins(r)'
    BY <1>a, <2>3, <2>4, <2>5 DEF Settled, FilesWin, HandWins
  <2>7. Swept(r)'
    BY <2>3, <2>4 DEF Swept, Missing
  <2> QED
    BY <2>6, <2>7 DEF Settled
<1>7. CASE FinishImportRun(r)
  <2>1. /\ UNCHANGED <<tables, item, process, quiet>> /\ stage'[r] = "ended"
        /\ stage[r] \in {"next", "archived"}
        /\ mode[r] = "reconcile" => stage[r] = "archived"
    BY <1>0, <1>7 DEF FinishImportRun, TypeOK
  <2>2. Settled(r) /\ Whole(r)
    BY <2>1 DEF Whole, Live
  <2>3. \A q : ~Pending(r, q)
    BY <2>1 DEF Pending
  <2>4. FilesWin(r)' /\ HandWins(r)'
    BY <1>a, <2>1, <2>2, <2>3 DEF Settled, FilesWin, HandWins, tables
  <2>5. Swept(r)'
    BY <2>1, <2>2 DEF Settled, Swept, tables, process
  <2> QED
    BY <2>4, <2>5 DEF Settled
<1>8. CASE \E verdict \in {"running", "failed"} : EndEarly(r, verdict)
  BY <1>8 DEF EndEarly
<1> QED
  BY <1>1, <1>2, <1>3, <1>4, <1>5, <1>6, <1>7, <1>8 DEF RunStep

LEMMA NextUndisturbed ==
  ASSUME Undisturbed, [Next]_vars
  PROVE  Undisturbed'
<1>1. Records /\ Records'
  BY NextRecords DEF Undisturbed
<1>2. \A r \in Runs : InOrder(r) /\ InOrder(r)'
  BY <1>1, RecordedInOrder DEF Undisturbed
<1>3. ASSUME NEW r \in quiet' PROVE Settled(r)'
  <2>1. r \in Runs
    BY <1>1 DEF Records, TypeOK
  <2>2. CASE RunStep(r)
    BY <1>1, <1>2, <2>1, <2>2, RunSettled DEF Undisturbed
  <2>3. CASE ~RunStep(r)
    BY <1>1, <2>1, <2>3, QuietStep, UntouchedSettled DEF Undisturbed
  <2> QED
    BY <2>2, <2>3
<1> QED
  BY <1>1, <1>2, <1>3 DEF Undisturbed

LEMMA UndisturbedStay == Spec => []Undisturbed
<1>1. Init => Undisturbed
  BY InitRecords DEF Init, Undisturbed, InOrder, Whole, Live
<1> QED
  BY <1>1, NextUndisturbed, PTL DEF Spec

LEMMA UndisturbedSuccess == Undisturbed => LastFileWins /\ MissingAreArchived
<1> SUFFICES ASSUME Undisturbed, NEW r \in quiet, row[r] = "succeeded"
             PROVE  /\ \A f \in listed[r] : item[r][f].action \in Stored /\ LastOf(r, f)
                          => current[item[r][f].card.q] = item[r][f].card.h
                    /\ mode[r] = "reconcile" => \A q \in Questions :
                          current[q] # NoRev /\ source[q][current[q]] \in Files \ listed[r]
                          => status[q] = "archived"
  BY DEF LastFileWins, MissingAreArchived
<1>1. r \in Runs /\ Settled(r) /\ Whole(r) /\ stage[r] = "ended"
  BY DEF Undisturbed, Records, TypeOK, Position, Whole
<1>2. Recorded(r) = listed[r]
  BY <1>1 DEF Undisturbed, Records, Position
<1>3. \A q : ~Pending(r, q)
  BY <1>1 DEF Pending
<1> QED
  BY <1>1, <1>2, <1>3 DEF Settled, FilesWin, Swept, Lasting, LastOf

(* An undisturbed run that succeeded leaves each question at its last file *)
(* in path order, when two files claim one question.                       *)
THEOREM ReconcileHolds == Spec => []LastFileWins
  BY UndisturbedSuccess, UndisturbedStay, PTL

(* An undisturbed run over the whole root that succeeded leaves nothing    *)
(* missing that is not archived.                                           *)
THEOREM MissingHolds == Spec => []MissingAreArchived
  BY UndisturbedSuccess, UndisturbedStay, PTL

-----------------------------------------------------------------------------
(* What an undisturbed run stores, it does not archive, unless the current *)
(* card of the question lies in a file that the run recorded and has kept  *)
(* the path of another one, which the run did not find.                    *)

(* The current card of q lies in file g.                                   *)
LiesIn(q, g) == disk[g] \in Cards /\ disk[g].q = q /\ disk[g].h = current[q]

(* It is the one in hand, and stored.                                      *)
Arriving(r, q) == /\ Pending(r, q)
                  /\ hand[r].h = current[q]

(* The content in hand is that of the next file.                           *)
HandIsNext(r) ==
    stage[r] \in {"upsert", "stored", "record"} =>
        \A f \in todo[r] : IsNextFile(r, f) => disk[f] = hand[r]

InPlace(r) ==
    Live(r) =>
        /\ HandIsNext(r)
        /\ \A f \in Recorded(r) : item[r][f].action \in Stored =>
              LET q == item[r][f].card.q
              IN  Arriving(r, q) \/ \E g \in Recorded(r) : LiesIn(q, g)

LEMMA QuietDisk ==
  ASSUME TypeOK, NEW r \in quiet', [Next]_vars
  PROVE  disk' = disk
<1>1. CASE OtherStep
  BY <1>1 DEF OtherStep, EditFile, MoveFile, PublishCard, RollbackQuestion, Other
<1>2. ASSUME NEW s \in Runs, RunStep(s)
      PROVE  disk' = disk
  BY <1>2 DEF RunStep, StartRun, ReadFile, RefuseFile, UpsertCard, FailUpsert, FailAfterCommit,
     MaterializeImportEdgeProposals, RecordImportItem, ArchiveMissingSourceQuestions,
     FinishImportRun, EndEarly
<1> QED
  BY <1>1, <1>2 DEF Next, vars

LEMMA OneNextFile ==
  ASSUME TypeOK, NEW r \in Runs, NEW f, NEW g, IsNextFile(r, f), IsNextFile(r, g)
  PROVE  f = g
<1>1. f \in Nat /\ g \in Nat /\ f <= g /\ g <= f
  BY FileOrder DEF IsNextFile
<1> QED
  BY <1>1

(* A step that leaves what lies in place as it is.                         *)
LEMMA InPlaceKept ==
  ASSUME NEW r \in Runs, InPlace(r), Live(r), UNCHANGED <<disk, current, item>>, HandIsNext(r)',
         \A q : Arriving(r, q) => Arriving(r, q)'
  PROVE  InPlace(r)'
<1>1. Recorded(r)' = Recorded(r)
  BY DEF Recorded
<1>2. \A q, g : LiesIn(q, g)' = LiesIn(q, g)
  BY DEF LiesIn
<1> QED
  BY <1>1, <1>2 DEF InPlace

LEMMA RunInPlace ==
  ASSUME Records, Records', NEW r \in Runs, r \in quiet', RunStep(r),
         r \in quiet => Settled(r) /\ InPlace(r), disk' = disk
  PROVE  InPlace(r)'
<1>0. TypeOK /\ TypeOK' /\ Position(r) /\ InHand(r)
  BY DEF Records
<1>1. CASE \E m \in Modes, chosen \in SUBSET Files : StartRun(r, m, chosen)
  <2>1. UNCHANGED item /\ stage[r] = "off" /\ stage'[r] = "next"
    BY <1>0, <1>1 DEF StartRun, TypeOK
  <2>2. Recorded(r)' = {}
    BY <1>0, <2>1 DEF Position, Recorded
  <2> QED
    BY <2>1, <2>2 DEF InPlace, HandIsNext
<1>2. CASE ReadFile(r) \/ RefuseFile(r)
  <2>1. PICK f \in todo[r] : IsNextFile(r, f) /\ hand'[r] = disk[f]
    BY <1>0, <1>2 DEF ReadFile, RefuseFile, TypeOK
  <2>2. /\ UNCHANGED <<current, item, todo, quiet>> /\ Live(r) /\ stage[r] = "next"
    BY <1>2 DEF ReadFile, RefuseFile, tables, records, process, Live
  <2>3. HandIsNext(r)'
    BY <1>0, <2>1, <2>2, OneNextFile DEF HandIsNext, IsNextFile
  <2>4. \A q : ~Arriving(r, q)
    BY <2>2 DEF Arriving, Pending
  <2> QED
    BY <2>2, <2>3, <2>4, InPlaceKept
<1>3. CASE UpsertCard(r)
  <2>1. /\ UNCHANGED <<item, todo, hand>> /\ r \in quiet /\ Live(r)
        /\ stage[r] = "upsert" /\ stage'[r] = "stored"
    BY <1>0, <1>3 DEF UpsertCard, ChangedBy, TypeOK, records, process, Live
  <2>2. hand[r] \in Cards
    BY <1>0, <2>1 DEF Position
  <2>3. PICK f \in todo[r] : WriteRevision(hand[r], f)
    BY <1>3 DEF UpsertCard
  <2>4. f \in Refs
    BY <1>0, <2>3 DEF TypeOK, Refs
  <2>5. /\ current'[hand[r].q] = hand[r].h
        /\ \A q \in Questions : q # hand[r].q => current'[q] = current[q]
    BY <1>0, <2>2, <2>3, <2>4, Written
  <2>6. HandIsNext(r)'
    BY <2>1 DEF InPlace, HandIsNext, IsNextFile
  <2>7. Recorded(r)' = Recorded(r)
    BY <2>1 DEF Recorded
  <2>8. ASSUME NEW g \in Recorded(r), item[r][g].action \in Stored
        PROVE  LET q == item[r][g].card.q
               IN  Arriving(r, q)' \/ \E k \in Recorded(r) : LiesIn(q, k)'
    <3> DEFINE q == item[r][g].card.q
    <3>1. q \in Questions
      BY <2>8, CardFields DEF Records, RecordedIsStored, Recorded
    <3>2. CASE q = hand[r].q
      BY <2>1, <2>2, <2>5, <3>2 DEF Arriving, Pending
    <3>3. CASE q # hand[r].q
      <4>1. ~Arriving(r, q) /\ current'[q] = current[q]
        BY <2>1, <2>5, <3>1, <3>3 DEF Arriving, Pending
      <4>2. PICK k \in Recorded(r) : LiesIn(q, k)
        BY <2>1, <2>8, <4>1 DEF InPlace
      <4>3. LiesIn(q, k)'
        <5>1. q' = q
          BY <2>1
        <5> HIDE DEF q
        <5> QED
          BY <4>1, <4>2, <5>1 DEF LiesIn
      <4> QED
        BY <4>2, <4>3
    <3> QED
      BY <3>2, <3>3
  <2> QED
    BY <2>1, <2>6, <2>7, <2>8 DEF InPlace
<1>4. CASE FailUpsert(r) \/ MaterializeImportEdgeProposals(r) \/ FailAfterCommit(r)
  <2>1. /\ UNCHANGED <<current, item, todo, hand, quiet>> /\ Live(r)
        /\ stage[r] \in {"upsert", "stored"} /\ stage'[r] = "record"
    BY <1>0, <1>4 DEF FailUpsert, MaterializeImportEdgeProposals, FailAfterCommit, tables,
       records, process, Live, TypeOK
  <2>2. HandIsNext(r)'
    BY <2>1 DEF InPlace, HandIsNext, IsNextFile
  <2>3. \A q : Arriving(r, q) => Arriving(r, q)'
    BY <2>1 DEF Arriving, Pending
  <2> QED
    BY <2>1, <2>2, <2>3, InPlaceKept
<1>5. CASE RecordImportItem(r)
  <2>1. PICK f \in todo[r] : IsNextFile(r, f) /\ item' = [item EXCEPT ![r][f] = ItemOf(r)]
    BY <1>5 DEF RecordImportItem
  <2>2. /\ stage[r] = "record" /\ stage'[r] = "next"
        /\ UNCHANGED <<current, quiet>> /\ Live(r)
    BY <1>0, <1>5 DEF RecordImportItem, TypeOK, tables, Live
  <2>3. InPlace(r) /\ Settled(r) /\ Whole(r) /\ disk[f] = hand[r]
    BY <2>1, <2>2 DEF InPlace, HandIsNext, Whole
  <2>4. f \in Files /\ item'[r] = [item[r] EXCEPT ![f] = ItemOf(r)]
    BY <1>0, <2>1 DEF TypeOK
  <2>5. ItemOf(r).action = action[r] /\ ItemOf(r).card = hand[r] /\ action[r] # "none"
    BY <1>0, <2>2 DEF ItemOf, InHand
  <2>6. item'[r][f] = ItemOf(r) /\ \A g \in Files : g # f => item'[r][g] = item[r][g]
    BY <1>0, <2>4 DEF TypeOK
  <2>7. Recorded(r)' = Recorded(r) \cup {f} /\ Recorded(r) \subseteq Files
    BY <2>4, <2>5, <2>6 DEF Recorded
  <2>8. \A q, g : LiesIn(q, g)' = LiesIn(q, g)
    BY <2>2 DEF LiesIn
  <2>9. \A q : Arriving(r, q) => LiesIn(q, f)
    BY <2>3 DEF Arriving, Pending, LiesIn
  <2>10. action[r] \in Stored => LiesIn(hand[r].q, f)
    BY <1>0, <2>2, <2>3 DEF Settled, HandWins, LiesIn, InHand
  <2>11. ASSUME NEW g \in Recorded(r)', item'[r][g].action \in Stored
         PROVE  \E k \in Recorded(r) \cup {f} : LiesIn(item'[r][g].card.q, k)
    <3>1. CASE g = f
      BY <2>5, <2>6, <2>10, <2>11, <3>1
    <3>2. CASE g # f
      <4>1. g \in Recorded(r) /\ item'[r][g] = item[r][g]
        BY <2>6, <2>7, <3>2
      <4> QED
        BY <2>2, <2>3, <2>9, <2>11, <4>1 DEF InPlace
    <3> QED
      BY <3>1, <3>2
  <2> QED
    BY <2>2, <2>7, <2>8, <2>11 DEF InPlace, HandIsNext
<1>6. CASE \E skipped \in SUBSET HeldByOthers(r) : ArchiveMissingSourceQuestions(r, skipped)
  <2>1. /\ UNCHANGED <<current, item, todo, hand>> /\ Live(r) /\ r \in quiet
        /\ stage[r] = "next" /\ stage'[r] = "archived"
    BY <1>0, <1>6 DEF ArchiveMissingSourceQuestions, ChangedBy, TypeOK, records, process, Live
  <2>2. HandIsNext(r)' /\ \A q : ~Arriving(r, q)
    BY <2>1 DEF HandIsNext, Arriving, Pending
  <2> QED
    BY <2>1, <2>2, InPlaceKept
<1>7. CASE FinishImportRun(r) \/ \E verdict \in {"running", "failed"} : EndEarly(r, verdict)
  <2>1. stage'[r] = "ended"
    BY <1>0, <1>7 DEF FinishImportRun, EndEarly, TypeOK
  <2> QED
    BY <2>1 DEF InPlace, Live
<1> QED
  BY <1>1, <1>2, <1>3, <1>4, <1>5, <1>6, <1>7 DEF RunStep

AllInPlace == \A r \in quiet : InPlace(r)

LEMMA NextInPlace ==
  ASSUME Undisturbed, AllInPlace, [Next]_vars
  PROVE  AllInPlace'
<1> SUFFICES ASSUME NEW r \in quiet' PROVE InPlace(r)'
  BY DEF AllInPlace
<1>1. Undisturbed'
  BY NextUndisturbed
<1>2. Records /\ Records' /\ r \in Runs
  BY <1>1 DEF Undisturbed, Records, TypeOK
<1>3. disk' = disk
  BY <1>2, QuietDisk DEF Records
<1>4. CASE RunStep(r)
  BY <1>2, <1>3, <1>4, RunInPlace DEF Undisturbed, AllInPlace
<1>5. CASE ~RunStep(r)
  <2>1. r \in quiet /\ UNCHANGED <<status, current, source>> /\ Untouched(r)
    BY <1>2, <1>5, QuietStep
  <2>2. Recorded(r)' = Recorded(r) /\ Live(r)' = Live(r)
    BY <2>1 DEF Untouched, Recorded, Live
  <2>3. \A q, g : LiesIn(q, g)' = LiesIn(q, g)
    BY <1>3, <2>1 DEF LiesIn
  <2>4. \A q : Arriving(r, q)' = Arriving(r, q)
    BY <2>1 DEF Untouched, Arriving, Pending
  <2>5. HandIsNext(r)' = HandIsNext(r)
    BY <1>3, <2>1 DEF Untouched, HandIsNext, IsNextFile
  <2> QED
    BY <2>1, <2>2, <2>3, <2>4, <2>5 DEF InPlace, AllInPlace, Untouched
<1> QED
  BY <1>4, <1>5

(* The question lies in a file the run has recorded, but its current card  *)
(* was first imported from another file, which the run did not find.       *)
Moved(r, q) ==
    /\ source[q][current[q]] \in Files \ Recorded(r)
    /\ \E g \in Recorded(r) : LiesIn(q, g) /\ source[q][current[q]] # g

(* OnlyMissingArchived but for questions that moved: ArchiveMissingSource- *)
(* Questions archives nothing else that the run has read and stored.       *)
SparesUnlessMoved ==
    \A r \in quiet, f \in Files :
        /\ item[r][f].action \in Stored
        /\ stage[r] # "archived" /\ stage'[r] = "archived"
        => LET q == item[r][f].card.q
           IN  status'[q] = "archived" => status[q] = "archived" \/ Moved(r, q)

LEMMA NextSpares ==
  ASSUME Undisturbed, AllInPlace, [Next]_vars
  PROVE  SparesUnlessMoved
<1> SUFFICES ASSUME NEW r \in quiet, NEW f \in Files, item[r][f].action \in Stored,
                    stage[r] # "archived", stage'[r] = "archived",
                    status'[item[r][f].card.q] = "archived",
                    status[item[r][f].card.q] # "archived"
             PROVE  Moved(r, item[r][f].card.q)
  BY DEF SparesUnlessMoved
<1> DEFINE q == item[r][f].card.q
<1>1. TypeOK /\ Records /\ r \in Runs /\ f \in Recorded(r)
  BY DEF Undisturbed, Records, TypeOK, Recorded, Stored
<1>2. q \in Questions
  BY <1>1, CardFields DEF Records, RecordedIsStored
<1>3. PICK s \in Runs, skipped \in SUBSET Questions :
         ArchiveMissingSourceQuestions(s, skipped) /\ q \in Missing(s)
  BY <1>1, <1>2, ArchivingStep
<1>4. s = r
  BY <1>1, <1>3 DEF ArchiveMissingSourceQuestions, TypeOK
<1>5. stage[r] = "next" /\ Live(r) /\ ~Arriving(r, q)
  BY <1>3, <1>4 DEF ArchiveMissingSourceQuestions, Live, Arriving, Pending
<1>6. PICK g \in Recorded(r) : LiesIn(q, g)
  BY <1>1, <1>5 DEF AllInPlace, InPlace
<1>7. current[q] # NoRev /\ source[q][current[q]] \in Files \ Recorded(r)
  BY <1>3, <1>4 DEF Missing
<1> QED
  BY <1>6, <1>7 DEF Moved

(* The path that a revision keeps is the whole reason why a run that       *)
(* nobody disturbs archives what it has just stored: its card lies in a    *)
(* file that was found, and its first file was not.                        *)
THEOREM StoredIsSpared == Spec => [][SparesUnlessMoved]_vars
<1>1. Init => AllInPlace
  <2>1. Init => quiet = {}
    BY DEF Init
  <2> QED
    BY <2>1 DEF AllInPlace
<1>2. Undisturbed /\ AllInPlace /\ [Next]_vars => AllInPlace'
  BY NextInPlace
<1>3. Undisturbed /\ AllInPlace /\ [Next]_vars => [SparesUnlessMoved]_vars
  BY NextSpares
<1> QED
  BY <1>1, <1>2, <1>3, UndisturbedStay, PTL DEF Spec
=============================================================================

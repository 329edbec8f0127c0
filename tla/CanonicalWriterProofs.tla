------------------------ MODULE CanonicalWriterProofs ------------------------
(***************************************************************************)
(* Proofs about CanonicalWriter, for every set of questions, cards, source *)
(* refs and every bound on the audit rows.                                 *)
(*                                                                         *)
(* Types and ownership are inductive only together: the key of a rollback  *)
(* event is well typed because the pointer it leaves is one of the         *)
(* question's revisions.                                                   *)
(***************************************************************************)
EXTENDS CanonicalWriter, TLAPS

Owned == TypeOK /\ PointsAtOwnRevision

LEMMA InitOwned == Init => Owned
  BY ConstantsAssumption
  DEF Init, Owned, TypeOK, PointsAtOwnRevision, Statuses, Refs, RuCard, RuPrompt,
      NoTx, AuditRow

(* A transaction that is past its first read carries a card.               *)
LEMMA TxFields ==
  ASSUME TypeOK, tx.stage # "none"
  PROVE  /\ tx \in OpenTx
         /\ tx.q \in Questions /\ tx.h \in Hashes /\ tx.src \in Refs
         /\ tx.publish \in BOOLEAN /\ tx.seen \in Statuses /\ tx.ruSeen \in RuPrompt
  BY DEF TypeOK, NoTx, OpenTx

LEMMA AppendTyped ==
  ASSUME TypeOK, NEW q \in Questions, NEW event \in AuditEvents, NEW h \in Hashes
  PROVE  WriteAudit(q, event, h) => audit' \in [Questions -> Seq(AuditRow)]
<1> DEFINE row == [event |-> event, rev |-> h]
<1>1. row \in AuditRow
  BY DEF AuditRow
<1>2. Append(audit[q], row) \in Seq(AuditRow)
  BY <1>1 DEF TypeOK
<1> QED
  BY <1>2 DEF WriteAudit, TypeOK

LEMMA CommitOwned ==
  ASSUME Owned, CommitUpsertCard
  PROVE  Owned'
<1> USE DEF Owned
<1>1. /\ tx.q \in Questions /\ tx.h \in Hashes /\ tx.src \in Refs
      /\ tx.publish \in BOOLEAN
  BY TxFields DEF CommitUpsertCard
<1>2. StatusAfter(tx) \in Statuses \ {"absent"}
  BY <1>1 DEF StatusAfter, TypeOK, Statuses
<1>3. RuAfter(tx) \in RuPrompt
  BY <1>1, ConstantsAssumption DEF RuAfter, TypeOK, RuPrompt
<1>4. audit' \in [Questions -> Seq(AuditRow)] /\ outbox' \subseteq EventKeys
  <2>1. CASE Announces(tx)
    <3>1. EventOf(tx.src, tx.publish) \in AuditEvents
      BY <1>1 DEF EventOf, AuditEvents
    <3>2. PublicationKey(tx.q, tx.h) \in EventKeys
      BY <1>1 DEF PublicationKey, EventKeys
    <3> QED
      BY <1>1, <2>1, <3>1, <3>2, AppendTyped DEF CommitUpsertCard, TypeOK
  <2>2. CASE ~Announces(tx)
    BY <2>2 DEF CommitUpsertCard, TypeOK
  <2> QED
    BY <2>1, <2>2
<1>5. TypeOK'
  <2>1. status' \in [Questions -> Statuses] /\ revs' \in [Questions -> SUBSET Hashes]
    BY <1>1, <1>2 DEF CommitUpsertCard, TypeOK
  <2>2. source' \in [Questions -> [Hashes -> Refs]]
    BY <1>1 DEF CommitUpsertCard, TypeOK
  <2>3. body' \in [Questions -> [Hashes -> Refs]]
    BY <1>1 DEF CommitUpsertCard, TypeOK
  <2>4. ru' \in [Questions -> [Hashes -> RuPrompt]]
    BY <1>1, <1>3 DEF CommitUpsertCard, TypeOK
  <2>5. /\ current' \in [Questions -> Hashes \cup {NoRev}]
        /\ columns' \in [Questions -> Hashes \cup {NoRev}]
    BY <1>1 DEF CommitUpsertCard, TypeOK
  <2>6. /\ proposals' \in [Questions -> SUBSET Hashes]
        /\ released' \in [Questions -> SUBSET Hashes]
    BY <1>1 DEF CommitUpsertCard, TypeOK
  <2>7. jobs' \subseteq Jobs /\ tx' \in {NoTx} \cup OpenTx
    BY DEF CommitUpsertCard, TypeOK
  <2> QED
    BY <1>4, <2>1, <2>2, <2>3, <2>4, <2>5, <2>6, <2>7 DEF TypeOK
<1>6. PointsAtOwnRevision'
  <2> SUFFICES ASSUME NEW q \in Questions
               PROVE  /\ released'[q] \cup proposals'[q] \subseteq revs'[q]
                      /\ IF status'[q] = "absent" THEN current'[q] = NoRev /\ revs'[q] = {}
                         ELSE {current'[q], columns'[q]} \subseteq revs'[q]
    BY DEF PointsAtOwnRevision
  <2>1. CASE q = tx.q
    BY <2>1, <1>1, <1>2 DEF CommitUpsertCard, TypeOK, PointsAtOwnRevision
  <2>2. CASE q # tx.q
    BY <2>2, <1>1 DEF CommitUpsertCard, TypeOK, PointsAtOwnRevision
  <2> QED
    BY <2>1, <2>2
<1> QED
  BY <1>5, <1>6

LEMMA RollbackOwned ==
  ASSUME Owned, NEW q \in Questions, NEW h \in Hashes, RollbackQuestion(q, h)
  PROVE  Owned'
<1> USE DEF Owned
<1>1. h \in revs[q] /\ current[q] \in Hashes
  BY DEF RollbackQuestion, RollbackTargets, TypeOK, PointsAtOwnRevision
<1>2. RollbackKey(q, current[q], h) \in EventKeys
  BY <1>1 DEF RollbackKey, EventKeys
<1>3. audit' \in [Questions -> Seq(AuditRow)]
  BY AppendTyped DEF RollbackQuestion, AuditEvents
<1>4. TypeOK'
  BY <1>1, <1>2, <1>3 DEF RollbackQuestion, TypeOK, Statuses
<1>5. PointsAtOwnRevision'
  BY <1>1 DEF RollbackQuestion, TypeOK, PointsAtOwnRevision, Statuses
<1> QED
  BY <1>4, <1>5

LEMMA ArchiveOwned ==
  ASSUME Owned, NEW seen \in SUBSET VaultRefs, ArchiveMissingSourceQuestions(seen)
  PROVE  Owned'
<1> USE DEF Owned
<1>1. TypeOK'
  BY DEF ArchiveMissingSourceQuestions, TypeOK, Statuses
<1>2. \A q \in Missing(seen) : status[q] # "absent"
  BY DEF Missing, PointsAtOwnRevision
<1>3. PointsAtOwnRevision'
  BY <1>2 DEF ArchiveMissingSourceQuestions, TypeOK, PointsAtOwnRevision
<1> QED
  BY <1>1, <1>3

LEMMA FinishOwned ==
  ASSUME Owned, NEW j \in jobs, NEW expected, NEW key \in EventKeys,
         FinishJob(j, expected, key)
  PROVE  Owned'
<1> USE DEF Owned
<1>1. j.q \in Questions /\ j.h \in Hashes
  BY DEF TypeOK, Jobs
<1>2. /\ audit' \in [Questions -> Seq(AuditRow)]
      /\ ru' \in [Questions -> [Hashes -> RuPrompt]]
      /\ outbox' \subseteq EventKeys
  <2>1. CASE ru[j.q][j.h] = expected
    <3>1. audit' \in [Questions -> Seq(AuditRow)]
      <4>1. PICK q \in Questions, h \in Hashes : q = j.q /\ h = j.h
        BY <1>1
      <4>2. WriteAudit(q, "translated", h)
        BY <2>1, <4>1 DEF FinishJob, WriteAudit
      <4> QED
        BY <4>2, AppendTyped DEF AuditEvents
    <3>2. ru' \in [Questions -> [Hashes -> RuPrompt]]
      <4>1. ru' = [ru EXCEPT ![j.q] = [@ EXCEPT ![j.h] = "translated"]]
        BY <2>1 DEF FinishJob
      <4>2. [ru[j.q] EXCEPT ![j.h] = "translated"] \in [Hashes -> RuPrompt]
        BY <1>1 DEF TypeOK, RuPrompt
      <4> QED
        BY <1>1, <4>1, <4>2 DEF TypeOK
    <3> QED
      BY <2>1, <3>1, <3>2 DEF FinishJob, TypeOK
  <2>2. CASE ru[j.q][j.h] # expected
    BY <2>2 DEF FinishJob, TypeOK
  <2> QED
    BY <2>1, <2>2
<1>3. TypeOK'
  BY <1>2 DEF FinishJob, TypeOK
<1>4. PointsAtOwnRevision'
  BY DEF FinishJob, PointsAtOwnRevision
<1> QED
  BY <1>3, <1>4

LEMMA JobKeys ==
  ASSUME TypeOK, NEW j \in jobs
  PROVE  /\ j.q \in Questions /\ j.h \in Hashes
         /\ LocaleKey(j.q, j.h) \in EventKeys /\ PromptKey(j.q, j.h) \in EventKeys
<1>1. j.q \in Questions /\ j.h \in Hashes
  BY DEF TypeOK, Jobs
<1> QED
  BY <1>1 DEF LocaleKey, PromptKey, EventKeys

LEMMA JobOwned ==
  ASSUME Owned, NEW j \in jobs,
         StoreRussianTranslation(j) \/ RepairRussianPrompt(j)
  PROVE  Owned'
  BY FinishOwned, JobKeys DEF Owned, StoreRussianTranslation, RepairRussianPrompt

(* Steps that write no table: the transaction's reads and its abort, the   *)
(* reads of a translation run and a job that is dropped.                   *)
LEMMA QuietOwned ==
  ASSUME Owned, UNCHANGED tables, jobs' \subseteq Jobs, tx' \in {NoTx} \cup OpenTx
  PROVE  Owned'
  BY DEF Owned, TypeOK, PointsAtOwnRevision, tables

LEMMA NextOwned ==
  ASSUME Owned, [Next]_vars
  PROVE  Owned'
<1>1. ASSUME NEW q \in Questions, NEW h \in Hashes, NEW src \in Refs,
             NEW publish \in BOOLEAN, BeginUpsertCard(q, h, src, publish)
      PROVE  Owned'
  <2>1. tx' \in OpenTx
    BY <1>1 DEF BeginUpsertCard, OpenTx, Owned, TypeOK, RuPrompt, RuCard
  <2> QED
    BY <1>1, <2>1, QuietOwned DEF BeginUpsertCard, Owned, TypeOK
<1>2. CASE LockQuestion
  <2>1. tx' \in OpenTx
    <3>1. /\ tx \in OpenTx
          /\ ru[tx.q][tx.h] \in RuPrompt
      BY <1>2, TxFields DEF LockQuestion, Owned, TypeOK
    <3>2. tx' = [stage |-> "locked", q |-> tx.q, h |-> tx.h, src |-> tx.src,
                 publish |-> tx.publish, seen |-> tx.seen,
                 ruSeen |-> ru[tx.q][tx.h]]
      BY <1>2, <3>1 DEF LockQuestion, OpenTx
    <3> QED
      BY <3>1, <3>2 DEF OpenTx
  <2> QED
    BY <1>2, <2>1, QuietOwned DEF LockQuestion, Owned, TypeOK
<1>3. CASE CommitUpsertCard
  BY <1>3, CommitOwned
<1>4. CASE AbortUpsertCard
  BY <1>4, QuietOwned DEF AbortUpsertCard, Owned, TypeOK
<1>5. ASSUME NEW q \in Questions, NEW h \in Hashes, RollbackQuestion(q, h)
      PROVE  Owned'
  BY <1>5, RollbackOwned
<1>6. ASSUME NEW seen \in SUBSET VaultRefs, ArchiveMissingSourceQuestions(seen)
      PROVE  Owned'
  BY <1>6, ArchiveOwned
<1>7. CASE MissingRussianSources \/ DegenerateRussianSources
  BY <1>7, QuietOwned DEF MissingRussianSources, DegenerateRussianSources, Owned, TypeOK
<1>8. ASSUME NEW j \in jobs, StoreRussianTranslation(j) \/ RepairRussianPrompt(j)
      PROVE  Owned'
  BY <1>8, JobOwned
<1>9. ASSUME NEW j \in jobs, DropJob(j)
      PROVE  Owned'
  BY <1>9, QuietOwned DEF DropJob, Owned, TypeOK
<1>10. CASE UNCHANGED vars
  BY <1>10, QuietOwned DEF vars, Owned, TypeOK
<1> QED
  BY <1>1, <1>2, <1>3, <1>4, <1>5, <1>6, <1>7, <1>8, <1>9, <1>10 DEF Next

(* Every reachable state is well typed and every pointer, released set and *)
(* placement proposal of a question names its own revisions.               *)
THEOREM OwnershipHolds == Spec => [](TypeOK /\ PointsAtOwnRevision)
<1>1. Init => Owned
  BY InitOwned
<1>2. Owned /\ [Next]_vars => Owned'
  BY NextOwned
<1> QED
  BY <1>1, <1>2, PTL DEF Spec, Owned

(* The stages of the transaction carry the fields their code has read, and *)
(* every table names questions, cards and sources of its own kind.         *)
THEOREM TypesHold == Spec => []TypeOK
  BY OwnershipHolds, PTL

-----------------------------------------------------------------------------
(* What the outbox announces and what learners may see.  Both need Owned:  *)
(* the pointer a rollback restores is an announced revision because it is  *)
(* one of the question's, and nothing but a release publishes a new row.   *)
Announced == RevisionsAnnounced /\ VisibleOnlyByRelease

LEMMA CommitAnnounced ==
  ASSUME Owned, Announced, CommitUpsertCard
  PROVE  Announced'
<1>1. tx.q \in Questions /\ tx.h \in Hashes /\ tx.publish \in BOOLEAN
  BY TxFields DEF CommitUpsertCard, Owned
<1>2. RevisionsAnnounced'
  <2> SUFFICES ASSUME NEW q \in Questions, NEW h \in revs'[q]
               PROVE  PublicationKey(q, h) \in outbox'
    BY DEF RevisionsAnnounced
  <2>1. outbox \subseteq outbox'
    BY DEF CommitUpsertCard
  <2>2. CASE h \in revs[q]
    BY <2>1, <2>2 DEF Announced, RevisionsAnnounced
  <2>3. CASE h \notin revs[q]
    <3>1. q = tx.q /\ h = tx.h
      BY <1>1, <2>3 DEF CommitUpsertCard, Owned, TypeOK
    <3>2. Announces(tx)
      BY <2>3, <3>1 DEF Announces
    <3> QED
      BY <3>1, <3>2 DEF CommitUpsertCard
  <2> QED
    BY <2>2, <2>3
<1>3. VisibleOnlyByRelease'
  <2> SUFFICES ASSUME NEW q \in Questions, status'[q] = "published"
               PROVE  released'[q] # {}
    BY DEF VisibleOnlyByRelease, Served
  <2>1. CASE q = tx.q /\ tx.publish
    BY <1>1, <2>1 DEF CommitUpsertCard, Owned, TypeOK
  <2>2. CASE ~(q = tx.q /\ tx.publish)
    <3>1. status[q] = "published" /\ released[q] \subseteq released'[q]
      BY <1>1, <2>2 DEF CommitUpsertCard, StatusAfter, Owned, TypeOK
    <3> QED
      BY <3>1 DEF Announced, VisibleOnlyByRelease, Served
  <2> QED
    BY <2>1, <2>2
<1> QED
  BY <1>2, <1>3 DEF Announced

LEMMA RollbackAnnounced ==
  ASSUME Owned, Announced, NEW q \in Questions, NEW h \in Hashes,
         RollbackQuestion(q, h)
  PROVE  Announced'
<1>1. RevisionsAnnounced'
  BY DEF RollbackQuestion, Announced, RevisionsAnnounced, PublicationKey
<1>2. VisibleOnlyByRelease'
  BY DEF RollbackQuestion, Announced, VisibleOnlyByRelease, Served, Owned, TypeOK
<1> QED
  BY <1>1, <1>2 DEF Announced

LEMMA ArchiveAnnounced ==
  ASSUME Announced, NEW seen \in SUBSET VaultRefs, ArchiveMissingSourceQuestions(seen)
  PROVE  Announced'
  BY DEF ArchiveMissingSourceQuestions, Announced, RevisionsAnnounced,
         VisibleOnlyByRelease, Served, PublicationKey

LEMMA FinishAnnounced ==
  ASSUME Announced, NEW j, NEW expected, NEW key, FinishJob(j, expected, key)
  PROVE  Announced'
  BY DEF FinishJob, Announced, RevisionsAnnounced, VisibleOnlyByRelease, Served,
         PublicationKey

LEMMA QuietAnnounced ==
  ASSUME Announced, UNCHANGED tables
  PROVE  Announced'
  BY DEF Announced, RevisionsAnnounced, VisibleOnlyByRelease, Served, tables,
         PublicationKey

LEMMA NextAnnounced ==
  ASSUME Owned, Announced, [Next]_vars
  PROVE  Announced'
<1>1. ASSUME NEW q \in Questions, NEW h \in Hashes, NEW src \in Refs,
             NEW publish \in BOOLEAN, BeginUpsertCard(q, h, src, publish)
      PROVE  Announced'
  BY <1>1, QuietAnnounced DEF BeginUpsertCard
<1>2. CASE LockQuestion \/ AbortUpsertCard \/ UNCHANGED vars
  BY <1>2, QuietAnnounced DEF LockQuestion, AbortUpsertCard, vars
<1>3. CASE CommitUpsertCard
  BY <1>3, CommitAnnounced
<1>4. ASSUME NEW q \in Questions, NEW h \in Hashes, RollbackQuestion(q, h)
      PROVE  Announced'
  BY <1>4, RollbackAnnounced
<1>5. ASSUME NEW seen \in SUBSET VaultRefs, ArchiveMissingSourceQuestions(seen)
      PROVE  Announced'
  BY <1>5, ArchiveAnnounced
<1>6. CASE MissingRussianSources \/ DegenerateRussianSources
  BY <1>6, QuietAnnounced DEF MissingRussianSources, DegenerateRussianSources
<1>7. ASSUME NEW j \in jobs, StoreRussianTranslation(j) \/ RepairRussianPrompt(j)
      PROVE  Announced'
  BY <1>7, FinishAnnounced DEF StoreRussianTranslation, RepairRussianPrompt
<1>8. ASSUME NEW j \in jobs, DropJob(j)
      PROVE  Announced'
  BY <1>8, QuietAnnounced DEF DropJob
<1> QED
  BY <1>1, <1>2, <1>3, <1>4, <1>5, <1>6, <1>7, <1>8 DEF Next

(* Every revision that can become current has its publication event in the *)
(* outbox, and nothing is visible that was never released.                 *)
THEOREM AnnouncedHolds == Spec => [](RevisionsAnnounced /\ VisibleOnlyByRelease)
<1>1. Init => Owned /\ Announced
  BY InitOwned DEF Init, Announced, RevisionsAnnounced, VisibleOnlyByRelease, Served
<1>2. Owned /\ Announced /\ [Next]_vars => Owned' /\ Announced'
  BY NextOwned, NextAnnounced
<1> QED
  BY <1>1, <1>2, PTL DEF Spec, Announced

(* A question that readers are served was released by a card with the      *)
(* release flag once, or by a restore of what had been: import alone never *)
(* makes it visible.                                                       *)
THEOREM VisibilityHolds == Spec => []VisibleOnlyByRelease
  BY AnnouncedHolds, PTL

-----------------------------------------------------------------------------
(* The registry that readers are promised.  The commit of upsertCard is    *)
(* Accept, RollbackQuestion is Restore, archiving is Retire and every      *)
(* other step stutters.                                                    *)
Step == [Registry!Next]_<<status, current, revs>>

LEMMA CommitIsAccept ==
  ASSUME Owned, CommitUpsertCard
  PROVE  Registry!Accept(tx.q, tx.h, tx.publish)
  BY TxFields DEF CommitUpsertCard, StatusAfter, Owned, TypeOK, Registry!Accept

LEMMA RollbackIsRestore ==
  ASSUME NEW q \in Questions, NEW h \in Hashes, RollbackQuestion(q, h)
  PROVE  Registry!Restore(q, h)
  BY DEF RollbackQuestion, RollbackTargets, Registry!Restore

LEMMA ArchiveIsRetire ==
  ASSUME Owned, NEW seen \in SUBSET VaultRefs, ArchiveMissingSourceQuestions(seen)
  PROVE  Missing(seen) \in SUBSET Questions /\ Registry!Retire(Missing(seen))
  BY DEF ArchiveMissingSourceQuestions, Missing, Owned, PointsAtOwnRevision,
         Registry!Retire

LEMMA NextIsStep ==
  ASSUME Owned, [Next]_vars
  PROVE  Step
<1>1. CASE CommitUpsertCard
  <2>1. tx.q \in Questions /\ tx.h \in Hashes /\ tx.publish \in BOOLEAN
    BY <1>1, TxFields DEF CommitUpsertCard, Owned
  <2> QED
    BY <1>1, <2>1, CommitIsAccept DEF Step, Registry!Next
<1>2. ASSUME NEW q \in Questions, NEW h \in Hashes, RollbackQuestion(q, h)
      PROVE  Step
  BY <1>2, RollbackIsRestore DEF Step, Registry!Next
<1>3. ASSUME NEW seen \in SUBSET VaultRefs, ArchiveMissingSourceQuestions(seen)
      PROVE  Step
  BY <1>3, ArchiveIsRetire DEF Step, Registry!Next
<1>4. ASSUME UNCHANGED <<status, current, revs>>
      PROVE  Step
  BY <1>4 DEF Step
<1>5. ASSUME NEW q \in Questions, NEW h \in Hashes, NEW src \in Refs,
             NEW publish \in BOOLEAN, BeginUpsertCard(q, h, src, publish)
      PROVE  Step
  BY <1>5, <1>4 DEF BeginUpsertCard, tables
<1>6. CASE \/ LockQuestion \/ AbortUpsertCard \/ MissingRussianSources
           \/ DegenerateRussianSources \/ UNCHANGED vars
  BY <1>6, <1>4 DEF LockQuestion, AbortUpsertCard, MissingRussianSources,
                    DegenerateRussianSources, vars, tables
<1>7. ASSUME NEW j \in jobs,
             StoreRussianTranslation(j) \/ RepairRussianPrompt(j) \/ DropJob(j)
      PROVE  Step
  BY <1>7, <1>4 DEF StoreRussianTranslation, RepairRussianPrompt, DropJob,
                    FinishJob, tables
<1> QED
  BY <1>1, <1>2, <1>3, <1>5, <1>6, <1>7 DEF Next

(* The canonical writer implements the registry: whatever runs between the *)
(* statements of a transaction, the pointer, the status and the revisions  *)
(* of a question move only by a whole Accept, Restore or Retire.           *)
THEOREM RefinementHolds == Spec => ImplementsRegistry
<1>1. Init => Owned /\ Registry!Init
  BY InitOwned DEF Init, Registry!Init
<1>2. Owned /\ [Next]_vars => Owned' /\ Step
  BY NextOwned, NextIsStep
<1> QED
  BY <1>1, <1>2, PTL DEF Spec, ImplementsRegistry, Registry!Spec, Step, Registry!vars

-----------------------------------------------------------------------------
(* The audit trail and the outbox.                                         *)
LEMMA LoggedAppend ==
  ASSUME NEW rows \in Seq(AuditRow), NEW row \in AuditRow, NEW h, NEW events
  PROVE  Logged(Append(rows, row), h, events)
            <=> Logged(rows, h, events) \/ (row.rev = h /\ row.event \in events)
<1> DEFINE longer == Append(rows, row)
<1>1. /\ Len(longer) = Len(rows) + 1 /\ Len(rows) \in Nat
      /\ longer[Len(rows) + 1] = row
      /\ \A i \in 1..Len(rows) : longer[i] = rows[i]
  OBVIOUS
<1>2. 1..Len(longer) = 1..Len(rows) \cup {Len(rows) + 1}
  BY <1>1
<1>3. ASSUME NEW i \in 1..Len(longer), longer[i].rev = h, longer[i].event \in events
      PROVE  Logged(rows, h, events) \/ (row.rev = h /\ row.event \in events)
  BY <1>1, <1>2, <1>3 DEF Logged
<1>4. ASSUME Logged(rows, h, events) \/ (row.rev = h /\ row.event \in events)
      PROVE  \E i \in 1..Len(longer) : longer[i].rev = h /\ longer[i].event \in events
  BY <1>1, <1>2, <1>4 DEF Logged
<1> QED
  BY <1>3, <1>4 DEF Logged

(* One row and one event of the same family, for the same revision of the  *)
(* same question, keep the two in step.                                    *)
Families == {<<{"publication"}, {"imported", "promoted", "published"}>>,
             <<{"rollback"}, {"rolled_back"}>>,
             <<{"locale-ru", "locale-ru-prompt"}, {"translated"}>>}
SameStory ==
    \A q \in Questions, h \in Hashes : \A f \in Families :
        Told(q, h, f[1]) <=> Logged(audit[q], h, f[2])

LEMMA SameStoryIsMatch == SameStory <=> AuditMatchesOutbox
  BY DEF SameStory, Families, AuditMatchesOutbox

LEMMA WritePair ==
  ASSUME Owned, SameStory, NEW q \in Questions, NEW h \in Hashes,
         NEW event \in AuditEvents, NEW key \in EventKeys,
         key.q = q, key.rev = h,
         \A f \in Families : key.kind \in f[1] <=> event \in f[2],
         WriteAudit(q, event, h), outbox' = outbox \cup {key}
  PROVE  SameStory'
<1> DEFINE row == [event |-> event, rev |-> h]
<1>1. row \in AuditRow /\ row.rev = h /\ row.event = event
  BY DEF AuditRow
<1>2. audit' = [audit EXCEPT ![q] = Append(@, row)]
  BY DEF WriteAudit
<1>3. audit \in [Questions -> Seq(AuditRow)]
  BY DEF Owned, TypeOK
<1> SUFFICES ASSUME NEW p \in Questions, NEW g \in Hashes, NEW f \in Families
             PROVE  Told(p, g, f[1])' <=> Logged(audit[p], g, f[2])'
  BY DEF SameStory
<1>4. Told(p, g, f[1])' <=> Told(p, g, f[1]) \/ (p = q /\ g = h /\ key.kind \in f[1])
  BY DEF Told
<1>5. Logged(audit[p], g, f[2])'
         <=> Logged(audit[p], g, f[2]) \/ (p = q /\ g = h /\ event \in f[2])
  <2>1. CASE p = q
    <3>1. audit'[p] = Append(audit[p], row) /\ audit[p] \in Seq(AuditRow)
      BY <1>2, <1>3, <2>1
    <3>2. Logged(Append(audit[p], row), g, f[2])
             <=> Logged(audit[p], g, f[2]) \/ (row.rev = g /\ row.event \in f[2])
      BY <1>1, <3>1, LoggedAppend
    <3> QED
      BY <1>1, <2>1, <3>1, <3>2 DEF Logged
  <2>2. CASE p # q
    BY <1>2, <1>3, <2>2 DEF Logged
  <2> QED
    BY <2>1, <2>2
<1>6. Told(p, g, f[1]) <=> Logged(audit[p], g, f[2])
  BY DEF SameStory
<1> QED
  BY <1>4, <1>5, <1>6

LEMMA WriteNeither ==
  ASSUME SameStory, UNCHANGED <<audit, outbox>>
  PROVE  SameStory'
  BY DEF SameStory, Told, Logged

LEMMA CommitTells ==
  ASSUME Owned, SameStory, CommitUpsertCard
  PROVE  SameStory'
<1>1. CASE Announces(tx)
  <2>1. PICK q \in Questions, h \in Hashes : q = tx.q /\ h = tx.h
    BY TxFields DEF CommitUpsertCard, Owned
  <2> DEFINE event == EventOf(tx.src, tx.publish)
             key == PublicationKey(q, h)
  <2>2. event \in {"imported", "promoted", "published"}
    BY TxFields DEF CommitUpsertCard, Owned, EventOf
  <2>3. key \in EventKeys /\ key.q = q /\ key.rev = h /\ key.kind = "publication"
    BY DEF PublicationKey, EventKeys
  <2>4. \A f \in Families : key.kind \in f[1] <=> event \in f[2]
    BY <2>2, <2>3 DEF Families
  <2>5. WriteAudit(q, event, h) /\ outbox' = outbox \cup {key}
    BY <1>1, <2>1 DEF CommitUpsertCard, WriteAudit
  <2>6. event \in AuditEvents
    BY <2>2 DEF AuditEvents
  <2> HIDE DEF event, key
  <2> QED
    BY <2>3, <2>4, <2>5, <2>6, WritePair
<1>2. CASE ~Announces(tx)
  BY <1>2, WriteNeither DEF CommitUpsertCard
<1> QED
  BY <1>1, <1>2

LEMMA RollbackTells ==
  ASSUME Owned, SameStory, NEW q \in Questions, NEW h \in Hashes,
         RollbackQuestion(q, h)
  PROVE  SameStory'
<1> DEFINE key == RollbackKey(q, current[q], h)
<1>1. current[q] \in Hashes
  BY DEF RollbackQuestion, RollbackTargets, Owned, TypeOK, PointsAtOwnRevision
<1>2. key \in EventKeys /\ key.q = q /\ key.rev = h /\ key.kind = "rollback"
  BY <1>1 DEF RollbackKey, EventKeys
<1>3. \A f \in Families : key.kind \in f[1] <=> "rolled_back" \in f[2]
  BY <1>2 DEF Families
<1>4. WriteAudit(q, "rolled_back", h) /\ outbox' = outbox \cup {key}
  BY DEF RollbackQuestion
<1>5. "rolled_back" \in AuditEvents
  BY DEF AuditEvents
<1> HIDE DEF key
<1> QED
  BY <1>2, <1>3, <1>4, <1>5, WritePair

LEMMA FinishTells ==
  ASSUME Owned, SameStory, NEW j \in jobs, NEW expected, NEW key \in EventKeys,
         key.q = j.q, key.rev = j.h, key.kind \in {"locale-ru", "locale-ru-prompt"},
         FinishJob(j, expected, key)
  PROVE  SameStory'
<1>1. CASE ru[j.q][j.h] = expected
  <2>1. PICK q \in Questions, h \in Hashes : q = j.q /\ h = j.h
    BY JobKeys DEF Owned
  <2>2. \A f \in Families : key.kind \in f[1] <=> "translated" \in f[2]
    BY DEF Families
  <2>3. WriteAudit(q, "translated", h) /\ outbox' = outbox \cup {key}
    BY <1>1, <2>1 DEF FinishJob, WriteAudit
  <2>4. "translated" \in AuditEvents
    BY DEF AuditEvents
  <2> QED
    BY <2>1, <2>2, <2>3, <2>4, WritePair
<1>2. CASE ru[j.q][j.h] # expected
  BY <1>2, WriteNeither DEF FinishJob
<1> QED
  BY <1>1, <1>2

LEMMA JobTells ==
  ASSUME Owned, SameStory, NEW j \in jobs,
         StoreRussianTranslation(j) \/ RepairRussianPrompt(j)
  PROVE  SameStory'
<1>1. CASE StoreRussianTranslation(j)
  <2>1. LocaleKey(j.q, j.h) \in EventKeys
    BY JobKeys DEF Owned
  <2>2. FinishJob(j, "none", LocaleKey(j.q, j.h))
    BY <1>1 DEF StoreRussianTranslation
  <2>3. /\ LocaleKey(j.q, j.h).q = j.q /\ LocaleKey(j.q, j.h).rev = j.h
        /\ LocaleKey(j.q, j.h).kind = "locale-ru"
    BY DEF LocaleKey
  <2> QED
    BY <2>1, <2>2, <2>3, FinishTells
<1>2. CASE RepairRussianPrompt(j)
  <2>1. PromptKey(j.q, j.h) \in EventKeys
    BY JobKeys DEF Owned
  <2>2. FinishJob(j, "degenerate", PromptKey(j.q, j.h))
    BY <1>2 DEF RepairRussianPrompt
  <2>3. /\ PromptKey(j.q, j.h).q = j.q /\ PromptKey(j.q, j.h).rev = j.h
        /\ PromptKey(j.q, j.h).kind = "locale-ru-prompt"
    BY DEF PromptKey
  <2> QED
    BY <2>1, <2>2, <2>3, FinishTells
<1> QED
  BY <1>1, <1>2

LEMMA NextTells ==
  ASSUME Owned, SameStory, [Next]_vars
  PROVE  SameStory'
<1>1. ASSUME NEW q \in Questions, NEW h \in Hashes, NEW src \in Refs,
             NEW publish \in BOOLEAN, BeginUpsertCard(q, h, src, publish)
      PROVE  SameStory'
  BY <1>1, WriteNeither DEF BeginUpsertCard, tables
<1>2. CASE \/ LockQuestion \/ AbortUpsertCard \/ MissingRussianSources
           \/ DegenerateRussianSources \/ UNCHANGED vars
  BY <1>2, WriteNeither DEF LockQuestion, AbortUpsertCard, MissingRussianSources,
                            DegenerateRussianSources, vars, tables
<1>3. CASE CommitUpsertCard
  BY <1>3, CommitTells
<1>4. ASSUME NEW q \in Questions, NEW h \in Hashes, RollbackQuestion(q, h)
      PROVE  SameStory'
  BY <1>4, RollbackTells
<1>5. ASSUME NEW seen \in SUBSET VaultRefs, ArchiveMissingSourceQuestions(seen)
      PROVE  SameStory'
  BY <1>5, WriteNeither DEF ArchiveMissingSourceQuestions
<1>6. ASSUME NEW j \in jobs, StoreRussianTranslation(j) \/ RepairRussianPrompt(j)
      PROVE  SameStory'
  BY <1>6, JobTells
<1>7. ASSUME NEW j \in jobs, DropJob(j)
      PROVE  SameStory'
  BY <1>7, WriteNeither DEF DropJob, tables
<1> QED
  BY <1>1, <1>2, <1>3, <1>4, <1>5, <1>6, <1>7 DEF Next

(* An outbox event of a family exists for a revision exactly when an audit *)
(* row of that family names the revision.                                  *)
THEOREM TrailHolds == Spec => []AuditMatchesOutbox
<1>1. Init => Owned /\ SameStory
  BY InitOwned DEF Init, SameStory, Told, Logged
<1>2. Owned /\ SameStory /\ [Next]_vars => Owned' /\ SameStory'
  BY NextOwned, NextTells
<1>3. SameStory => AuditMatchesOutbox
  BY SameStoryIsMatch
<1> QED
  BY <1>1, <1>2, <1>3, PTL DEF Spec
=============================================================================

--------------------------- MODULE CanonicalWriter ---------------------------
(***************************************************************************)
(* The canonical writer of internal/store: the transactions that create    *)
(* question revisions, move the current pointer and the status of a        *)
(* question, write its locales, and leave audit rows and outbox events     *)
(* behind.  PostgreSQL runs them at READ COMMITTED, so what matters is     *)
(* which row is locked when a value is read:                               *)
(*                                                                         *)
(*   - upsertCard updates its workspace row first, so two upsertCard       *)
(*     transactions of a workspace never overlap; there is one such        *)
(*     transaction at a time, held in tx;                                  *)
(*   - it reads the question's status before it holds the question row,    *)
(*     and the stored Russian prompt before it holds the locale row;       *)
(*   - RollbackQuestion, ArchiveMissingSourceQuestions and the translation *)
(*     writers take no workspace lock and run in between.                  *)
(*                                                                         *)
(* A revision is identified by its question and content hash (a unique key *)
(* of question_revision).  revision_no, payloads and texts are abstracted: *)
(* the hash stands for the payload, a Russian prompt for how it was made.  *)
(***************************************************************************)
EXTENDS Naturals, Sequences

CONSTANTS
    Questions,      \* stable keys of one workspace
    Hashes,         \* content hashes of the cards anybody may submit
    VaultRefs,      \* source_ref values: card files under the vault root
    CmsRef,         \* the source of a card that Payload promotes
    NoRev,          \* a null current_revision_id
    RuOf,           \* the Russian locale a card with this hash carries
    HasTopic,       \* the hashes whose card names a topic
    MaxAudit        \* bound: audit rows kept per question

Refs == VaultRefs \cup {CmsRef}
RuCard == {"none", "degenerate", "authored"}
RuPrompt == RuCard \cup {"translated"}
Statuses == {"absent", "draft", "published", "archived"}

ASSUME ConstantsAssumption ==
    /\ CmsRef \notin VaultRefs
    /\ NoRev \notin Hashes
    /\ RuOf \in [Hashes -> RuCard]
    /\ HasTopic \subseteq Hashes
    /\ MaxAudit \in Nat

VARIABLES
    status,     \* content.question.status, "absent" when there is no row
    current,    \* content.question.current_revision_id
    columns,    \* the revision whose slug, level and company the row carries
    revs,       \* content.question_revision, keyed by content_hash
    source,     \* source_system and source_ref of a revision
    body,       \* source.system and source.path inside question_locale.body
    ru,         \* the prompt of the revision's ru locale
    proposals,  \* revisions with a placement_decision row
    audit,      \* content.audit_event rows of a question, oldest first
    outbox,     \* content.outbox_event, as its idempotency keys
    released,   \* history: revisions an operator or editor released
    jobs,       \* translations in flight: the sources qb-translate-ru read
    tx          \* the upsertCard transaction that holds the workspace row

tables == <<status, current, columns, revs, source, body, ru, proposals, audit,
            outbox, released>>
vars == <<tables, jobs, tx>>

NoTx == [stage |-> "none"]
OpenTx == [stage : {"read", "locked"}, q : Questions, h : Hashes, src : Refs,
           publish : BOOLEAN, seen : Statuses, ruSeen : RuPrompt]
Jobs == [mode : {"translate", "repair"}, q : Questions, h : Hashes]

AuditEvents == {"imported", "promoted", "published", "rolled_back", "translated"}
AuditRow == [event : AuditEvents, rev : Hashes]

(* The idempotency keys of content.outbox_event.                           *)
PublicationKey(q, h) == [kind |-> "publication", q |-> q, from |-> h, rev |-> h]
(* Faulty: the event names the revision that was left.                     *)
RollbackKeyOfPrevious(q, prev, h) ==
    [kind |-> "rollback", q |-> q, from |-> h, rev |-> prev]
RollbackKey(q, prev, h) == [kind |-> "rollback", q |-> q, from |-> prev, rev |-> h]
LocaleKey(q, h) == [kind |-> "locale-ru", q |-> q, from |-> h, rev |-> h]
PromptKey(q, h) == [kind |-> "locale-ru-prompt", q |-> q, from |-> h, rev |-> h]
EventKeys == [kind : {"publication", "rollback", "locale-ru", "locale-ru-prompt"},
              q : Questions, from : Hashes, rev : Hashes]

AuditRoom(q) == Len(audit[q]) < MaxAudit
WriteAudit(q, event, h) ==
    audit' = [audit EXCEPT ![q] = Append(@, [event |-> event, rev |-> h])]

QuestionLocked(q) == tx.stage = "locked" /\ tx.q = q

-----------------------------------------------------------------------------
(* upsertCard, up to the read of the existing question: the workspace row  *)
(* is locked, the status is read and nothing of the question is.           *)
BeginUpsertCard(q, h, src, publish) ==
    /\ tx.stage = "none"
    /\ src = CmsRef => publish
    /\ tx' = [stage |-> "read", q |-> q, h |-> h, src |-> src,
              publish |-> publish, seen |-> status[q], ruSeen |-> "none"]
    /\ UNCHANGED <<tables, jobs>>

(* The insert ... on conflict that locks the question row, and the read of *)
(* the stored Russian prompt that decides whether the card overwrites it.  *)
LockQuestion ==
    /\ tx.stage = "read"
    /\ tx' = [tx EXCEPT !.stage = "locked", !.ruSeen = ru[tx.q][tx.h]]
    /\ UNCHANGED <<tables, jobs>>

EventOf(src, publish) == CASE src = CmsRef -> "promoted"
                           [] src # CmsRef /\ publish -> "published"
                           [] OTHER -> "imported"

(* A degenerate card prompt never replaces a different stored one.         *)
RuAfter(t) ==
    IF \/ RuOf[t.h] = "none"
       \/ RuOf[t.h] = "degenerate" /\ t.ruSeen \notin {"none", "degenerate"}
    THEN ru[t.q][t.h] ELSE RuOf[t.h]

(* Faulty: a new revision that is only imported is not announced.          *)
AnnouncesReleases(t) == t.publish /\ t.seen # "published"

(* The audit row and the outbox event are written for a new revision and   *)
(* for a release of a question whose status read at the start was another. *)
Announces(t) == t.h \notin revs[t.q] \/ (t.publish /\ t.seen # "published")

(* Faulty: a card that comes back is published again.                      *)
StatusAfterReturn(t) == IF t.publish \/ status[t.q] = "archived" THEN "published"
                        ELSE IF status[t.q] = "absent" THEN "draft" ELSE status[t.q]

(* Faulty: the status read before the row was locked is written back.      *)
StatusAfterStaleRead(t) == IF t.publish THEN "published"
                           ELSE IF t.seen = "absent" THEN "draft" ELSE t.seen

(* A new row is a draft unless the card is released; an existing row only  *)
(* changes to published.                                                   *)
StatusAfter(t) == IF t.publish THEN "published"
                  ELSE IF status[t.q] = "absent" THEN "draft" ELSE status[t.q]

CommitUpsertCard ==
    /\ tx.stage = "locked"
    /\ LET q == tx.q
           h == tx.h
       IN  /\ status' = [status EXCEPT ![q] = StatusAfter(tx)]
           /\ revs' = [revs EXCEPT ![q] = @ \cup {h}]
           /\ source' = IF h \in revs[q] THEN source
                        ELSE [source EXCEPT ![q][h] = tx.src]
           /\ body' = [body EXCEPT ![q][h] = tx.src]
           /\ ru' = [ru EXCEPT ![q][h] = RuAfter(tx)]
           /\ current' = [current EXCEPT ![q] = h]
           /\ columns' = [columns EXCEPT ![q] = h]
           /\ proposals' = [proposals EXCEPT ![q] = @ \cup ({h} \cap HasTopic)]
           /\ released' = IF tx.publish
                          THEN [released EXCEPT ![q] = @ \cup {h}] ELSE released
           /\ IF Announces(tx)
              THEN /\ AuditRoom(q)
                   /\ WriteAudit(q, EventOf(tx.src, tx.publish), h)
                   /\ outbox' = outbox \cup {PublicationKey(q, h)}
              ELSE UNCHANGED <<audit, outbox>>
    /\ tx' = NoTx
    /\ UNCHANGED jobs

(* Any statement may fail, or the request be cancelled: nothing is kept.   *)
AbortUpsertCard ==
    /\ tx.stage # "none"
    /\ tx' = NoTx
    /\ UNCHANGED <<tables, jobs>>

(* Faulty: the target is looked up by its id alone.                        *)
RollbackTargetsUnchecked(q) == Hashes

(* The question row is locked before it is read; the pointer, the audit    *)
(* row and the event commit together, and the status becomes published.    *)
(* The target is joined to the question it must belong to.                 *)
RollbackTargets(q) == revs[q]

RollbackQuestion(q, h) ==
    /\ h \in RollbackTargets(q)
    /\ ~QuestionLocked(q)
    /\ AuditRoom(q)
    /\ current' = [current EXCEPT ![q] = h]
    /\ status' = [status EXCEPT ![q] = "published"]
    /\ WriteAudit(q, "rolled_back", h)
    /\ outbox' = outbox \cup {RollbackKey(q, current[q], h)}
    /\ released' = [released EXCEPT ![q] = @ \cup {h}]
    /\ UNCHANGED <<columns, revs, source, body, ru, proposals, jobs, tx>>

(* One update statement at the end of a reconcile run whose import_item    *)
(* rows name the source refs in seen.  It waits for a locked row.          *)
Missing(seen) == {q \in Questions : /\ current[q] # NoRev
                                    /\ source[q][current[q]] \in VaultRefs \ seen}

ArchiveMissingSourceQuestions(seen) ==
    /\ \A q \in Missing(seen) : ~QuestionLocked(q)
    /\ status' = [q \in Questions |-> IF q \in Missing(seen) THEN "archived"
                                      ELSE status[q]]
    /\ UNCHANGED <<current, columns, revs, source, body, ru, proposals, audit,
                   outbox, released, jobs, tx>>

-----------------------------------------------------------------------------
Served(q) == status[q] = "published"

(* qb-translate-ru reads its sources once and translates them for minutes  *)
(* before it stores each result.                                           *)
MissingRussianSources ==
    /\ jobs = {}
    /\ jobs' = {j \in Jobs : /\ j.mode = "translate" /\ Served(j.q)
                             /\ current[j.q] = j.h /\ ru[j.q][j.h] = "none"}
    /\ UNCHANGED <<tables, tx>>

DegenerateRussianSources ==
    /\ jobs = {}
    /\ jobs' = {j \in Jobs : /\ j.mode = "repair" /\ Served(j.q)
                             /\ current[j.q] = j.h /\ ru[j.q][j.h] = "degenerate"}
    /\ UNCHANGED <<tables, tx>>

(* The locale row is written only if it is still what the job is for;      *)
(* otherwise nothing is recorded.  Besides RepairRussianPrompt, the script *)
(* repair_ru_prompts_2026-08-24.sql makes the same guarded update.         *)
FinishJob(j, expected, key) ==
    /\ jobs' = jobs \ {j}
    /\ IF ru[j.q][j.h] = expected
       THEN /\ AuditRoom(j.q)
            /\ ru' = [ru EXCEPT ![j.q][j.h] = "translated"]
            /\ WriteAudit(j.q, "translated", j.h)
            /\ outbox' = outbox \cup {key}
       ELSE UNCHANGED <<ru, audit, outbox>>
    /\ UNCHANGED <<status, current, columns, revs, source, body, proposals,
                   released, tx>>

StoreRussianTranslation(j) ==
    j.mode = "translate" /\ FinishJob(j, "none", LocaleKey(j.q, j.h))

RepairRussianPrompt(j) ==
    j.mode = "repair" /\ FinishJob(j, "degenerate", PromptKey(j.q, j.h))

(* A provider error, a crash of the command or a refused statement drops   *)
(* the job.                                                                *)
DropJob(j) ==
    /\ jobs' = jobs \ {j}
    /\ UNCHANGED <<tables, tx>>

-----------------------------------------------------------------------------
Init ==
    /\ status = [q \in Questions |-> "absent"]
    /\ current = [q \in Questions |-> NoRev]
    /\ columns = [q \in Questions |-> NoRev]
    /\ revs = [q \in Questions |-> {}]
    /\ source = [q \in Questions |-> [h \in Hashes |-> CmsRef]]
    /\ body = [q \in Questions |-> [h \in Hashes |-> CmsRef]]
    /\ ru = [q \in Questions |-> [h \in Hashes |-> "none"]]
    /\ proposals = [q \in Questions |-> {}]
    /\ audit = [q \in Questions |-> <<>>]
    /\ outbox = {}
    /\ released = [q \in Questions |-> {}]
    /\ jobs = {}
    /\ tx = NoTx

Next ==
    \/ \E q \in Questions, h \in Hashes, src \in Refs, publish \in BOOLEAN :
          BeginUpsertCard(q, h, src, publish)
    \/ LockQuestion
    \/ CommitUpsertCard
    \/ AbortUpsertCard
    \/ \E q \in Questions, h \in Hashes : RollbackQuestion(q, h)
    \/ \E seen \in SUBSET VaultRefs : ArchiveMissingSourceQuestions(seen)
    \/ MissingRussianSources
    \/ DegenerateRussianSources
    \/ \E j \in jobs : \/ StoreRussianTranslation(j)
                       \/ RepairRussianPrompt(j)
                       \/ DropJob(j)

Spec == Init /\ [][Next]_vars

-----------------------------------------------------------------------------
TypeOK ==
    /\ status \in [Questions -> Statuses]
    /\ current \in [Questions -> Hashes \cup {NoRev}]
    /\ columns \in [Questions -> Hashes \cup {NoRev}]
    /\ revs \in [Questions -> SUBSET Hashes]
    /\ source \in [Questions -> [Hashes -> Refs]]
    /\ body \in [Questions -> [Hashes -> Refs]]
    /\ ru \in [Questions -> [Hashes -> RuPrompt]]
    /\ proposals \in [Questions -> SUBSET Hashes]
    /\ audit \in [Questions -> Seq(AuditRow)]
    /\ outbox \subseteq EventKeys
    /\ released \in [Questions -> SUBSET Hashes]
    /\ jobs \subseteq Jobs
    /\ tx \in {NoTx} \cup OpenTx

(* A question row always points at one of its own revisions, and so does   *)
(* everything a rollback may name later.  The foreign key of               *)
(* current_revision_id does not say whose revision it is; upsertCard and   *)
(* RollbackQuestion do.                                                    *)
PointsAtOwnRevision ==
    \A q \in Questions :
        /\ released[q] \cup proposals[q] \subseteq revs[q]
        /\ IF status[q] = "absent" THEN current[q] = NoRev /\ revs[q] = {}
           ELSE {current[q], columns[q]} \subseteq revs[q]

(* No revision can become current without an event in the outbox that      *)
(* tells the indexer about it, whatever wrote it and whatever ran between  *)
(* the statements of its transaction.                                      *)
RevisionsAnnounced ==
    \A q \in Questions : \A h \in revs[q] : PublicationKey(q, h) \in outbox

(* A question is visible to learners only after an editor, a release or a  *)
(* rollback put one of its revisions forward: reconciling the vault        *)
(* publishes no draft and no archived question.                            *)
VisibleOnlyByRelease == \A q \in Questions : Served(q) => released[q] # {}

Told(q, h, kinds) == \E e \in outbox : e.q = q /\ e.rev = h /\ e.kind \in kinds
Logged(rows, h, events) ==
    \E i \in 1..Len(rows) : rows[i].rev = h /\ rows[i].event \in events

(* The audit trail and the outbox tell the same story: an event exists for *)
(* a revision exactly when a row of its kind names it, because both are    *)
(* written in the transaction that changed the row.                        *)
AuditMatchesOutbox ==
    \A q \in Questions, h \in Hashes :
        /\ Told(q, h, {"publication"})
              <=> Logged(audit[q], h, {"imported", "promoted", "published"})
        /\ Told(q, h, {"rollback"}) <=> Logged(audit[q], h, {"rolled_back"})
        /\ Told(q, h, {"locale-ru", "locale-ru-prompt"})
              <=> Logged(audit[q], h, {"translated"})

(* The transactions, interleaved with rollbacks and archiving, implement   *)
(* the registry of QuestionRegistry: a status read before the row was      *)
(* locked never decides the pointer or the visibility of a question.       *)
Registry == INSTANCE QuestionRegistry
ImplementsRegistry == Registry!Spec

-----------------------------------------------------------------------------
(* Statements of the repository's documents that the code does not keep;   *)
(* the README has their traces.                                            *)

(* What a learner is served was itself released, not imported.             *)
ServedWasReleased ==
    \A q \in Questions : Served(q) => current[q] \in released[q]

(* Whatever changes what learners are served leaves an audit row.          *)
ServedPointerAudited ==
    [][\A q \in Questions :
          Served(q) /\ Served(q)' /\ current'[q] # current[q]
          => audit'[q] # audit[q]]_vars

(* A question that becomes visible leaves an audit row.                    *)
BecomingVisibleAudited ==
    [][\A q \in Questions : ~Served(q) /\ Served(q)' => audit'[q] # audit[q]]_vars

(* A rollback that moves the pointer leaves a new event for the indexer.   *)
RollbackNotifies ==
    [][\A q \in Questions, h \in Hashes :
          RollbackQuestion(q, h) /\ h # current[q] => outbox' # outbox]_vars

(* A translated prompt is never replaced by the card's degenerate one.     *)
TranslationKept ==
    [][\A q \in Questions, h \in Hashes :
          ru[q][h] = "translated" => ru'[q][h] = "translated"]_vars

(* The slug, level and company a row is filtered by are the current ones.  *)
ColumnsMatchCurrent == \A q \in Questions : columns[q] = current[q]
=============================================================================

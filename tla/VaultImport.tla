----------------------------- MODULE VaultImport -----------------------------
(***************************************************************************)
(* The vault importer: internal/ingest with the import_run and import_item *)
(* rows of internal/store, as cmd/qb-import runs it.  A run lists the card *)
(* files once, then reads, stores and records them one by one in the order *)
(* of their paths, and a run over the whole root archives at its end every *)
(* question whose current revision came from a file it did not record.     *)
(*                                                                         *)
(* Meanwhile the vault is edited, questions are published and rolled back, *)
(* and another run may be under way: each statement or transaction of a    *)
(* run is a step.  UpsertCard is one step here, its statements are in      *)
(* CanonicalWriter; the review stage it fills first is in ImportReview.    *)
(*                                                                         *)
(* A file is a number, its place in path order.  A revision is identified  *)
(* by question and content hash; the hash does not cover the path.         *)
(***************************************************************************)
EXTENDS Naturals

CONSTANTS
    Runs,           \* processes of qb-import, each runs once
    Files,          \* paths under the root, numbered in path order
    Canonical,      \* those in the four card directories
    Questions, Hashes,
    Cards,          \* the cards files may hold, as records [q, h]
    NoFile,         \* content of a path without a file
    Broken,         \* content that is no acceptable card
    CmsRef,         \* source of a revision promoted by Payload
    NoRef,          \* source of a revision that does not exist
    NoRev,          \* a null current_revision_id
    MaxOthers       \* bound: edits of the vault, publications, rollbacks

ASSUME ConstantsAssumption ==
    /\ Files \subseteq Nat
    /\ Canonical \subseteq Files
    /\ Cards \subseteq [q : Questions, h : Hashes]
    /\ NoFile \notin Cards /\ Broken \notin Cards /\ NoFile # Broken
    /\ CmsRef \notin Files /\ NoRef \notin Files \cup {CmsRef}
    /\ NoRev \notin Hashes
    /\ MaxOthers \in Nat

VARIABLES
    disk,       \* what each path of the vault holds
    status,     \* content.question.status, "absent" when there is no row
    current,    \* content.question.current_revision_id
    source,     \* source_ref of each revision, NoRef when there is no row
    edges,      \* revisions whose edge proposals were materialised
    row,        \* content.import_run.status of a run
    item,       \* content.import_item, by run and source_ref
    stage,      \* where the process of a run is
    mode,       \* content.import_run.mode
    listed,     \* the files a run found at its start
    todo,       \* those it has not recorded yet
    hand,       \* the content of the file it works on
    action,     \* the action it will record for that file
    others,     \* bound: changes made by others so far
    quiet       \* history: runs during which nobody else changed anything

tables == <<status, current, source, edges>>
records == <<row, item>>
process == <<mode, listed, todo>>
vars == <<disk, tables, records, stage, process, hand, action, others, quiet>>

Content == Cards \cup {NoFile, Broken}
Refs == Files \cup {CmsRef}
Modes == {"reconcile", "single_file"}
Stages == {"off", "next", "upsert", "stored", "record", "archived", "ended"}
Stored == {"created", "updated", "unchanged"}
Actions == Stored \cup {"invalid", "none"}
Items == [action : Actions, card : Content]
NoItem == [action |-> "none", card |-> NoFile]
Statuses == {"absent", "draft", "published", "archived"}

Exists(q, h) == source[q][h] # NoRef
Recorded(r) == {f \in Files : item[r][f].action # "none"}
Live(r) == stage[r] \notin {"off", "ended"}

(* A change of the tables or the vault made by run r disturbs every other. *)
ChangedBy(r) == quiet' = quiet \cap {r}

-----------------------------------------------------------------------------
(* With --root a run covers what the card directories hold.                *)
CollectFiles == {f \in Canonical : disk[f] # NoFile}

(* resolveFiles lists these files or the named ones, StartImportRun adds   *)
(* the row.                                                                *)
StartRun(r, m, chosen) ==
    /\ stage[r] = "off"
    /\ IF m = "reconcile" THEN chosen = CollectFiles ELSE chosen # {}
    /\ stage' = [stage EXCEPT ![r] = "next"]
    /\ mode' = [mode EXCEPT ![r] = m]
    /\ listed' = [listed EXCEPT ![r] = chosen]
    /\ todo' = [todo EXCEPT ![r] = chosen]
    /\ row' = [row EXCEPT ![r] = "running"]
    /\ quiet' = quiet \cup {r}
    /\ UNCHANGED <<disk, tables, item, hand, action, others>>

IsNextFile(r, f) == f \in todo[r] /\ \A g \in todo[r] : f <= g

(* The file is read when its turn comes, however long after the listing.   *)
ReadFile(r) ==
    /\ stage[r] = "next"
    /\ \E f \in todo[r] :
          /\ IsNextFile(r, f)
          /\ disk[f] \in Cards
          /\ hand' = [hand EXCEPT ![r] = disk[f]]
    /\ stage' = [stage EXCEPT ![r] = "upsert"]
    /\ UNCHANGED <<disk, tables, records, process, action, others, quiet>>

(* A file that cannot be read or parsed, or that fails a quality gate (the *)
(* gates depend on the options of the run), is an invalid item.            *)
RefuseFile(r) ==
    /\ stage[r] = "next"
    /\ \E f \in todo[r] :
          /\ IsNextFile(r, f)
          /\ hand' = [hand EXCEPT ![r] = disk[f]]
    /\ stage' = [stage EXCEPT ![r] = "record"]
    /\ action' = [action EXCEPT ![r] = "invalid"]
    /\ UNCHANGED <<disk, tables, records, process, others, quiet>>

(* Faulty: only a new revision becomes current.                            *)
PointerToNewOnly(c) == IF Exists(c.q, c.h) THEN current[c.q] ELSE c.h

(* A card that is stored becomes current, its revision new or not.         *)
PointerAfter(c) == c.h

(* Faulty: a question that is no longer published counts as a release,     *)
(* an action that the check on import_item does not allow.                 *)
ActionOfRelease(c) == IF status[c.q] = "absent" THEN "created"
                      ELSE IF ~Exists(c.q, c.h) THEN "updated"
                      ELSE IF status[c.q] # "published" THEN "published" ELSE "unchanged"

ActionFor(c) == IF status[c.q] = "absent" THEN "created"
                ELSE IF Exists(c.q, c.h) THEN "unchanged" ELSE "updated"

(* The revision row keeps the source of the first import of its content.   *)
WriteRevision(c, ref) ==
    /\ current' = [current EXCEPT ![c.q] = PointerAfter(c)]
    /\ source' = IF Exists(c.q, c.h) THEN source
                 ELSE [source EXCEPT ![c.q][c.h] = ref]

(* The transaction of upsertCard: a new question is a draft, the status of *)
(* an existing one stays.                                                  *)
UpsertCard(r) ==
    /\ stage[r] = "upsert"
    /\ LET c == hand[r]
       IN  /\ \E f \in todo[r] : IsNextFile(r, f) /\ WriteRevision(c, f)
           /\ status' = [status EXCEPT ![c.q] = IF @ = "absent" THEN "draft" ELSE @]
           /\ action' = [action EXCEPT ![r] = ActionFor(c)]
    /\ stage' = [stage EXCEPT ![r] = "stored"]
    /\ ChangedBy(r)
    /\ UNCHANGED <<disk, edges, records, process, hand, others>>

(* Staging the card or its transaction fails: nothing is stored.           *)
FailUpsert(r) ==
    /\ stage[r] = "upsert"
    /\ stage' = [stage EXCEPT ![r] = "record"]
    /\ action' = [action EXCEPT ![r] = "invalid"]
    /\ UNCHANGED <<disk, tables, records, process, hand, others, quiet>>

(* After the commit the proposals of a new revision are materialised.      *)
MaterializeImportEdgeProposals(r) ==
    /\ stage[r] = "stored"
    /\ edges' = IF action[r] = "unchanged" THEN edges ELSE edges \cup {hand[r]}
    /\ stage' = [stage EXCEPT ![r] = "record"]
    /\ UNCHANGED <<disk, status, current, source, records, process, hand, action,
                   others, quiet>>

(* Faulty: an error after the commit is taken for a success.               *)
ActionIgnoringError(r) == action[r]

ActionAfterError(r) == "invalid"

(* Reading the revision back or materialising fails after the commit: the  *)
(* card is stored and its item says invalid.                               *)
FailAfterCommit(r) ==
    /\ stage[r] = "stored"
    /\ stage' = [stage EXCEPT ![r] = "record"]
    /\ action' = [action EXCEPT ![r] = ActionAfterError(r)]
    /\ UNCHANGED <<disk, tables, records, process, hand, others, quiet>>

(* Faulty: what could not be stored leaves no item.                        *)
StoredItemOnly(r) == IF action[r] = "invalid" THEN NoItem
                     ELSE [action |-> action[r], card |-> hand[r]]

ItemOf(r) == [action |-> action[r], card |-> hand[r]]

RecordImportItem(r) ==
    /\ stage[r] = "record"
    /\ \E f \in todo[r] :
          /\ IsNextFile(r, f)
          /\ item' = [item EXCEPT ![r][f] = ItemOf(r)]
          /\ todo' = [todo EXCEPT ![r] = @ \ {f}]
    /\ stage' = [stage EXCEPT ![r] = "next"]
    /\ hand' = [hand EXCEPT ![r] = NoFile]
    /\ action' = [action EXCEPT ![r] = "none"]
    /\ UNCHANGED <<disk, tables, row, mode, listed, others, quiet>>

(* Faulty: an item of any run keeps a question.                            *)
MissingFromAllRuns(r) ==
    {q \in Questions : /\ current[q] # NoRev
                       /\ source[q][current[q]] \in Files
                       /\ \A s \in Runs : source[q][current[q]] \notin Recorded(s)}

(* The questions whose current revision came from a file under the root    *)
(* that this run has no item for.                                          *)
Missing(r) == {q \in Questions : /\ current[q] # NoRev
                                 /\ source[q][current[q]] \in Files \ Recorded(r)}

(* The statement waits for a question that another run is storing, and     *)
(* leaves it alone when its pointer moved meanwhile.                       *)
HeldByOthers(r) == {q \in Questions : \E s \in Runs \ {r} :
                        stage[s] = "upsert" /\ hand[s].q = q}

ArchiveMissingSourceQuestions(r, skipped) ==
    /\ stage[r] = "next" /\ todo[r] = {}
    /\ mode[r] = "reconcile"
    /\ skipped \subseteq HeldByOthers(r)
    /\ status' = [q \in Questions |-> IF q \in Missing(r) \ skipped THEN "archived"
                                      ELSE status[q]]
    /\ stage' = [stage EXCEPT ![r] = "archived"]
    /\ IF skipped = {} THEN ChangedBy(r) ELSE quiet' = {}
    /\ UNCHANGED <<disk, current, source, edges, records, process, hand, action,
                   others>>

FinishImportRun(r) ==
    /\ todo[r] = {}
    /\ stage[r] = IF mode[r] = "reconcile" THEN "archived" ELSE "next"
    /\ row' = [row EXCEPT ![r] = "succeeded"]
    /\ stage' = [stage EXCEPT ![r] = "ended"]
    /\ UNCHANGED <<disk, tables, item, process, hand, action, others, quiet>>

(* A statement that records or archives fails, or the 30 minutes are over: *)
(* finishWithError writes "failed", unless that statement fails as well.   *)
(* A crash may come anywhere and writes nothing.                           *)
EndEarly(r, verdict) ==
    /\ Live(r)
    /\ verdict = "failed" => stage[r] \in {"next", "record", "archived"}
    /\ row' = [row EXCEPT ![r] = verdict]
    /\ stage' = [stage EXCEPT ![r] = "ended"]
    /\ todo' = [todo EXCEPT ![r] = {}]
    /\ hand' = [hand EXCEPT ![r] = NoFile]
    /\ action' = [action EXCEPT ![r] = "none"]
    /\ quiet' = quiet \ {r}
    /\ UNCHANGED <<disk, tables, item, mode, listed, others>>

-----------------------------------------------------------------------------
(* Everybody else.                                                         *)
Other == others < MaxOthers /\ others' = others + 1 /\ quiet' = {}

EditFile(f, c) ==
    /\ Other
    /\ disk' = [disk EXCEPT ![f] = c]
    /\ UNCHANGED <<tables, records, stage, process, hand, action>>

MoveFile(f, g) ==
    /\ Other
    /\ disk[f] # NoFile /\ disk[g] = NoFile
    /\ disk' = [disk EXCEPT ![f] = NoFile, ![g] = disk[f]]
    /\ UNCHANGED <<tables, records, stage, process, hand, action>>

(* PublishImportedCard of a card read from a file, or PromoteCard.         *)
PublishCard(c, ref) ==
    /\ Other
    /\ ref # CmsRef => disk[ref] = c
    /\ WriteRevision(c, ref)
    /\ status' = [status EXCEPT ![c.q] = "published"]
    /\ edges' = edges \cup (IF ref = CmsRef \/ Exists(c.q, c.h) THEN {} ELSE {c})
    /\ UNCHANGED <<disk, records, stage, process, hand, action>>

RollbackQuestion(q, h) ==
    /\ Other
    /\ Exists(q, h)
    /\ current' = [current EXCEPT ![q] = h]
    /\ status' = [status EXCEPT ![q] = "published"]
    /\ UNCHANGED <<disk, source, edges, records, stage, process, hand, action>>

-----------------------------------------------------------------------------
Init ==
    /\ disk \in [Files -> Content]
    /\ status = [q \in Questions |-> "absent"]
    /\ current = [q \in Questions |-> NoRev]
    /\ source = [q \in Questions |-> [h \in Hashes |-> NoRef]]
    /\ edges = {}
    /\ row = [r \in Runs |-> "none"]
    /\ item = [r \in Runs |-> [f \in Files |-> NoItem]]
    /\ stage = [r \in Runs |-> "off"]
    /\ mode = [r \in Runs |-> "single_file"]
    /\ listed = [r \in Runs |-> {}]
    /\ todo = [r \in Runs |-> {}]
    /\ hand = [r \in Runs |-> NoFile]
    /\ action = [r \in Runs |-> "none"]
    /\ others = 0
    /\ quiet = {}

RunStep(r) ==
    \/ \E m \in Modes, chosen \in SUBSET Files : StartRun(r, m, chosen)
    \/ ReadFile(r)
    \/ RefuseFile(r)
    \/ UpsertCard(r)
    \/ FailUpsert(r)
    \/ MaterializeImportEdgeProposals(r)
    \/ FailAfterCommit(r)
    \/ RecordImportItem(r)
    \/ \E skipped \in SUBSET HeldByOthers(r) : ArchiveMissingSourceQuestions(r, skipped)
    \/ FinishImportRun(r)
    \/ \E verdict \in {"running", "failed"} : EndEarly(r, verdict)

OtherStep ==
    \/ \E f \in Files, c \in Content : EditFile(f, c)
    \/ \E f \in Files, g \in Files : MoveFile(f, g)
    \/ \E c \in Cards, ref \in Refs : PublishCard(c, ref)
    \/ \E q \in Questions, h \in Hashes : RollbackQuestion(q, h)

Next == (\E r \in Runs : RunStep(r)) \/ OtherStep

Spec == Init /\ [][Next]_vars

-----------------------------------------------------------------------------
TypeOK ==
    /\ disk \in [Files -> Content]
    /\ status \in [Questions -> Statuses]
    /\ current \in [Questions -> Hashes \cup {NoRev}]
    /\ source \in [Questions -> [Hashes -> Refs \cup {NoRef}]]
    /\ edges \subseteq Cards
    /\ row \in [Runs -> {"none", "running", "failed", "succeeded"}]
    /\ item \in [Runs -> [Files -> Items]]
    /\ stage \in [Runs -> Stages]
    /\ mode \in [Runs -> Modes]
    /\ listed \in [Runs -> SUBSET Files]
    /\ todo \in [Runs -> SUBSET Files]
    /\ hand \in [Runs -> Content]
    /\ action \in [Runs -> Actions]
    /\ others \in 0..MaxOthers
    /\ quiet \subseteq Runs
    /\ \A q \in Questions : current[q] # NoRev => Exists(q, current[q])

(* Only a finished pass over the whole root archives, and only questions   *)
(* whose file it did not find: a file that was found counts, whether it    *)
(* could be read, parsed and stored or not, whatever else went on.         *)
ArchivesOnlyUnlisted ==
    [][\A q \in Questions :
          status[q] # "archived" /\ status'[q] = "archived"
          => \E r \in Runs : /\ stage[r] = "next" /\ stage'[r] = "archived"
                             /\ mode[r] = "reconcile"
                             /\ source[q][current[q]] \in Files \ listed[r]]_vars

(* An item that names a stored card is true: the revision is there, and so *)
(* are its edge proposals if the item says that this run made it.          *)
RecordedIsStored ==
    \A r \in Runs, f \in Files :
        LET i == item[r][f]
        IN  i.action \in Stored =>
              /\ i.card \in Cards /\ Exists(i.card.q, i.card.h)
              /\ i.action # "unchanged" => i.card \in edges

LastOf(r, f) ==
    \A g \in listed[r] : g > f /\ item[r][g].card \in Cards
                         => item[r][g].card.q # item[r][f].card.q

(* When nobody else interferes, a run that succeeded leaves each question  *)
(* at the card of its last file in path order, also when that card is an   *)
(* older revision, so running it again changes nothing.                    *)
LastFileWins ==
    \A r \in quiet : row[r] = "succeeded" =>
        \A f \in listed[r] : item[r][f].action \in Stored /\ LastOf(r, f)
                             => current[item[r][f].card.q] = item[r][f].card.h

(* And a pass over the whole root leaves no draft and no published         *)
(* question whose file it did not find.                                    *)
MissingAreArchived ==
    \A r \in quiet : row[r] = "succeeded" /\ mode[r] = "reconcile" =>
        \A q \in Questions :
            current[q] # NoRev /\ source[q][current[q]] \in Files \ listed[r]
            => status[q] = "archived"

-----------------------------------------------------------------------------
(* Statements of the repository's documents that the code does not keep.   *)
(* A run refutes OnlyMissingArchived, the README has the traces of the     *)
(* others.                                                                 *)

(* With nobody else at work, a run does not archive a question whose card  *)
(* it has just read and stored.                                            *)
OnlyMissingArchived ==
    [][\A r \in quiet, f \in Files :
          /\ item[r][f].action \in Stored
          /\ stage[r] # "archived" /\ stage'[r] = "archived"
          => LET q == item[r][f].card.q
             IN  status'[q] = "archived" => status[q] = "archived"]_vars

(* A run that is over does not stay "running".                             *)
EndedRunsSaySo == \A r \in Runs : stage[r] = "ended" => row[r] # "running"

(* A card that was imported without an error has its edge proposals.       *)
StoredHasEdges ==
    \A r \in Runs, f \in Files : item[r][f].action \in Stored => item[r][f].card \in edges
=============================================================================

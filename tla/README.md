# Formal model of fluent-question-brain

TLA+ modules, TLC configurations and machine-checked proofs about the question
brain: the canonical store of interview questions, its importers, its indexer
and its review workflows. Every definition is translated from the Go code and
the SQL it runs (`internal/`, `cmd/`, `db/migrations/`); documents of the
repository are only quoted where the code disagrees with them.

## The system

PostgreSQL holds everything (schema `content`). Go code in `internal/store`
is the only writer of it; the commands under `cmd/` and the HTTP API under
`internal/httpapi` call the store. No transaction asks for more than READ
COMMITTED, so every statement sees what is committed when it starts, and only
row locks order two transactions.

| Component | State it keeps | Operations | What is hard |
|---|---|---|---|
| Canonical writer (`store/postgres.go`) | `question` (status, current revision, slug/level/company), `question_revision`, `question_locale`, `placement_decision`, `audit_event`, `outbox_event` | `UpsertCard`, `PublishImportedCard`, `PromoteCard`, `RollbackQuestion`, `ArchiveMissingSourceQuestions` | values read before the row they belong to is locked; writers that take no workspace lock; conditional audit and outbox rows |
| Russian translations (`cmd/qb-translate-ru`, `store`) | `question_locale` rows with locale `ru` | list missing or degenerate, translate for minutes, store or repair | results of a list that is minutes old |
| Vault importer (`internal/ingest`, `cmd/qb-import`) | `import_run`, `import_item` | scan files, upsert each, archive what was not seen | files that change, move or vanish during a run; two runs; a crash between steps |
| Import review (`store/import_review.go`, `cmd/qb-release`) | `import_review_stage`, `import_review_candidate` | stage, find candidates, decide, assert ready, publish, mark published | a status derived from several rows by concurrent reviewers; the publication is five separate transactions |
| Outbox and indexer (`store` `ClaimOutbox`..., `cmd/qb-index`) | `outbox_event` lease columns, `question_embedding` | claim with `skip locked` and a lease of 5 minutes, embed every locale, mark published or failed | lease expiry with no claim token, crashes, retries, several workers, texts that change under an embedding |
| Query embedding cache (`store/postgres.go`), quality response cache (`httpapi/server.go`) | in-memory map of results and map of calls in flight | look up, wait for the call in flight, compute, expire, evict | shared call and its owner's cancellation, expiry and capacity, a report read from a content that changes |
| Search and readers (`Search`, `GetQuestion`, `Catalog`, `Release`, `Quality`) | none | read | several statements over a moving database |
| Graph placement release (`store/graph.go`, `cmd/qb-graph-release`) | `placement_decision`, `question_topic`, audit and outbox rows | inspect, materialise topics, accept | questions published between two statements of the release |
| Reviewed question graph (`store/question_graph.go`) | edge proposals, edges, graph releases | propose, decide, release, roll back | concurrent acceptances that form a cycle together; activation of one release among many |
| Capability bindings and review (`store/capability_binding.go`, `store/capability_review.go`) | bindings, proposals, releases | generate, stage, review, revoke, release, roll back | proposals pinned to old releases; a manifest released long after it was written |
| Capability aliases (`store/capability_alias_review.go`) | alias and supersession proposals, registry facts | propose, decide | decisions of two workspaces over one global registry; locks that two creations take in halves |
| Curriculum mapping (`store/curriculum_mapping.go`, `cmd/qb-map-release`) | `question_curriculum_mapping`, audit rows | validate a manifest, write its rows | rows locked one by one by two releases |
| CMS hook (`apps/cms`) | Payload drafts | promote a published question over HTTP | a lost answer to a promotion that committed |

Interactions. The importer, `qb-release` and the CMS hook (through
`httpapi`) end in the one function `upsertCard`. It leaves outbox rows that
`qb-index` turns into embeddings, which search reads. Import review gates
`PublishImportedCard`. The graph and capability releases read the current
revisions of published questions, and so do the placement and mapping releases.
Search asks the query cache for a vector before it runs its SQL.

What makes each part correct:

* canonical writer: one served revision per question and it is the question's
  own; nothing becomes visible without an explicit release; every change of
  what is served is in the audit trail and in the outbox;
* indexer: an event is published only when every locale of its revision has a
  vector; no event is lost; two workers do not work on the same event unless
  one was slower than its lease;
* import review: no card is released before its candidates were resolved; a
  resolved pair stays resolved; a stage tells what its decisions amount to;
* question graph: accepted prerequisites have no cycle, which the code keeps for
  decisions that follow one another; a release is a consistent set; one release
  at most is in force;
* vault importer: a pass archives only what it did not find; an item that says
  "stored" is true; an undisturbed run leaves each question at its last file;
* capability bindings: learners get one whole release, made of decided bindings
  on the paths that one mapping gave their cards; one release is active; what was
  revoked stays out;
* capability aliases: what was accepted resolves, as it was decided, for ever;
  no fact without its decision; no cycle of supersessions;
* placement and mapping releases: a mapping release stands whole, two do not
  deadlock, an accepted placement has its topic;
* caches: one computation per key, an answer is never older than one already
  given, every caller returns, the size is bounded.

`PROJECT.json` lists every component, the hazards with their lines, and what
covers each of them.

## Modules

| Module | What it is | Code |
|---|---|---|
| `QuestionRegistry` | what a reader may rely on: accept, restore, retire | abstract |
| `CanonicalWriter` | `upsertCard` in three steps with rollbacks, archiving and translations between | `store/postgres.go`, `cmd/qb-translate-ru` |
| `EmbeddingDelivery` | an event finishes only with its locales indexed; nothing is undone | abstract |
| `OutboxIndexer` | producers, claims with leases, workers, faults, time | `store/postgres.go`, `cmd/qb-index` |
| `ImportReview` | staging statement by statement, decisions, publication step by step | `store/import_review.go`, `PublishImportedCard` |
| `ReleaseRegister` | one release in force at most, none comes back | abstract |
| `QuestionGraph` | proposals, decisions with the cycle check, releases, rollbacks | `store/question_graph.go` |
| `LearnerProjection` | readers get one whole release, one binding per station | abstract |
| `CapabilityBindings` | manifests, staging, review, releases, rollbacks, the projection | `store/capability_binding.go`, `store/capability_review.go` |
| `SharedCalls` | two caches with a call in flight per key, callers and their contexts | `store/postgres.go` (`queryEmbedding`), `httpapi/server.go` (`quality`) |
| `VaultImport` | runs over the vault, file by file, and what others do meanwhile | `ingest/importer.go`, `cmd/qb-import`, `store/postgres.go` |
| `CapabilityAliases` | proposals, decisions and the facts they write, with row locks | `store/capability_alias_review.go`, migrations 0015, 0019 |
| `EditorialReleases` | placement and mapping releases, statement by statement | `store/graph.go`, `store/curriculum_mapping.go`, `mapping/manifest.go` and their commands |
| `*Proofs` | the theorems of a module and their proofs; `CapabilityProofs` has those of both capability modules | |
| `MC*` | finite values for the constants | |

The detailed modules beside `CanonicalWriter` take the canonical writer as one
atomic step (`StoreRevision`, `Publish`, `MoveQuestion`, `UpsertCard`,
`PublishRevision`); its statements are the subject of `CanonicalWriter` alone. How state corresponds to
the schema is said at each VARIABLE; `PROJECT.json` maps each definition to its
lines.

### CanonicalWriter

A revision is its question and content hash, the unique key of
`question_revision`. `upsertCard` locks the workspace row first, so one such
transaction runs at a time (`tx`); it has three steps because two values are
read before their rows are locked: the status of the question, and the stored
Russian prompt. `RollbackQuestion`, `ArchiveMissingSourceQuestions` and the
translation writers lock other rows and come in between, one statement or one
short transaction each, blocked only while the question row is held
(`QuestionLocked`). A translation job is a source that was listed; it may be
stored or dropped any time later. The refused statement of
`RepairRussianPrompt`, where another writer was first, has the effect of
`DropJob`.

### OutboxIndexer

The text of a locale is the number of times it was written; a vector is the
text it was made from. A worker's batch, event in hand and locales to embed are
its local state; a crash clears it, a restarted process begins anew.
`ExpireLease` and `EndBackoff` are the passing of time.

### ImportReview

Each statement of `StageImportCard` commits on its own and is an action. A
reviewer's transaction has two steps, because the derived status of the stage
comes from a snapshot that may be older than what another reviewer commits
before the row is written. Two consequences to know: a first import stages all
cards before any of them is published, and candidates are searched among
published questions only, so near duplicates inside one batch are cleared
unseen and a later release returns early on `cleared`. The stage status
`discarded` is only written by an operator's SQL and is left out. `crossed` is
a history: the cards of which two derivations were open at once, where a
derivation is open from its read to its write.

### QuestionGraph

A release is named by its set of proposals, of which the code takes a hash
(taken as injective). The five reads of `ReleaseQuestionGraph` outside the
transaction are steps of their own where another request can come between.
`rejected` and `superseded` are one status; evidence and provenance are in
order; the audit and outbox rows of a release, and the question release it
records, are left out. `overlapped` is a history: for each proposal, those
whose acceptance was at some time open together with its own.

### CapabilityBindings

A binding release is named by its manifest, and a question release by the set
of served revisions, of which the code takes hashes (taken as injective). A
command is a process: it reads the release, then the cards, then the accepted
proposals, and what it wrote to a file may be edited (`Edits`) and released
much later. A release checks the pin and the cards in two reads before its
transaction. The station (`SlotOf`) of a binding is the key of
`question_capability`, which the role is not part of; rows of one station are
written one by one by a release, so the last one stays (`Choices`), and by one
statement in a rollback, which PostgreSQL refuses (`Restorable`). The capability
registry is fixed. The paths are not: `mapping` is
`question_curriculum_mapping`, and `ReleaseCurriculumMapping` rewrites the path
and the state of served revisions between any two steps, as one step, since its
statements are the subject of `EditorialReleases`. A command reads the paths
with the cards and keeps those it needs for its merge (`along`); a check of a
manifest (`Covers`) compares with the paths of its moment, whatever the state of
the mapping; a rollback compares with none. `pasts` is a history of the paths.
`First` are the releases that may be in force in the beginning.
`Init` has workspaces without any release; there `Release` refuses every command,
the first release included, and no command of the repository gets past it.

### SharedCalls

What is done between `Lock` and `Unlock` is one action. A caller computes
without the lock, waits for another's call, or has its answer and is about to
return it. The two caches differ in when they drop expired entries and in when
they make room, after or before the new entry is stored; which live entry goes
is the order of a Go map, hence any. A vector never changes; a report is a
version of the content. `floor` is what had been returned for the key when the
request began.

### VaultImport

A run lists its files once and then, file by file, reads, stores, materialises
edge proposals and records an item; a run over the root archives at its end.
Each of these is an action, and a failure or the death of the process may
follow any of them. `UpsertCard` is one step; the quality gates depend on the
options of the run, so any file may be refused. The archiving statement waits
for a question that another run is storing, and leaves it alone when the
pointer moved meanwhile (`skipped`). `quiet` is the set of runs during which
nobody else changed anything; two properties are about those.

### CapabilityAliases

A decision locks its proposal and the workspace row, because the join is
selected for update; a creation holds a share of the workspace row, which its
foreign keys take, until it wants the whole row at its end. Registry facts
belong to no workspace, so decisions of two workspaces meet in them.
`overlapped` records that two acceptances of supersessions were open at once.
The trigger looks for a cycle before the insert waits for a conflicting row,
the model after; the two differ only when acceptances overlapped, and
`AcyclicUnlessOverlapped` is about the runs in which none did. Names that the
module shares with `CapabilityBindings` begin with `Alias`, so that one module
can hold the proofs about both.

### EditorialReleases

Both commands read and check what is published before they open their
transaction. The fingerprint of a release and its count of questions are two
reads. The insert of topics has a start, at which it sees the database, and an
end, before which it may wait for another transaction; the accepting statement
is one step. Mapping rows are locked and written one by one in the order of
their stable keys; `placing` and `writing` are the two kinds of command of a
session. `NeverDeadlock` is about every set of sessions: one of them waits for
nobody in the set, which rules out circles of any length. A revision has one
placement, in its source topic. `slipped`
are the revisions published between the start of the topics and the acceptance.
A release id is what the code takes a hash of (taken as injective).

## What is checked

| Run | Bound | What it shows |
|---|---|---|
| `canonical_writer` | 1 question, 2 cards, vault and Payload, 3 audit rows | outbox complete, visibility explicit, audit trail equals outbox, no pointer to a revision the question does not have, `QuestionRegistry` implemented |
| `outbox_indexer` | 2 workers, 3 events, 1 fault, every interleaving of lease expiry | leases exclude, delivery is safe |
| `outbox_indexer_live` | 1 worker, 3 events, 2 faults, texts that change once | every event is finished, a rollback and a repair among them |
| `import_review` | 2 cards, 2 imports, 1 reviewer | nothing is released before one derivation found it clear; a stage is cleared or blocked as its decisions say, unless two derivations of it crossed |
| `question_graph` | 2 decisions on one related edge, 2 releases that may differ, a question that moves | a release was the accepted set at one moment, all endpoints current; `ReleaseRegister` implemented |
| `capability_bindings` | 1 question, 3 bindings of which 2 share a station, a mapping that moves between an accepted path and one that is only proposed, 2 commands, 2 releases | one whole release is shown at every moment, all of it decided and on the paths of one mapping |
| `question_graph_cycle` | 3 prerequisites that form a cycle, 2 reviewers | a cycle is accepted only if two decisions on it were open at once |
| `shared_calls` | 2 callers, 2 queries and 2 scopes, capacity 1, the content changes once | one computation per key, bounded caches, no report older than one returned before; every caller returns |
| `vault_import` | 2 runs, 2 files, 1 question with 2 cards, 1 change by others | only unlisted questions are archived, items are true, an undisturbed run leaves its last file current and nothing missing unarchived |
| `capability_aliases` | 2 sessions, 2 workspaces, 6 proposals with a cycle of three, a second successor, a name with two meanings | what is accepted resolves and stays, facts were decided, no cycle unless acceptances overlapped |
| `editorial_releases` | 2 commands at a time, 3 in all, 2 questions with 2 revisions each, 3 manifests, 2 changes of what is published | mapping releases stand whole, are audited once and never deadlock; a placement lacks its topic only if its revision slipped in |
| `only_missing_archived` | as `vault_import` | a violation, see below |

Why these bounds are enough. Every interaction in the code is between two
requests on one row, or on two rows that one of them relates, so two
actors and one or two questions reach them; a third reviewer or worker only
repeats what a second one does. Cycles need three nodes to differ from a pair.
`MaxAudit`, `MaxText`, `MaxFaults`, `MaxReleases`, `MaxVersion`, `MaxOthers`,
`MaxMoves` and `MaxCommands` bound histories and are the only counters; each is
at least what the shortest run through every action needs. `MaxOthers` is 1
because the other run is a disturbance of its own; `MaxCommands` lets one
command follow two that overlap. The capacity of a cache is 1 so that two keys
overfill it. Runs with symmetry permute workers, importers, reviewers,
publishers, sessions, runs or commands, none of which a property names, and no
run with a liveness property has it.

Fairness (`outbox_indexer_live`). A worker that can take its next step takes it
(the loop of `cmd/qb-index` polls for ever); a crashed one is restarted
(`restart: unless-stopped` in `deploy/compose/compose.yaml`); a lease or a
backoff ends because time passes. Faults and producers are not fair. Faults are
bounded by `MaxFaults`: an event whose provider fails for ever is retried for
ever by the code, and nothing is claimed of it.

Fairness (`shared_calls`). A goroutine that can go on does (`Work`). A search
has a deadline (350 ms around the vector, `Deadline`) and the provider's client
obeys its context; a report has none, but the database answers or fails
(`Obeyed`). Requests, clients that leave, expiry and changes of the content are
not fair.

### Where the code and its documents disagree

`only_missing_archived` finds a statement of the repository violated;
`PROJECT.json` quotes the line that makes it. A file that was moved is read and
stored under its new path, its revision keeps the path of its first import, and
the same run, which has no item for that path, archives the question.

The other statements at the end of a module have no run of their own, to keep
the set of runs small. Named in a configuration in place of its properties,
each fails on a short trace:

| Definition | Trace |
|---|---|
| `ServedWasReleased` | a reconcile of an edited file moves the pointer of a published question (postgres.go:637), so an unreleased revision is served; postgres.go:462-463: "a regular vault reconcile can never publish content by accident" |
| `ServedPointerAudited` | cards 1 and 2 are released, card 1 is promoted again: the revision exists and the status does not change, so neither audit row nor event is written while the pointer moves |
| `BecomingVisibleAudited` | a promotion reads `published`, the question is archived, the promotion commits `published` and takes the change of status for none |
| `RollbackNotifies` (4 audit rows) | roll back from 2 to 1, from 1 to 2, and from 2 to 1 again: the key of the third event exists |
| `TranslationKept` | a promotion of a stored card reads the degenerate prompt, a repair commits, the promotion writes what it read |
| `ColumnsMatchCurrent` | any rollback: slug, level and company stay those of the later card |
| `DrainedVectorsFresh` (events `pub`, `fix`) | a repair changes the prompt and not the content hash, the vector exists under that hash (postgres.go:1016), and the event is published with the old one; postgres.go:269-270: "let the indexer re-embed the changed locale text" |
| `UncheckedNeverReleased` | the provider fails after the textual candidates were stored, a decision on one of them clears the stage (import_review.go:461) and it is released; import_review.go:63-65: "a failed candidate provider cannot turn into an unchecked publication" |
| `PublishedStageResolved` | a merge is decided between the readiness check and `MarkImportStagePublished` |
| `MergeNeverCleared` | two reviewers at two candidates (3 cards): each derives the status before the other commits |
| `ResolvedStageUnblocked` | a derivation reads `open`, the decision commits, the derivation writes `blocked`; nothing derives again |
| `NeighboursProposed` | the release stops after the card is stored; the next one finds the revision and proposes nothing |
| `AcceptedAcyclic` (edges `ab`, `ba`) | two reviewers accept the two edges; both checks (question_graph.go:393) run before either commits |
| `ReleasedAcyclic` (edges `ab`, `ba`, 2 reviewers) | two acceptances close a cycle, a release reads its edges, one edge is rejected, the release counts no cycle (question_graph.go:532) and releases both; question_graph.go:342-344: "so a concurrent cycle cannot be released" |
| `ReleasedWhileAccepted` | a proposal is rejected between the read of a release and its transaction |
| `ApprovalIdempotent` | two approvals of one set: the second retires the first's release and its insert conflicts with it |
| `RevokedStaysOut` | a crosswalk binding is revoked, the next generated manifest contains it and its release accepts it (capability_binding.go:777); capability_review.go:157-161: "remove a demonstrably invalid placement from the next release" |
| `NoForeignPath` | a release is checked, or in force, and a mapping release moves the path of its revision (curriculum_mapping.go:203); or it is replaced and a rollback brings back rows that are off the path by now (capability_binding.go:143-163); lines 330-331: "a path mismatch is an error because accepting it would leak a foreign path into a learner projection" |
| `AcceptedPathsOnly` | a mapping release gives the card a path that is only proposed, the manifest is edited to that path, and the check passes because its join (capability_binding.go:914) does not look at `mapping_state`; line 658: "is bound but has no accepted curriculum path" |
| `EveryReleaseRestorable` | an accepted neighbour joins a crosswalk binding of the same station; the release cannot be restored once it is replaced |
| `PinsAgree` | a question is archived, published and archived again between the reads of a generation and of a release: the release pins one question release and lists the cards of another |
| `EndedRunsSaySo` | a run dies, or its context ends and the statement that would write "failed" fails with it: the row says "running" for ever |
| `StoredHasEdges` | a run dies, or fails, after the card is stored; the next run finds it unchanged and never materialises its edge proposals |
| `AcceptedHasItsFact` | a key already has a successor; a second supersession to another one is accepted and the conflict changes nothing (capability_alias_review.go:296); lines 198-200: "An accepted decision materialises exactly one canonical registry fact in the same transaction" |
| `SupersessionsAcyclic` | two workspaces accept the halves of a cycle at once, each trigger sees only what is committed; 0015_capability_registry_v2.sql:77-79: "this trigger rejects a cycle" |
| `CanonicalIsTerminal` | a is superseded by b, then b by c, and a still points to b; the same comment: "must point forward to a terminal canonical key" |
| `CreatesNeverDeadlock` | two creations in one workspace hold the share of its row and each wants the whole of it (capability_alias_review.go:318); PostgreSQL aborts one |
| `AcceptedHasTopic` | a question is published after the statement that materialises topics and before the one that accepts (graph.go:188) |
| `PlacementAuditedOnce` | two commands for one release id with nothing left to insert or accept: both find no audit row and both write one; docs/contracts/question-graph-release.md:36: "one audit event and one outbox event are written per graph release ID" |
| `TopicsAnnounced` | the id was computed before a publication and announced by an earlier release; the new topic is materialised without an event |
| `MappingChangesAudited` | an earlier manifest is released again: its id is audited already, its rows change |

## What is proved

Each theorem holds for every value of the constants that satisfies the
module's `ConstantsAssumption` (`AliasesAssumption`); nothing else is assumed, except where said.

* `CanonicalWriterProofs`. `OwnershipHolds`: the types, with
  `PointsAtOwnRevision`, are inductive together (`Owned`); what makes it so is
  that the open transaction names only its own question. `AnnouncedHolds`
  builds on it: a revision and its publication event are added by the same
  commit, and only a commit with `publish`, or a rollback of what was
  published, makes a question visible. `RefinementHolds`: the commit maps to
  `Accept`, a rollback to `Restore`, archiving to `Retire`, everything else
  stutters. `TrailHolds`: the audit rows and the outbox events of a family name
  the same revisions; the argument is on the pair that each writer appends
  (`SameStory`).
* `OutboxIndexerProofs`. `TypesHold`. `LeasesExclude`: `LeaseExclusive` needs
  that an event somebody works on, whose lease never ran out, is still held
  (`LeaseHeld`), that a lease that ran out is recorded, and that the event in
  hand has left the batch. `DeliveryHolds`: while a worker has an event in hand
  each due locale is indexed or still to do (`Covered`), so the mark comes
  last; a lost or late mark only repeats it.
* `ImportReviewProofs`. `ReviewHolds`: whoever is past the readiness check, and
  every cleared or published stage, is in `reviewed` (`Sound`), because a
  status is written only from a computed outcome; the snapshot may be old, but
  it once was true. `ResolutionHolds`: the insert keeps a decision, and a
  reviewer's choice is a resolution (`ResolvedStaysResolved`). `StagesHold`: the
  status that an uncrossed derivation has in hand is still the status of the
  rows when it writes (`Alone`), and a written one fits the decisions but for
  candidates inserted since (`Fitting`).
* `QuestionGraphProofs`. `TypesHold`, which includes that two reviewers are
  never at one proposal. `TogetherHolds`: the edges a busy request carries were
  observed with every endpoint current (`Vetted`). `RegisterHolds`: one active
  release (`OneActive`) and the arbiter of the insert. `CyclesHold`, for any
  number of reviewers: an open acceptance closes no cycle with what is accepted
  by now, but for what was decided beside it (`Checked`, `Beheld`), so among
  proposals of which no two overlapped the last one to be accepted closes no
  cycle (`InSeries`), by lemmas on `Reach` that hold for every relation, finite
  or not. `ReleasedCyclesHold` carries it to releases, which are
  sets that were accepted at one moment (`TogetherHolds`).
* `CapabilityProofs`, bindings. `TypesHold`: types need that the target of a
  rollback was issued and that what is about to be released was checked
  (`Prepared`). `DecisionsHold`: everything issued is decided (`Settled`),
  because a release accepts what it binds and no step takes a decision back.
  `PathsHold`: everything that was checked, and so everything issued, lay on the
  paths of one moment (`Mapped`), and `pasts` only grows (`PastsGrow`); nothing
  is said of the paths after the check. `ProjectionHolds`: every row belongs to
  the active release and the rows are a choice of it (`Mirrored`); the unique
  index leaves only rows of the release being written, and these make room for
  the new ones.
* `CapabilityProofs`, aliases. `AliasTypesHold` includes that decisions of a
  workspace exclude each other. `AliasesResolve` and `FactsHold`: what an open
  transaction wrote still stands when it commits (`TxPrepared`, `RowsExclusive`),
  so the whole of `AliasInv` is inductive. `HistoryHolds`: no step overwrites a
  fact or a decision. `AcyclicHolds`: as long as acceptances did not overlap, the
  check of the trigger is still good at the commit (`CheckStillGood`); a cycle is
  a set that leads into itself, so no induction on the length of chains is needed.
* `SharedCallsProofs`. `TypesHold` and `CallsHold`: a registered producer is
  producing, every producer is registered, every waiter has a call; together
  they are inductive.
  `OrderHolds`: entries, reads and answers are at least as new as what was
  returned for their key when the request began (`Ordered`). `SizeHolds`: the
  set that is kept has at most `Capacity` keys, by facts on cardinalities.
* `VaultImportProofs`. `RecordsHold`: an item is written only from what is in
  hand, and what is in hand after the commit is stored (`InHand`, `Truthful`).
  `ArchivingHolds`: when a run archives, every listed file has an item, because
  only an early end empties `todo` without one (`Position`). `ReconcileHolds`:
  for a run nobody disturbed, files are recorded in path order (`InOrder`) and
  the last one recorded of a question is current (`FilesWin`, `HandWins`).
  `MissingHolds`: such a run has archived what it did not find. `TypesHold`.
  `StoredIsSpared`: where the current card of each recorded question lies is
  known (`InPlace`), so the archiving of a question whose file the run has
  recorded has one cause, a card that was first imported from another file.
* `EditorialReleasesProofs`. `TypesHold` and `WholeHolds`: an open mapping
  release has written a beginning of its entries in the order of their keys,
  holds exactly the rows it went past, and those it found unchanged still have
  its value (`Orderly`); since rows are exclusive, no other release changed them
  and none has audited the same id. `DeadlockHolds`: of any set of sessions take
  those whose next key is the greatest; a session waits only for one that went
  past its key, so nobody in the set holds what they wait for. A greatest key
  exists because questions are finitely many, and the induction this needs is
  one over subsets (`MinimalMember`), with the library's well-founded ordering.
  `MaterialisedHolds`: whatever is current and decided between the insert of the
  topics and the acceptance has its topic, or is in `slipped` (`Covering`).

Some statements of the repository that fail have one cause. Where it is
known, a theorem says so for every behaviour of the specification: the
statement holds but for what has that cause.

| Theorem | Statement | The only exception |
|---|---|---|
| `CyclesHold`, `ReleasedCyclesHold` | `AcceptedAcyclic`, `ReleasedAcyclic` | cycles with two prerequisites whose acceptances were open at once |
| `StagesHold` | `MergeNeverCleared`, `ResolvedStageUnblocked` | stages of which two derivations crossed |
| `StoredIsSpared` | `OnlyMissingArchived` | questions whose current card was first imported from another file than the one recorded (`SparesUnlessMoved`) |
| `AcyclicHolds` of `CapabilityProofs` | `SupersessionsAcyclic` | behaviours in which two acceptances were open at once |

Two more say what would be enough, under a hypothesis that the code does not
enforce: `OneWorkspaceAcyclic`, `SupersessionsAcyclic` where all proposals belong
to one workspace, whose row orders the acceptances; and `CheckedBeforeDecided`,
`UncheckedNeverReleased` as long as nobody decides on a card before its
candidates were all looked for (`DecidedWhenChecked`), since a ready status then
comes from a finished search (`Searched`).

Only model-checked: `EveryEventFinishes` and `EveryCallerReturns`, which are
liveness under fairness, and every violation, which is a counterexample on a
small instance. Every other property of a run is a theorem. `ResolvedStaysResolved`
is proved and in no run.

## What is not modelled

Parsing and normalisation of Markdown, text heuristics, taxonomy tables,
ranking in SQL, HTTP decoding, metrics, and one-off scripts: they keep no state
that a concurrent actor shares. Similarity of cards is a constant relation.
Deadlocks between row locks are broken by PostgreSQL with an error, which is
the abort action of each transaction. `PROJECT.json` gives the reason per
component.

## Plan

Done: 1. `QuestionRegistry`, `CanonicalWriter`. 2. `EmbeddingDelivery`,
`OutboxIndexer`. 3. `ImportReview`. 4. `ReleaseRegister`, `QuestionGraph`.
5. `LearnerProjection`, `CapabilityBindings`. 6. `SharedCalls`.
7. `CapabilityAliases`. 8. `VaultImport`. 9. `EditorialReleases`, which holds
both editorial releases. All of them with proofs of every invariant and action
property.

Next: more of the conditions under which the statements in the table of
disagreements hold (a stage that is released while it is decided on, a writer
without rollbacks between its reads); and the fusion of the two result lists of
search, one SQL statement, as a function against a reference definition over
bounded inputs.

The set of runs stays small enough to be rechecked on every change: a new
module's run takes the place of a violation run, whose trace is then in the
table above.

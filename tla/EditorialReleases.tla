-------------------------- MODULE EditorialReleases --------------------------
(***************************************************************************)
(* The two releases an editor approves over the published questions:       *)
(* placements in topics (store/graph.go, cmd/qb-graph-release) and the     *)
(* curriculum mapping (store/curriculum_mapping.go, internal/mapping,      *)
(* cmd/qb-map-release).                                                    *)
(*                                                                         *)
(* Both read what is published, check it, and only then open the           *)
(* transaction that writes.  It is READ COMMITTED: each of its statements  *)
(* sees what was committed when it started, and waits for the rows that    *)
(* another open transaction wrote or locked.  Questions are published,     *)
(* moved and archived all the while by the canonical writer.               *)
(***************************************************************************)
EXTENDS Integers, FiniteSets

CONSTANTS
    Sessions,       \* concurrent commands
    Questions,      \* numbered in the order of their stable keys
    Revisions,
    QuestionOf,     \* the question of a revision
    TopicOf,        \* the source topic of a revision, or NoTopic
    NoTopic,
    NoRevision,     \* the question is not published
    Manifests,      \* editorial files: sets of entries [q, rev, value]
    Unmapped,       \* the value of a row without curriculum keys
    NoRow,          \* a revision without a mapping row
    MaxMoves,       \* bound on changes by the canonical writer
    MaxCommands     \* bound on commands

Values == {e.value : e \in UNION Manifests} \cup {Unmapped}

ASSUME ConstantsAssumption ==
    /\ Questions \subseteq Int /\ IsFiniteSet(Questions)
    /\ NoRevision \notin Revisions
    /\ QuestionOf \in [Revisions -> Questions] /\ NoRow \notin Values
    /\ \A manifest \in Manifests :
          /\ manifest \subseteq [q : Questions, rev : Revisions, value : Values]
          /\ \A e, f \in manifest : e.q = f.q => e = f

VARIABLES
    current,    \* the current revision of a published question
    decision,   \* placement_decision of a revision and its source topic
    topics,     \* question_topic: pairs of a question and a topic
    mapping,    \* question_curriculum_mapping, by revision
    audits,     \* audit_event of releases: how often each id was written
    outbox,     \* idempotency keys of placement releases
    placing,    \* the placement release of a session
    writing,    \* the mapping release of a session
    last,       \* history: entries of the last committed mapping release
    slipped,    \* history: published while topics were being materialised
    moves, commands

data == <<current, decision, topics, mapping, audits, outbox>>
history == <<last, slipped>>
vars == <<data, history, placing, writing, moves, commands>>

NotPlacing == [step |-> "idle", release |-> [q \in Questions |-> NoRevision],
               published |-> 0, placements |-> {}, eligible |-> {},
               inserted |-> {}, accepts |-> {}, audit |-> FALSE]
NotWriting == [step |-> "idle", entries |-> {}, done |-> {}, locked |-> {},
               writes |-> {}, audit |-> FALSE]

Placing(s, step) == placing[s].step = step
Writing(s, step) == writing[s].step = step
Idle(s) == Placing(s, "idle") /\ Writing(s, "idle")
Others(s) == Sessions \ {s}

Published == {q \in Questions : current[q] # NoRevision}
Current == {current[q] : q \in Published}

-----------------------------------------------------------------------------
(* upsertCard stores a revision, moves the pointer and proposes the source *)
(* topic in one transaction; a publication of an earlier revision finds    *)
(* its placement as it was decided.                                        *)
PublishRevision(r) ==
    /\ moves < MaxMoves /\ current[QuestionOf[r]] # r
    /\ current' = [current EXCEPT ![QuestionOf[r]] = r]
    /\ decision' = [decision EXCEPT ![r] = IF @ = "none" /\ TopicOf[r] # NoTopic
                                           THEN "proposed" ELSE @]
    /\ slipped' = IF \E s \in Sessions : placing[s].step \in {"materialising", "materialised"}
                  THEN slipped \cup {r} ELSE slipped
    /\ moves' = moves + 1
    /\ UNCHANGED <<topics, mapping, audits, outbox, last, placing, writing, commands>>

ArchiveQuestion(q) ==
    /\ moves < MaxMoves /\ q \in Published
    /\ current' = [current EXCEPT ![q] = NoRevision]
    /\ moves' = moves + 1
    /\ UNCHANGED <<decision, topics, mapping, audits, outbox, history, placing, writing, commands>>

-----------------------------------------------------------------------------
(* Release reads the fingerprint of what is published, then counts it.     *)
StartPlacement(s) ==
    /\ Idle(s) /\ commands < MaxCommands
    /\ placing' = [placing EXCEPT ![s].step = "fingerprinted", ![s].release = current]
    /\ commands' = commands + 1
    /\ UNCHANGED <<data, history, writing, moves>>

CountPublished(s) ==
    /\ Placing(s, "fingerprinted")
    /\ placing' = [placing EXCEPT ![s].step = "counted",
                                  ![s].published = Cardinality(Published)]
    /\ UNCHANGED <<data, history, writing, moves, commands>>

TopicRow(r) == <<QuestionOf[r], TopicOf[r]>>

(* Every published question needs one placement that is not rejected, and  *)
(* as many must be inspected as were counted.  A command that is blocked   *)
(* or a dry run ends here.                                                 *)
InspectPlacements(s) ==
    /\ Placing(s, "counted")
    /\ \A r \in Current : decision[r] \in {"proposed", "accepted"}
    /\ Cardinality(Published) = placing[s].published
    /\ placing' = [placing EXCEPT ![s].step = "inspected",
                                  ![s].placements = {TopicRow(r) : r \in Current}]
    /\ UNCHANGED <<data, history, writing, moves, commands>>

(* The id of a release is the hash of these two.                           *)
ReleaseId(s) == <<placing[s].release, placing[s].placements>>

EligibleTopics == {TopicRow(r) : r \in {x \in Current : decision[x] # "none"}}

(* The insert of the topics of what is published now, whatever was         *)
(* inspected; it waits for a row that another transaction inserts.         *)
StartMaterialize(s) ==
    /\ Placing(s, "inspected")
    /\ placing' = [placing EXCEPT ![s].step = "materialising", ![s].eligible = EligibleTopics]
    /\ UNCHANGED <<data, history, writing, moves, commands>>

MaterializeTopics(s) ==
    /\ Placing(s, "materialising")
    /\ \A t \in Others(s) : placing[t].inserted \cap placing[s].eligible = {}
    /\ placing' = [placing EXCEPT ![s].step = "materialised",
                                  ![s].inserted = placing[s].eligible \ topics]
    /\ UNCHANGED <<data, history, writing, moves, commands>>

(* Faulty: every placement that is still proposed, current or not.         *)
AllProposed(s) == {r \in Revisions : decision[r] = "proposed"}

ToAccept(s) == {r \in Current : decision[r] = "proposed"}

AcceptPlacements(s) ==
    /\ Placing(s, "materialised")
    /\ \A t \in Others(s) : placing[t].accepts \cap ToAccept(s) = {}
    /\ placing' = [placing EXCEPT ![s].step = "accepted", ![s].accepts = ToAccept(s)]
    /\ UNCHANGED <<data, history, writing, moves, commands>>

(* The audit row is inserted where none with this id exists.               *)
AuditPlacements(s) ==
    /\ Placing(s, "accepted")
    /\ placing' = [placing EXCEPT
          ![s].step = "announcing",
          ![s].audit = <<"placement", ReleaseId(s)>> \notin DOMAIN audits]
    /\ UNCHANGED <<data, history, writing, moves, commands>>

CountAudit(key) == [k \in DOMAIN audits \cup {key} |->
                       (IF k \in DOMAIN audits THEN audits[k] ELSE 0) + IF k = key THEN 1 ELSE 0]

(* The outbox row, once per id, and the commit.                            *)
CommitPlacements(s) ==
    /\ Placing(s, "announcing")
    /\ topics' = topics \cup placing[s].inserted
    /\ decision' = [r \in Revisions |-> IF r \in placing[s].accepts THEN "accepted"
                                        ELSE decision[r]]
    /\ audits' = IF placing[s].audit THEN CountAudit(<<"placement", ReleaseId(s)>>) ELSE audits
    /\ outbox' = outbox \cup {ReleaseId(s)}
    /\ placing' = [placing EXCEPT ![s] = NotPlacing]
    /\ UNCHANGED <<current, mapping, history, writing, moves, commands>>

-----------------------------------------------------------------------------
(* A row for every published question, without curriculum keys.            *)
UnmappedCurrent == {[q |-> q, rev |-> current[q], value |-> Unmapped] : q \in Published}

(* A manifest covers the published questions, no others, and pins their    *)
(* current revisions.                                                      *)
Complete(manifest) == {<<e.q, e.rev>> : e \in manifest} = {<<q, current[q]>> : q \in Published}

StartMapping(s) ==
    /\ Idle(s) /\ commands < MaxCommands
    /\ \E entries \in {m \in Manifests : Complete(m)} \cup {UnmappedCurrent} :
          writing' = [writing EXCEPT ![s].step = "writing", ![s].entries = entries]
    /\ commands' = commands + 1
    /\ UNCHANGED <<data, history, placing, moves>>

Remaining(s) == writing[s].entries \ writing[s].done

(* Faulty: the rows are written in the order of the file.                  *)
IsRemaining(s, e) == e \in Remaining(s)

(* Normalize sorts the entries by their stable keys.                       *)
IsNextEntry(s, e) == e \in Remaining(s) /\ \A f \in Remaining(s) : e.q <= f.q

(* Faulty: a row that is as it should be is read and not locked.           *)
LockChanged(e) == IF mapping[e.rev] = e.value THEN {} ELSE {e.rev}

(* The conflict locks the row also when the update then changes nothing.   *)
LockRow(e) == {e.rev}

(* Faulty: a row that is as it should be is not waited for.                *)
WaitForChange(s, e) ==
    mapping[e.rev] # e.value => \A t \in Others(s) : e.rev \notin writing[t].locked

RowFree(s, e) == \A t \in Others(s) : e.rev \notin writing[t].locked

UpsertMapping(s) ==
    /\ Writing(s, "writing")
    /\ \E e \in writing[s].entries :
          /\ IsNextEntry(s, e) /\ RowFree(s, e)
          /\ writing' = [writing EXCEPT
                ![s].done = @ \cup {e},
                ![s].locked = @ \cup LockRow(e),
                ![s].writes = IF mapping[e.rev] = e.value THEN @ ELSE @ \cup {e}]
    /\ UNCHANGED <<data, history, placing, moves, commands>>

AuditMapping(s) ==
    /\ Writing(s, "writing") /\ Remaining(s) = {}
    /\ writing' = [writing EXCEPT
          ![s].step = "audited",
          ![s].audit = <<"mapping", writing[s].entries>> \notin DOMAIN audits]
    /\ UNCHANGED <<data, history, placing, moves, commands>>

CommitMapping(s) ==
    /\ Writing(s, "audited")
    /\ mapping' = [r \in Revisions |-> IF \E e \in writing[s].writes : e.rev = r
                                       THEN (CHOOSE e \in writing[s].writes : e.rev = r).value
                                       ELSE mapping[r]]
    /\ audits' = IF writing[s].audit THEN CountAudit(<<"mapping", writing[s].entries>>) ELSE audits
    /\ last' = writing[s].entries
    /\ writing' = [writing EXCEPT ![s] = NotWriting]
    /\ UNCHANGED <<current, decision, topics, outbox, slipped, placing, moves, commands>>

-----------------------------------------------------------------------------
(* A dry run, a blocked report, a failed statement or a dead command.      *)
Stop(s) ==
    /\ ~Idle(s)
    /\ placing' = [placing EXCEPT ![s] = NotPlacing]
    /\ writing' = [writing EXCEPT ![s] = NotWriting]
    /\ UNCHANGED <<data, history, moves, commands>>

Init ==
    /\ \E initial \in [Questions -> Revisions \cup {NoRevision}] :
          /\ \A q \in Questions : initial[q] # NoRevision => QuestionOf[initial[q]] = q
          /\ current = initial
    /\ decision = [r \in Revisions |-> IF r \in Current /\ TopicOf[r] # NoTopic
                                       THEN "proposed" ELSE "none"]
    /\ topics = {} /\ mapping = [r \in Revisions |-> NoRow]
    /\ audits = <<>> /\ outbox = {}
    /\ placing = [s \in Sessions |-> NotPlacing] /\ writing = [s \in Sessions |-> NotWriting]
    /\ last = {} /\ slipped = {} /\ moves = 0 /\ commands = 0

Next ==
    \/ \E r \in Revisions : PublishRevision(r)
    \/ \E q \in Questions : ArchiveQuestion(q)
    \/ \E s \in Sessions :
          \/ StartPlacement(s) \/ CountPublished(s) \/ InspectPlacements(s)
          \/ StartMaterialize(s) \/ MaterializeTopics(s) \/ AcceptPlacements(s)
          \/ AuditPlacements(s) \/ CommitPlacements(s)
          \/ StartMapping(s) \/ UpsertMapping(s) \/ AuditMapping(s) \/ CommitMapping(s)
          \/ Stop(s)

Spec == Init /\ [][Next]_vars

-----------------------------------------------------------------------------
MappingEntry == [q : Questions, rev : Revisions, value : Values]
Topic == {TopicRow(r) : r \in Revisions}
PlacementRelease ==
    [step : {"idle", "fingerprinted", "counted", "inspected", "materialising",
             "materialised", "accepted", "announcing"},
     release : [Questions -> Revisions \cup {NoRevision}], published : Nat,
     placements : SUBSET Topic, eligible : SUBSET Topic, inserted : SUBSET Topic,
     accepts : SUBSET Revisions, audit : BOOLEAN]
MappingRelease ==
    [step : {"idle", "writing", "audited"}, entries : SUBSET MappingEntry, done : SUBSET MappingEntry,
     locked : SUBSET Revisions, writes : SUBSET MappingEntry, audit : BOOLEAN]

(* Shapes, and that no row is held by two transactions.                    *)
TypeOK ==
    /\ current \in [Questions -> Revisions \cup {NoRevision}]
    /\ \A q \in Published : QuestionOf[current[q]] = q
    /\ decision \in [Revisions -> {"none", "proposed", "accepted"}]
    /\ topics \subseteq Topic
    /\ mapping \in [Revisions -> Values \cup {NoRow}]
    /\ \A k \in DOMAIN audits : audits[k] \in Nat \ {0}
    /\ placing \in [Sessions -> PlacementRelease]
    /\ writing \in [Sessions -> MappingRelease]
    /\ last \subseteq MappingEntry /\ slipped \subseteq Revisions
    /\ \A s, t \in Sessions : s # t =>
          /\ writing[s].locked \cap writing[t].locked = {}
          /\ placing[s].inserted \cap placing[t].inserted = {}
          /\ placing[s].accepts \cap placing[t].accepts = {}

(* Mapping releases never mix: what the last one said stands in all rows   *)
(* it covers, those it found unchanged included, and a release id that     *)
(* covers anything is audited once although no key of the table says so.   *)
ReleasesAreWhole ==
    /\ \A e \in last : mapping[e.rev] = e.value
    /\ \A k \in DOMAIN audits : k[1] = "mapping" /\ k[2] # {} => audits[k] = 1

WaitsFor(s, t) == /\ Writing(s, "writing") /\ s # t
                  /\ \E e \in writing[s].entries :
                        IsNextEntry(s, e) /\ e.rev \in writing[t].locked

(* Mapping releases over the same or over different revisions of the same  *)
(* questions never wait for each other in a circle.                        *)
NeverDeadlock ==
    \A circle \in (SUBSET Sessions) \ {{}} :
        \E s \in circle : \A t \in circle : ~WaitsFor(s, t)

(* An accepted placement is materialised, unless its revision was          *)
(* published while a release was materialising topics.                     *)
AcceptedIsMaterialised ==
    \A r \in Revisions : decision[r] = "accepted" =>
        r \in slipped \/ TopicRow(r) \in topics

-----------------------------------------------------------------------------
(* Statements of the repository's documents that the code does not keep;   *)
(* the README has their traces.                                            *)

(* The graph release never accepts a placement it did not materialise.     *)
AcceptedHasTopic ==
    \A r \in Revisions : decision[r] = "accepted" => TopicRow(r) \in topics

(* One audit event per graph release id.                                   *)
PlacementAuditedOnce ==
    \A k \in DOMAIN audits : k[1] = "placement" /\ k[2][2] # {} => audits[k] = 1

(* What a release materialises is announced under an id of its own.        *)
TopicsAnnounced ==
    [][topics' # topics => outbox' # outbox]_vars

(* A mapping release that changes rows is audited.                         *)
MappingChangesAudited ==
    [][mapping' # mapping => audits' # audits]_vars
=============================================================================

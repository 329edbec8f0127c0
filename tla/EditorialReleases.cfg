\* Two commands at a time over two questions that move twice.
CONSTANTS
    r1 = r1
    r1b = r1b
    r2 = r2
    r2b = r2b
    t1 = t1
    t2 = t2
    v1 = v1
    v2 = v2
    NoTopic = NoTopic
    NoRevision = NoRevision
    Unmapped = Unmapped
    NoRow = NoRow
    Sessions = {s1, s2}
    Questions = {1, 2}
    Revisions = {r1, r1b, r2, r2b}
    QuestionOf <- MCQuestionOf
    TopicOf <- MCTopicOf
    Manifests <- MCManifests
    MaxMoves = 2
    MaxCommands = 3
SPECIFICATION Spec
SYMMETRY Symmetry
INVARIANTS
    TypeOK
    ReleasesAreWhole
    NeverDeadlock
    AcceptedIsMaterialised
\* Commands and moves are bounded.
CHECK_DEADLOCK FALSE

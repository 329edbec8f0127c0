\* Two runs over two files, and one change by somebody else.
CONSTANTS
    q1 = q1
    h1 = h1
    h2 = h2
    Runs = {a, b}
    Files = {1, 2}
    Canonical = {1, 2}
    Questions = {q1}
    Hashes = {h1, h2}
    Cards <- OneQuestion
    NoFile = NoFile
    Broken = Broken
    CmsRef = CmsRef
    NoRef = NoRef
    NoRev = NoRev
    MaxOthers = 1
SPECIFICATION Spec
SYMMETRY Symmetry
INVARIANTS
    TypeOK
    RecordedIsStored
    LastFileWins
    MissingAreArchived
PROPERTY ArchivesOnlyUnlisted
\* With both runs over and the changes made nothing is left to do.
CHECK_DEADLOCK FALSE

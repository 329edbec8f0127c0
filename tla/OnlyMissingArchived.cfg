\* One card file that moves between two runs.
CONSTANTS
    q1 = q1
    h1 = h1
    h2 = h2
    Runs = {a, b}
    Files = {1, 2}
    Canonical = {1, 2}
    Questions = {q1}
    Hashes = {h1, h2}
    Cards <- OneQuestion
    NoFile = NoFile
    Broken = Broken
    CmsRef = CmsRef
    NoRef = NoRef
    NoRev = NoRev
    MaxOthers = 1
SPECIFICATION Spec
PROPERTY OnlyMissingArchived
CHECK_DEADLOCK FALSE

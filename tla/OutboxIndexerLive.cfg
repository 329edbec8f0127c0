\* One worker and two faults, a rollback and a text that changes once more.
CONSTANTS
    r1 = r1
    r2 = r2
    pub = pub
    pub2 = pub2
    roll = roll
    trans = trans
    fix = fix
    graph = graph
    Workers = {w1}
    Revisions = {r1}
    Events = {pub, roll, fix}
    KindOf <- MCKindOf
    RevOf <- MCRevOf
    NoRev = NoRev
    NoEvent = NoEvent
    BatchSize = 2
    MaxText = 2
    MaxFaults = 2
SPECIFICATION FairSpec
PROPERTIES
    EveryEventFinishes
\* With every event published nothing is left to do.
CHECK_DEADLOCK FALSE

\* Two workers over three events of one revision, written in any order.
CONSTANTS
    r1 = r1
    r2 = r2
    pub = pub
    pub2 = pub2
    roll = roll
    trans = trans
    fix = fix
    graph = graph
    Workers = {w1, w2}
    Revisions = {r1}
    Events = {pub, trans, graph}
    KindOf <- MCKindOf
    RevOf <- MCRevOf
    NoRev = NoRev
    NoEvent = NoEvent
    BatchSize = 2
    MaxText = 1
    MaxFaults = 1
SPECIFICATION Spec
PROPERTY DeliversSafely
SYMMETRY Symmetry
INVARIANTS
    TypeOK
    LeaseExclusive
\* With every event published nothing is left to do.
CHECK_DEADLOCK FALSE

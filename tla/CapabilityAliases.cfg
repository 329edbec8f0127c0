\* Two sessions over two workspaces and six proposals.
CONSTANTS
    w1 = w1
    w2 = w2
    a = a
    b = b
    c = c
    old = old
    name = name
    None = None
    Sessions = {s1, s2}
    Keys = {a, b, c, old, name}
    Capabilities = {a, b, c, old}
    Active = {a, b, c}
    Proposals <- MCProposals
    Seed <- MCSeed
SPECIFICATION AliasSpec
SYMMETRY Symmetry
INVARIANTS
    AliasTypeOK
    AcceptedIsResolved
    FactsWereDecided
    AcyclicUnlessOverlapped
PROPERTY HistoryStands

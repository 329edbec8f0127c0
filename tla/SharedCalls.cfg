\* Two callers, a cache of one entry for two queries and for two reports.
CONSTANTS
    Callers = {c1, c2}
    Queries = {q1, q2}
    Scopes = {s1, s2}
    Capacity = 1
    MaxVersion = 1
    Nobody = Nobody
    NoEntry = NoEntry
SPECIFICATION FairSpec
INVARIANTS
    TypeOK
    CallsAccounted
    Bounded
    NeverGoesBack
PROPERTY EveryCallerReturns

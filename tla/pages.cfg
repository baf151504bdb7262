\* Two calls of any kind on two replicas, over a Redis that may hold pages already;
\* page limits 1 and 2 (the sweep's), and one expiration, failure or change of owner.
CONSTANTS
    Replicas = {r1, r2}
    Urls = {1, 2}
    Limits = {1, 2}
    SweepLimit = 2
    Calls = {p1, p2}
    MaxWrites = 3
    MaxCalls = 2
    MaxEvents = 1
    Redis = Redis
    Miss = Miss
    Empty = Empty
SPECIFICATION Spec
SYMMETRY Symmetry
INVARIANTS TypeOK StalePageExplained CachedSweepComplete
\* The calls of an instance are bounded.
CHECK_DEADLOCK FALSE

\* Two replicas, two overlapping writes, two writes after the start, every failure.
CONSTANTS
    Replicas = {r1, r2}
    Writers = {w1, w2}
    MaxWrites = 3
    CanFail = TRUE
    Redis = Redis
    Miss = Miss
    Empty = Empty
SPECIFICATION FairSpec
INVARIANTS TypeOK StaleRecordExplained
PROPERTIES EventuallyFresh

\* One replica, three calls one after the other on empty caches; nothing fails or expires.
CONSTANTS
    Replicas = {r1}
    Urls = {1, 2}
    Limits = {1, 2}
    SweepLimit = 2
    Calls = {p1}
    MaxWrites = 2
    MaxCalls = 3
    MaxEvents = 0
    Redis = Redis
    Miss = Miss
    Empty = Empty
SPECIFICATION ColdSpec
INVARIANT CreatedIsListed
CHECK_DEADLOCK FALSE

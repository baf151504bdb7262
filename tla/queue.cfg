\* Two replicas, batches of two, two interests, two faults of any kind.
CONSTANTS
    Replicas = {r1, r2}
    Interests = {i1, i2}
    Followed = {i1}
    BatchSize = 2
    MaxFaults = 2
SPECIFICATION FairSpec
INVARIANTS TypeOK NotLost LastSweepSucceeded
PROPERTIES EventuallySwept EventuallyAcknowledged
\* Nothing happens any more once every interest was deleted and every queue is empty.
CHECK_DEADLOCK FALSE

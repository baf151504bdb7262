\* What the declaration of ErrConflict says of it.
CONSTANTS
    Keys = {k1}
    Clients = {c1, c2}
    Owners = {o1}
    Legacy = Legacy
    Free = Free
    NoReq = NoReq
    MaxErrs = 0
SPECIFICATION FairSpec
INVARIANTS ConflictMeansExists

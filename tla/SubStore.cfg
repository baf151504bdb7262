\* Two callers and one key: every interleaving of two calls on one document.
CONSTANTS
    Keys = {k1}
    Clients = {c1, c2}
    Owners = {o1, o2}
    Legacy = Legacy
    Free = Free
    NoReq = NoReq
    MaxErrs = 1
SPECIFICATION FairSpec
INVARIANTS TypeOK DuplicateExplained ConflictExplained InternalExplained
PROPERTIES ImplementsRegistry SomeCallIsAnswered

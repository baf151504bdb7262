\* Two calls at a time, two users, two subscriptions, one connection.  Delete takes the
\* steps of unsubscribe, the counts and the other lists those of read and ListByInterest.
CONSTANTS
    Clients = {c1, c2}
    Followed = c1
    Users = {u1, u2}
    Callers = {u1}
    Keys = {1, 2}
    None = None
    Limits = {0, 1}
    Width = 8
    MaxConns = 1
    HttpOps = {"subscribe", "unsubscribe", "read", "count"}
    GrpcOps = {"Update", "ListByInterest", "DeleteExtra", "ChangeOwner"}
SPECIFICATION FairSpec
INVARIANTS TypeOK ConnsConserved AnswersTell TrimLeavesLimit
PROPERTIES AnswersCome

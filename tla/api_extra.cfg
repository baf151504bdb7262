\* Two trims and one reader, nothing else: a user with two subscriptions too many.
CONSTANTS
    Clients = {c1, c2}
    Followed = c1
    Users = {u1}
    Callers = {u1}
    Keys = {1, 2, 3, 4}
    None = None
    Limits = {1, 2}
    Width = 8
    MaxConns = 1
    HttpOps = {}
    GrpcOps = {"ListByInterest", "DeleteExtra"}
SPECIFICATION Spec
INVARIANT AllInOnePage

\* Nothing fails and owners do not change, but permits may be granted to a group.
CONSTANTS
    o1 = o1
    o2 = o2
    group = group
    Interests = {1}
    Urls = {1, 2}
    Clients = {c1, c2}
    Owners = {o1, o2}
    Legacy = Legacy
    None = None
    NoAccount = NoAccount
    Accounts = {o1, o2, group, Legacy}
    Charged <- ByUserOrGroup
    LegacyKeys = {}
    Moves = {}
    Limit = 1
    PageSizes = {1, 2}
    TrimLimits = {1}
    CanFail = FALSE
    MaxDrift = 1
SPECIFICATION Spec
PROPERTIES ReleaseNamesPayer

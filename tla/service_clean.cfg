\* Nothing fails, permits are granted per user, owners do not change; two pages for a
\* sweep to go through, and callers that create behind and before it.
CONSTANTS
    o1 = o1
    o2 = o2
    group = group
    Interests = {1}
    Urls = {1, 2, 3}
    Clients = {c1, c2}
    Owners = {o1, o2}
    Legacy = Legacy
    None = None
    NoAccount = NoAccount
    Accounts = {o1, o2, Legacy}
    Charged <- ByUser
    LegacyKeys = {}
    Moves = {}
    Limit = 2
    PageSizes = {1, 2}
    TrimLimits = {1}
    CanFail = FALSE
    MaxDrift = 0
SPECIFICATION FairSpec
INVARIANTS LedgerExact SweepComplete
PROPERTIES SweepDescends CallsEnd

\* Lost replies, failed releases, crashes, group permits, a legacy record and an
\* ownership change, all at once.
CONSTANTS
    o1 = o1
    o2 = o2
    group = group
    Interests = {1}
    Urls = {1, 2}
    Clients = {c1, c2}
    Owners = {o1, o2}
    Legacy = Legacy
    None = None
    NoAccount = NoAccount
    Accounts = {o1, o2, group, Legacy}
    Charged <- ByUserOrGroup
    LegacyKeys <- OneLegacyKey
    Moves <- OneMove
    Limit = 1
    PageSizes = {1, 2}
    TrimLimits = {1}
    CanFail = TRUE
    MaxDrift = 1
SPECIFICATION Spec
SYMMETRY CallerSymmetry
INVARIANTS TypeOK Conservation QuotaKept SweepComplete ChangesTold

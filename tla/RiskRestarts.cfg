SPECIFICATION Spec
CONSTANTS
    Requests = {}
    NoRequest = "none"
    Logins = {acct, other}
    NoLogin = "unknown"
    EnvLimits = FALSE
    Accounts <- MCAccountsLost
    Limits <- MCOneLimit
    ConfigLimits <- MCConfigLimits
    TicksPerDay = 1
    FreshFor = 1
    RedisTtl = 1
    MaxNow = 1
    Summary = {TRUE, FALSE}
    Outages = TRUE
    Redeploys = TRUE
SYMMETRY MCSymmetry
INVARIANTS
    Durable
PROPERTIES
    RestartKeepsRiskState

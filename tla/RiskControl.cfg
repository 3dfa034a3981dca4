SPECIFICATION FairSpec
CONSTANTS
    Requests = {"r1", "r2"}
    NoRequest = "none"
    Logins = {"acct"}
    NoLogin = "unknown"
    EnvLimits = FALSE
    Accounts <- MCAccounts
    Limits <- MCOneLimit
    ConfigLimits <- MCConfigLimits
    TicksPerDay = 2
    FreshFor = 2
    RedisTtl = 2
    MaxNow = 4
    Summary = {TRUE}
    Outages = FALSE
    Redeploys = FALSE
INVARIANTS
    BaselineConsistent
    LimitsEnforced
PROPERTIES
    HaltIsSticky
    PeakFallsOnlyOnReset
    AppliedMeansInForce
    ForcedResumeIsRepaused

SPECIFICATION Spec
CONSTANTS
    Requests = {}
    NoRequest = "none"
    Logins = {"acct"}
    NoLogin = "unknown"
    EnvLimits = FALSE
    Accounts <- MCAccountsTwo
    Limits <- MCOneLimit
    ConfigLimits <- MCConfigLimits
    TicksPerDay = 1
    FreshFor = 1
    RedisTtl = 1
    MaxNow = 0
    Summary = {TRUE}
    Outages = TRUE
    Redeploys = FALSE
PROPERTIES
    HaltSurvivesRestart

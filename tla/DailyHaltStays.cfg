SPECIFICATION UnattendedSpec
CONSTANTS
    Requests = {}
    NoRequest = "none"
    Logins = {"acct"}
    NoLogin = "unknown"
    EnvLimits = FALSE
    Accounts <- MCAccounts
    Limits <- MCOneLimit
    ConfigLimits <- MCConfigLimits
    TicksPerDay = 1
    FreshFor = 1
    RedisTtl = 1
    MaxNow = 1
    Summary = {TRUE}
    Outages = FALSE
    Redeploys = FALSE
PROPERTIES
    DailyHaltLiftedNextDay
CHECK_DEADLOCK FALSE

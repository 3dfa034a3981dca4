SPECIFICATION Spec
CONSTANTS
    Nothing = Nothing
    Bad = Bad
    Pa <- MCPa
    HighVolFilter = FALSE
    RangeMinRR = 15
    PaFloor = 16
    TrendFloor = 55
    PaAlone = TRUE
    TrendAlone = TRUE
    MinConfidence = 4000
    HardConfidence = 3000
    Atr = 10
    BaseStop = 125
    QuietStop = 50
    MinStop = 80
    StopBuffer = 20
    FixedReward = 20
    Scale = 4
    OneLot = 100
    Plain = {"min", "step"}
    FixedTick = 1
    Attempts = 2
    Currency = "USD"
    Gold = TRUE
    Windows <- MCWindows
    Facts <- MCFacts
    Circumstances <- MCCircumstances
    AdxMin = 12
    Symbol = "XAUUSD"
    Timeframe = "5m"
    RangeMinVotes = 2
    MaxRange = 1
    SessionLength = 2
    StaleAfter = 3
    Offset <- MCOffset
    DriftLimits <- MCDrift
    Spread = 1
    Moves <- MCMoves
    StopLevels <- MCStopLevels
    Answers <- MCAnswers
    Truth <- MCTruth
    MaxCandle = 3
    MaxLives = 2
    MaxEntries = 2
INVARIANTS
    OwnVolumesOnly
CHECK_DEADLOCK FALSE

SPECIFICATION BudgetSpec
CONSTANTS
    Nothing = Nothing
    Prices <- MCPrices
    Spread = 1
    Levels = {6}
    Envelope <- MCEnvelope
    RR = 20
    MinimumRR = 10
    Drift = 1
    StopLevels <- MCStopLevels
    Limits <- MCLimits
    Spec <- MCSpec
    Gaps = {1, 2}
    MinStep = 1
    MaxOrders = 2
    MaxLate = 1
    Lagging = TRUE
INVARIANTS
    TypeOK
    WithinBudget
PROPERTIES
    StopGoesBackLate

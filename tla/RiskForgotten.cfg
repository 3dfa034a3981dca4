SPECIFICATION Spec
CONSTANTS
    Tickets = {"t1"}
    Risk = 2
    Prices = {1, 3}
    Distances = {1, 2}
    MinStep = 1
    NoBase = NoBase
    NoStop = NoStop
    Worlds <- Restarted
INVARIANTS
    RiskSurvivesRestart

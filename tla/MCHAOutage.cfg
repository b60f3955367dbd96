CONSTANTS
    a = a
    b = b
    Nodes <- TwoNodes
    Priority <- LowerWins
    Name <- NameOrder
    Mode = "active-passive"
    HasWitness = TRUE
    Punctual = {"heartbeat", "watchdog"}
    Timeout = 1
    WitnessHold = 2
    RefreshTime = 1
    StepDownTime = 2
    MaxCuts = 1
    MaxCrashes = 0
    MaxManual = 1
    MaxWitnessErrors = 0
SPECIFICATION FairSpec
PROPERTIES Converges

CONSTANTS
    a = a
    b = b
    Nodes <- TwoNodes
    Priority <- SamePriority
    Name <- NameOrder
    Mode = "active-passive"
    HasWitness = FALSE
    Punctual = {"heartbeat", "watchdog"}
    Timeout = 1
    WitnessHold = 2
    RefreshTime = 1
    StepDownTime = 2
    MaxCuts = 1
    MaxCrashes = 1
    MaxManual = 2
    MaxWitnessErrors = 0
SPECIFICATION FairSpec
PROPERTIES Converges Takeover

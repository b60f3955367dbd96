CONSTANTS
    IPs = {1, 2}
    Scope = {1, 2}
    MACs = {m1, m2}
    Writers = {"server", "sweeper", "api"}
    Leaving = {"release"}
    LeaseTime = 1
    Quarantine = 1
    DeclineQuarantine = 1
    MaxFaults = 0
    MaxTime = 3
    Foci = {"sweep", "api"}
    ApiTime = 3
SPECIFICATION MCSpec
SYMMETRY Symmetry
INVARIANTS
    TypeOK HoldBacked IndexExact
PROPERTIES QuarantineHonoured
CHECK_DEADLOCK FALSE

CONSTANTS
    IPs = {1}
    Scope = {1}
    MACs = {m1, m2}
    Writers = {"server", "sweeper"}
    Leaving = {"decline"}
    LeaseTime = 1
    Quarantine = 1
    DeclineQuarantine = 1
    MaxFaults = 3
    MaxTime = 3
    Foci = {"all"}
    ApiTime = 0
SPECIFICATION MCSpec
SYMMETRY Symmetry
INVARIANTS IndexCovers
PROPERTIES ImplementsLeaseService

CONSTANTS
    Keys = {k1}
    Vals = {v1}
    NoVal = NoVal
    MaxTxLen = 1
    MaxWal = 4
    MaxSequence = 0
    Snapshotters = {}
    Watchers = {}
    WatchCap = 1
    Foci = {"crash"}
SPECIFICATION MCSpec
INVARIANTS AckedAlwaysSurvives

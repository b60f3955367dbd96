CONSTANTS
    Keys = {k1, k2}
    Vals = {v1}
    NoVal = NoVal
    MaxTxLen = 2
    MaxWal = 5
    MaxSequence = 3
    Snapshotters = {s1, s2}
    Watchers = {w1, w2}
    WatchCap = 2
    Foci = {"crash", "watch", "restore"}
SYMMETRY Symmetric
SPECIFICATION MCSpec
INVARIANTS TypeOK AckedSurvives OpensUnlessDamaged WatcherGapFree
PROPERTIES ImplementsDurableStore

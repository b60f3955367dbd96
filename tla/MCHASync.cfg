CONSTANTS
    IPs = {ip1, ip2}
    Vals = {v1}
    Absent = Absent
    QueueCap = 1
    MaxSeq = 2
    MaxFaults = 1
SPECIFICATION MCSpec
INVARIANTS SyncTypeOK ReplicaCurrent
PROPERTIES EventuallyBaselined
CHECK_DEADLOCK FALSE

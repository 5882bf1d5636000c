SPECIFICATION FairSpec
CONSTANTS
    p1 = p1
    n1 = n1
    v1 = v1
    Absent = Absent
    Pods = {p1}
    Nodes = {n1}
    VPAs = {v1}
    NodeOf <- MCNodeOf
    Governs <- MCGoverns
    MaxChanges = 2
    MaxFaults = 1
INVARIANTS
    TypeOK
    StatusWakesUp
    ObservedWasRead
PROPERTIES
    StatusConverges
CHECK_DEADLOCK FALSE

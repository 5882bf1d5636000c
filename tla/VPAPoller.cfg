SPECIFICATION FairSpec
CONSTANTS
    p1 = p1
    p2 = p2
    n1 = n1
    n2 = n2
    v1 = v1
    v2 = v2
    a = a
    b = b
    Pods = {p1, p2}
    Nodes = {n1, n2}
    VPAs = {v1, v2}
    Namespaces = {a, b}
    NodeOf <- MCNodeOf
    Governs <- MCGoverns
    PodNamespace <- MCPodNamespace
    VPANamespace <- MCVPANamespace
    Capacity = 2
    DrainsPromptly = TRUE
    APIStates = {"served", "absent", "forbidden", "failing"}
    MaxChanges = 3
    MaxFaults = 1
INVARIANTS
    TypeOK
PROPERTIES
    ImplementsManagedView
CHECK_DEADLOCK FALSE

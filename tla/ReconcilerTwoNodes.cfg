SPECIFICATION Spec
CONSTANTS
    p1 = p1
    p2 = p2
    n1 = n1
    n2 = n2
    Absent = Absent
    Pods = {p1}
    Nodes = {n1, n2}
    Namespaces = {"team"}
    NamespaceOf <- OneNamespace
    Limits = {0, 1, 4}
    BirthLimits = {0}
    PodSpecs <- SmallOnly
    ResizeStates = {}
    NodeSpecs <- PlainNode
    NamespaceSpecs <- TeamOnly
    VPASets <- NoVPAs
    Configs <- LiveOnly
    DefaultConfig <- Defaults
    ComputeNode <- MCCompute
    BackoffPeriod = 1
    MaxDebounce = 1
    MaxPassTicks = 1
    MaxChanges = 3
    MaxFaults = 2
    FaultKinds = {"watch", "status", "forbidden"}
    ManualEdits = TRUE
    CacheCatchesUp = TRUE
SYMMETRY NodeSymmetry
INVARIANTS
    BackoffWakesUp
    SeriesFresh
CHECK_DEADLOCK FALSE

SPECIFICATION Spec
CONSTANTS
    p1 = p1
    p2 = p2
    n1 = n1
    n2 = n2
    Absent = Absent
    Pods = {p1}
    Nodes = {n1}
    Namespaces = {"team"}
    NamespaceOf <- OneNamespace
    Limits = {0, 1, 2, 3, 4}
    BirthLimits = {0}
    PodSpecs <- SmallOnly
    ResizeStates = {}
    NodeSpecs <- TwoSizes
    NamespaceSpecs <- TeamOnly
    VPASets <- NoVPAs
    Configs <- LiveOnly
    DefaultConfig <- Defaults
    ComputeNode <- MCCompute
    BackoffPeriod = 1
    MaxDebounce = 1
    MaxPassTicks = 1
    MaxChanges = 2
    MaxFaults = 1
    FaultKinds = {}
    ManualEdits = FALSE
    CacheCatchesUp = FALSE
INVARIANTS
    LimitsSettled
CHECK_DEADLOCK FALSE

SPECIFICATION Spec
CONSTANTS
    k1 = k1
    k2 = k2
    k3 = k3
    Keys = {k1, k2, k3}
    Inputs <- MCInputs
    Allocs = {16, 25}
    Configs <- MCConfigs
SYMMETRY KeySymmetry
INVARIANTS
    TypeOK
    TargetWithinBounds
    BurstBoundedBySlack
PROPERTIES
    BindRaisesNobody
    BackoffMovesNobody
    OnePatchSettles
CHECK_DEADLOCK FALSE

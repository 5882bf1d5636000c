SPECIFICATION Spec
CONSTANTS
    Absent = Absent
    InexactRatios <- MCInexactRatios
    PodShapes <- MCPodShapes
    Resizes <- MCResizes
    RangeSets <- MCRangeSets
    SettingSets <- MCSettingSets
    VPASets <- MCVPASets
    Bookings = {0, 150, 190}
    Allocatable = 200
    MaxChanges = 1
INVARIANTS
    TypeOK
    AppliedPatchSettles
    PatchIsValid
    RefusedOnlyWithoutRoom
    SeededIsManaged
    OneWriter
CHECK_DEADLOCK FALSE

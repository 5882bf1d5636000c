SPECIFICATION Spec
CONSTANTS
    Absent = Absent
    InexactRatios <- MCInexactRatios
    PodShapes <- MCPodShapes
    Resizes <- MCResizes
    RangeSets <- PerPodMax
    SettingSets <- LiveOnly
    VPASets <- MCVPASets
    Bookings = {0, 150, 190}
    Allocatable = 200
    MaxChanges = 0
INVARIANT CreationNotBlocked
CHECK_DEADLOCK FALSE

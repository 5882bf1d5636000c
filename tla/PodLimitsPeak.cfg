SPECIFICATION Spec
CONSTANTS
    Absent = Absent
    InexactRatios <- MCInexactRatios
    PodShapes <- PeakShapes
    Resizes <- MCResizes
    RangeSets <- PeakRanges
    SettingSets <- LiveOnly
    VPASets <- MCVPASets
    Bookings = {0, 150, 190}
    Allocatable = 200
    MaxChanges = 0
INVARIANT RefusedOnlyWithoutRoom
CHECK_DEADLOCK FALSE

SPECIFICATION FairSpec
CONSTANTS
    Wheels = {left, right}
    Distances <- MCDistances
    Speeds <- MCSpeeds
    MinI16 <- MCMinI16
    Scales <- MCScales
    MinDt = 1
    MaxDt = 2
    MaxElapsed = 3
    Spacing = 2
    Far = 9
    MaxQueue = 1
INVARIANTS TypeOK DriveAccurate ResetStops
PROPERTIES DriveEnds CommandsGetThrough
CHECK_DEADLOCK FALSE

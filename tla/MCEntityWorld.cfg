SPECIFICATION Spec
CONSTANTS
    Macs = {m1, m2}
    MaxId = 2
    Removals <- ReturnedIds
    DynamicLimit = 1
    KinematicLimit = 1
    RobotLimit = 2
SYMMETRY Symmetry
INVARIANTS WorldInv MapsAgree DynamicWithinLimit
CHECK_DEADLOCK FALSE

SPECIFICATION Spec
CONSTANTS
    Macs = {m1}
    MaxId = 2
    Removals <- ListedIds
    DynamicLimit = 1
    KinematicLimit = 1
    RobotLimit = 1
INVARIANTS RobotsWhole
CHECK_DEADLOCK FALSE

SPECIFICATION FairSpec
CONSTANTS
    Flows = {f1, f2}
    Sockets = {s1, s2}
    Rooms = {r1, r2}
    NoSocket = NoSocket
    NoRoom = NoRoom
    MaxDown = 3
INVARIANTS SessionInv HoldsOnlyCurrent
PROPERTIES ShowsRoom SwitchingLeaves FlowsEnd
CHECK_DEADLOCK FALSE

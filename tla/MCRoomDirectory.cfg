SPECIFICATION FairSpec
CONSTANTS
    Servers = {s1}
    RoomIds = {r1}
    Requests = {q1}
    NoRoom = NoRoom
    NoAddress = NoAddress
    MaxWire = 4
INVARIANT DirectoryInv
PROPERTIES
    LiveServerListed
    DeadServerForgotten
    RoomsCatchUp
CHECK_DEADLOCK TRUE

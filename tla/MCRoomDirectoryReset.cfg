SPECIFICATION Spec
CONSTANTS
    Servers = {s1, s2}
    RoomIds = {r1, r2}
    Requests = {q1}
    NoRoom = NoRoom
    NoAddress = NoAddress
    MaxWire = 2
PROPERTY ResetForgetsRooms
CHECK_DEADLOCK TRUE

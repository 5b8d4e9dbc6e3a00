SPECIFICATION FairSpec
CONSTANTS
    Objects = {o1}
    Clients = {c1}
    NoClient = NoClient
    MaxPlace = 2
    MaxQueue = 3
INVARIANTS StreamInv RemovedLeaveScreen
PROPERTIES ShowsThePast ClientsCatchUp

SPECIFICATION Spec
CHECK_DEADLOCK FALSE
CONSTANTS
    u1 = u1
    u2 = u2
    c1 = c1
    c2 = c2
    c3 = c3
    r1 = r1
    r2 = r2
    Users <- MCUsers
    Conns <- MCTwoConns
    UserOf <- MCUserOfTwo
    Robots <- MCTwoRobots
    Claimable <- MCRobots
    NoUser = NoUser
    NoConn = NoConn
    Inputs <- MCMixed
    Timeout = 1
    MaxRx = 1
PROPERTY ImplementsOwnership
INVARIANT RoomInv

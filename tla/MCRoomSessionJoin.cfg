SPECIFICATION Spec
CONSTANTS
    u1 = u1
    u2 = u2
    c1 = c1
    c2 = c2
    c3 = c3
    r1 = r1
    r2 = r2
    Users <- MCUsers
    Conns <- MCThreeConns
    UserOf <- MCUserOfThree
    Robots <- MCRobots
    Claimable <- MCRobots
    NoUser = NoUser
    NoConn = NoConn
    Inputs <- MCClaims
    Timeout = 1
    MaxRx = 1
INVARIANT JoinFindsItsEntry

--------------------------- MODULE MCRoomSession ---------------------------
(* A small room for TLC: the first user has two connections.               *)
EXTENDS RoomSession, TLC

CONSTANTS u1, u2, c1, c2, c3, r1, r2

MCUsers == {u1, u2}
MCTwoConns == {c1, c2}
MCThreeConns == {c1, c2, c3}
MCUserOfTwo == c1 :> u1 @@ c2 :> u2
MCUserOfThree == c1 :> u1 @@ c2 :> u1 @@ c3 :> u2
MCRobots == {r1}
MCClaims == [type : {"ClaimRobot", "UnclaimRobot"}, robot : MCRobots]
MCTwoRobots == {r1, r2}
\* Every message about the claimable robot, and a claim of the other one.
MCMixed ==
    {ResetAll, [type |-> "ClaimRobot", robot |-> r2]}
    \cup {m \in RobotMessages : m.robot = r1}
=============================================================================

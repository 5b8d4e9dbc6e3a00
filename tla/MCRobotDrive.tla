---------------------------- MODULE MCRobotDrive ----------------------------
(* An instance of RobotDrive for TLC.                                      *)
EXTENDS RobotDrive

MCDistances == {-1, 0, 2}
MCSpeeds == {-2, 0}
MCScales == {-1, 0, 2}
MCMinI16 == -2

=============================================================================

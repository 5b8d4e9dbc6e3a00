------------------------- MODULE MCRoomDirectory -------------------------
(* Instances of RoomDirectory for TLC.                                     *)
EXTENDS RoomDirectory

=============================================================================

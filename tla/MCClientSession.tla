--------------------------- MODULE MCClientSession ---------------------------
(* An instance of ClientSession for TLC: two flows that may overlap.       *)
EXTENDS ClientSession

=============================================================================

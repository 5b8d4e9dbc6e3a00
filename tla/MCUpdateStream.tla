-------------------------- MODULE MCUpdateStream --------------------------
(* An instance of UpdateStream for TLC: one object of any look, one client *)
(* that joins, is kicked or stays, and a queue in which an incremental     *)
(* state, a full one and a removal meet.                                   *)
EXTENDS UpdateStream

=============================================================================

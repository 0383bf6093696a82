-------------------------- MODULE MCDroppedCounter --------------------------
(* Instances of DroppedCounter for TLC; every constant is given in the .cfg. *)
EXTENDS DroppedCounter
=============================================================================

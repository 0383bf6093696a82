---------------------------- MODULE MCMembership ----------------------------
(* Instances of Membership for TLC; every constant is given in the .cfg.    *)
EXTENDS Membership
=============================================================================

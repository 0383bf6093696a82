------------------------------- MODULE MCPass -------------------------------
(* Instances of Pass for TLC; every constant is given in the .cfg.          *)
EXTENDS Pass
=============================================================================

------------------------------ MODULE MCInbox ------------------------------
(* Instances of Inbox for TLC.                                             *)
EXTENDS Inbox, TLC

(* Readers are interchangeable: no action and no safety property names one. *)
ReaderSymmetry == Permutations(Readers)
=============================================================================

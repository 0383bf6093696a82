----------------------------- MODULE MCPresence -----------------------------
(* Instances of Presence for TLC.                                          *)
EXTENDS Presence

(* Any session may have been the one that wrote a leftover temp file.       *)
Anyones == [s \in Sessions |-> Temps]
=============================================================================

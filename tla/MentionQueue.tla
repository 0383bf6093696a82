---------------------------- MODULE MentionQueue ----------------------------
(***************************************************************************)
(* What the client promises about a mention, with no files and no          *)
(* processes: it is at one place at a time, it moves only along the edges   *)
(* below, and it is finished only when somebody has been shown it          *)
(* (docs/SPEC.md 6: "at-least-once, never at-most-once").                   *)
(*                                                                         *)
(*   room  -> hand          BCT's cursor moved past it, a process holds it *)
(*   hand  -> queue | lost  it landed on disk, or its holder ended first   *)
(*   hand  -> done          a `read` printed it straight off the wire      *)
(*   queue -> out | dropped a reader claimed it, or the cap threw it away  *)
(*   out   -> queue | done  the orphan sweep returned it, or it was acked  *)
(***************************************************************************)
EXTENDS Naturals

CONSTANT Mentions   \* the replies BCT's chat-listen will ever give

VARIABLES
  where,            \* the place of each mention
  shown             \* the mentions printed to a session at least once

vars == <<where, shown>>

Places == {"room", "hand", "queue", "out", "done", "dropped", "lost"}

TypeOK == /\ where \in [Mentions -> Places]
          /\ shown \subseteq Mentions

Init == /\ where = [m \in Mentions |-> "room"]
        /\ shown = {}

Move(m, from, to) == /\ where[m] = from
                     /\ where' = [where EXCEPT ![m] = to]

Hear(m)    == Move(m, "room", "hand") /\ UNCHANGED shown
Land(m)    == Move(m, "hand", "queue") /\ UNCHANGED shown
Lose(m)    == Move(m, "hand", "lost") /\ UNCHANGED shown
Tell(m)    == Move(m, "hand", "done") /\ shown' = shown \cup {m}
Claim(m)   == Move(m, "queue", "out") /\ UNCHANGED shown
Drop(m)    == Move(m, "queue", "dropped") /\ UNCHANGED shown
Return(m)  == Move(m, "out", "queue") /\ UNCHANGED shown
Finish(m)  == Move(m, "out", "done") /\ m \in shown /\ UNCHANGED shown

(* A reader whose claim was swept away still prints what it has read.      *)
Show(m) == /\ where[m] \in {"queue", "out", "done", "dropped"}
           /\ shown' = shown \cup {m}
           /\ UNCHANGED where

Next == \E m \in Mentions :
          \/ Hear(m) \/ Land(m) \/ Lose(m) \/ Tell(m) \/ Claim(m)
          \/ Drop(m) \/ Return(m) \/ Finish(m) \/ Show(m)

Spec == Init /\ [][Next]_vars

(* What the edges add up to: done means shown.                             *)
DoneIsShown == \A m \in Mentions : where[m] = "done" => m \in shown
=============================================================================

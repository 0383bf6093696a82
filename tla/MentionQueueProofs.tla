------------------------- MODULE MentionQueueProofs -------------------------
(* What the edges of MentionQueue add up to, for every set of mentions.     *)
EXTENDS MentionQueue, TLAPS

LEMMA QueueStep == TypeOK /\ DoneIsShown /\ [Next]_vars => TypeOK' /\ DoneIsShown'
<1> SUFFICES ASSUME TypeOK, DoneIsShown, [Next]_vars
             PROVE  TypeOK' /\ DoneIsShown'
  OBVIOUS
<1> USE DEF TypeOK, DoneIsShown, Places
<1>1. ASSUME NEW m \in Mentions,
             Hear(m) \/ Land(m) \/ Lose(m) \/ Claim(m) \/ Drop(m) \/ Return(m)
      PROVE  TypeOK' /\ DoneIsShown'
  BY <1>1 DEF Hear, Land, Lose, Claim, Drop, Return, Move
<1>2. ASSUME NEW m \in Mentions, Tell(m) PROVE TypeOK' /\ DoneIsShown'
  BY <1>2 DEF Tell, Move
<1>3. ASSUME NEW m \in Mentions, Finish(m) PROVE TypeOK' /\ DoneIsShown'
  BY <1>3 DEF Finish, Move
<1>4. ASSUME NEW m \in Mentions, Show(m) PROVE TypeOK' /\ DoneIsShown'
  BY <1>4 DEF Show
<1>5. CASE UNCHANGED vars
  BY <1>5 DEF vars
<1> QED
  BY <1>1, <1>2, <1>3, <1>4, <1>5 DEF Next

(* The promise is at-least-once: a mention the queue is done with was shown. *)
THEOREM PromiseIsAtLeastOnce == Spec => []DoneIsShown
<1>1. Init => TypeOK /\ DoneIsShown
  BY DEF Init, TypeOK, DoneIsShown, Places
<1> QED
  BY <1>1, QueueStep, PTL DEF Spec
=============================================================================

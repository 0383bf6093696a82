---------------------------- MODULE InboxProofs ----------------------------
(* Theorems about Inbox, for every set of daemons and readers, every cap    *)
(* and every number of mentions, crashes and faults.                        *)
EXTENDS Inbox, FiniteSetTheorems, WellFoundedInduction, TLAPS

(* Who holds a mention, and when: a daemon from hearing one to landing it,  *)
(* and after a failed put; a reader from claim to ack, and from the reply   *)
(* of chat-read to its print.                                               *)
HandOK ==
  /\ \A d \in Daemons : /\ pc[d] \in DaemonPC
                        /\ pc[d] \in {"idle", "listen"} => hand[d] = 0
                        /\ pc[d] \in {"put", "evict", "write"} => hand[d] # 0
                        /\ pc[d] = "write" <=> path[d] # 0
                        /\ pc[d] = "write" => names[d] = {}
  /\ \A r \in Readers : /\ pc[r] \in ReaderPC
                        /\ pc[r] \in {"load", "show", "ack", "tell"} <=> hand[r] # 0
                        /\ pc[r] \notin {"claim", "load"} => names[r] = {}

Typed == TypeOK /\ HandOK

LEMMA MentionsNat == 0 \notin Mentions /\ Mentions \subseteq Nat
  BY InboxAssumption DEF Mentions

LEMMA NextHeard == ASSUME TypeOK, cursor < MaxMentions
                   PROVE  cursor + 1 \in Mentions
  BY InboxAssumption DEF TypeOK, Mentions


(* Every step keeps variables in their types and hands in step with pc.    *)
LEMMA TypedStep == Typed /\ [Next]_vars => Typed'
<1> SUFFICES ASSUME Typed, [Next]_vars PROVE Typed'
  OBVIOUS
<1> USE InboxAssumption, MentionsNat
    DEF Typed, TypeOK, HandOK, Procs, DaemonPC, ReaderPC, At, Goto, Hooks,
        disk, local, put, room, history
<1>1. ASSUME NEW d \in Daemons, Spawn(d) PROVE Typed'
  <2>1. TypeOK'
    BY <1>1 DEF Spawn
  <2>2. HandOK'
    BY <1>1 DEF Spawn
  <2> QED
    BY <2>1, <2>2
<1>2. ASSUME NEW d \in Daemons, Exit(d) PROVE Typed'
  <2>1. TypeOK'
    <3>1. hand[d] \in Mentions \cup {0} /\ hand' \in [Procs -> Mentions \cup {0}]
      BY <1>2 DEF Exit
    <3>2. lost' \subseteq Mentions
      BY <1>2, <3>1 DEF Exit
    <3>3. pc' \in [Procs -> DaemonPC \cup ReaderPC]
      BY <1>2 DEF Exit
    <3> QED
      BY <3>1, <3>2, <3>3, <1>2 DEF Exit
  <2>2. HandOK'
    BY <1>2 DEF Exit
  <2> QED
    BY <2>1, <2>2
<1>3. ASSUME NEW d \in Daemons, Retry(d) PROVE Typed'
  <2>1. TypeOK'
    BY <1>3 DEF Retry
  <2>2. HandOK'
    BY <1>3 DEF Retry
  <2> QED
    BY <2>1, <2>2
<1>4. ASSUME NEW d \in Daemons, Pass(d) PROVE Typed'
  <2>1. TypeOK'
    BY <1>4 DEF Pass, StartSweep
  <2>2. HandOK'
    BY <1>4 DEF Pass, StartSweep
  <2> QED
    BY <2>1, <2>2
<1>5. ASSUME NEW d \in Daemons, HearNothing(d) PROVE Typed'
  <2>1. TypeOK'
    BY <1>5 DEF HearNothing
  <2>2. HandOK'
    BY <1>5 DEF HearNothing
  <2> QED
    BY <2>1, <2>2
<1>6. ASSUME NEW d \in Daemons, Hear(d) PROVE Typed'
  <2>1. TypeOK'
    BY <1>6, NextHeard DEF Hear
  <2>2. HandOK'
    BY <1>6, NextHeard DEF Hear
  <2> QED
    BY <2>1, <2>2
<1>7. ASSUME NEW d \in Daemons, ListVictims(d) PROVE Typed'
  <2>1. TypeOK'
    BY <1>7 DEF ListVictims, Victims
  <2>2. HandOK'
    BY <1>7 DEF ListVictims, Victims
  <2> QED
    BY <2>1, <2>2
<1>8. ASSUME NEW d \in Daemons, Land(d) PROVE Typed'
  <2>1. TypeOK'
    <3>1. hand[d] \in Mentions /\ d \in Procs
      BY <1>8 DEF Land
    <3>2. inbox' \subseteq Mentions
      BY <1>8, <3>1 DEF Land
    <3>7. stamp' \in [Mentions -> Nat] /\ path' \in [Daemons -> Nat]
      BY <1>8, <3>1 DEF Land
    <3>8. arrived' \in [Readers -> SUBSET Mentions]
      BY <1>8, <3>1 DEF Land, Arrives
    <3>3. pc' \in [Procs -> DaemonPC \cup ReaderPC]
      BY <1>8, <3>1 DEF Land
    <3>4. orphans' \in [Procs -> SUBSET (Mentions \X Readers)]
      BY <1>8, <3>1 DEF Land, StartSweep
    <3>5. hand' \in [Procs -> Mentions \cup {0}] /\ retrying' \in [Daemons -> BOOLEAN]
      BY <1>8, <3>1 DEF Land
    <3> QED
      BY <3>2, <3>3, <3>4, <3>5, <3>7, <3>8, <1>8 DEF Land
  <2>2. HandOK'
    BY <1>8 DEF Land, StartSweep
  <2> QED
    BY <2>1, <2>2
<1>9. ASSUME NEW d \in Daemons, PutFails(d) PROVE Typed'
  <2>1. TypeOK'
    BY <1>9 DEF PutFails, MayFail
  <2>2. HandOK'
    BY <1>9 DEF PutFails, MayFail
  <2> QED
    BY <2>1, <2>2
<1>10. ASSUME NEW d \in Daemons, NEW m \in Mentions, Evict(d, m) PROVE Typed'
  <2>1. TypeOK'
    BY <1>10 DEF Evict, IsOldest, CanRename
  <2>2. HandOK'
    BY <1>10 DEF Evict, IsOldest, CanRename
  <2> QED
    BY <2>1, <2>2
<1>11. ASSUME NEW r \in Readers, Scan(r) PROVE Typed'
  <2>1. TypeOK'
    BY <1>11 DEF Scan
  <2>2. HandOK'
    BY <1>11 DEF Scan
  <2> QED
    BY <2>1, <2>2
<1>12. ASSUME NEW r \in Readers, Poll(r) PROVE Typed'
  <2>1. TypeOK'
    BY <1>12 DEF Poll, ListDone
  <2>2. HandOK'
    BY <1>12 DEF Poll
  <2> QED
    BY <2>1, <2>2
<1>13. ASSUME NEW r \in Readers, GiveUp(r) PROVE Typed'
  <2>1. TypeOK'
    BY <1>13 DEF GiveUp, Quit, ListDone
  <2>2. HandOK'
    BY <1>13 DEF GiveUp, Quit
  <2> QED
    BY <2>1, <2>2
<1>14. ASSUME NEW r \in Readers, LoadOk(r) PROVE Typed'
  <2>1. TypeOK'
    BY <1>14 DEF LoadOk, ListDone
  <2>2. HandOK'
    BY <1>14 DEF LoadOk
  <2> QED
    BY <2>1, <2>2
<1>15. ASSUME NEW r \in Readers, LoadFails(r) PROVE Typed'
  <2>1. TypeOK'
    BY <1>15 DEF LoadFails
  <2>2. HandOK'
    BY <1>15 DEF LoadFails
  <2> QED
    BY <2>1, <2>2
<1>16. ASSUME NEW r \in Readers, Show(r) PROVE Typed'
  <2>1. TypeOK'
    <3>0. hand[r] \in Mentions
      BY <1>16 DEF Show
    <3>1. shown' \subseteq Mentions /\ again' \subseteq Mentions
      BY <1>16, <3>0 DEF Show, Display
    <3> QED
      BY <3>1, <1>16 DEF Show
  <2>2. HandOK'
    BY <1>16 DEF Show, Display
  <2> QED
    BY <2>1, <2>2
<1>17. ASSUME NEW r \in Readers, Ack(r) PROVE Typed'
  <2>1. TypeOK'
    <3>1. processing' \subseteq processing /\ aged' \subseteq aged
      BY <1>17 DEF Ack
    <3>2. pc' \in [Procs -> DaemonPC \cup ReaderPC]
      BY <1>17 DEF Ack, Quit
    <3>3. verb' \in [Readers -> Verbs \cup {"none"}] /\ hand' \in [Procs -> Mentions \cup {0}]
      BY <1>17 DEF Ack, Quit
    <3> QED
      BY <3>1, <3>2, <3>3, <1>17 DEF Ack
  <2>2. HandOK'
    BY <1>17 DEF Ack, Quit
  <2> QED
    BY <2>1, <2>2
<1>18. ASSUME NEW r \in Readers, AskHears(r) PROVE Typed'
  <2>1. TypeOK'
    BY <1>18, NextHeard DEF AskHears
  <2>2. HandOK'
    BY <1>18, NextHeard DEF AskHears
  <2> QED
    BY <2>1, <2>2
<1>19. ASSUME NEW r \in Readers, AskHearsNothing(r) PROVE Typed'
  <2>1. TypeOK'
    BY <1>19 DEF AskHearsNothing, Quit
  <2>2. HandOK'
    BY <1>19 DEF AskHearsNothing, Quit
  <2> QED
    BY <2>1, <2>2
<1>20. ASSUME NEW r \in Readers, Tell(r) PROVE Typed'
  <2>1. TypeOK'
    <3>0. hand[r] \in Mentions
      BY <1>20 DEF Tell
    <3>1. shown' \subseteq Mentions /\ again' \subseteq Mentions
      BY <1>20, <3>0 DEF Tell, Display
    <3> QED
      BY <3>1, <1>20 DEF Tell, Quit
  <2>2. HandOK'
    BY <1>20 DEF Tell, Display, Quit
  <2> QED
    BY <2>1, <2>2
<1>21. ASSUME NEW r \in Readers, NEW m \in Mentions, Claim(r, m) PROVE Typed'
  <2>1. TypeOK'
    BY <1>21 DEF Claim, IsOldest, CanRename
  <2>2. HandOK'
    BY <1>21 DEF Claim, IsOldest, CanRename
  <2> QED
    BY <2>1, <2>2
<1>22. ASSUME NEW r \in Readers, NEW m \in Mentions, ClaimFails(r, m) PROVE Typed'
  <2>1. TypeOK'
    BY <1>22 DEF ClaimFails, IsOldest, CanRename
  <2>2. HandOK'
    BY <1>22 DEF ClaimFails, IsOldest, CanRename
  <2> QED
    BY <2>1, <2>2
<1>23. ASSUME NEW r \in Readers, NEW v \in Verbs, Start(r, v) PROVE Typed'
  <2>1. TypeOK'
    BY <1>23 DEF Start, StartSweep
  <2>2. HandOK'
    BY <1>23 DEF Start, StartSweep
  <2> QED
    BY <2>1, <2>2
<1>24. ASSUME NEW p \in Procs, NEW f \in orphans[p], Recover(p, f) PROVE Typed'
  <2>1. TypeOK'
    <3>1. f \in Mentions \X Readers
      BY <1>24 DEF Recover
    <3>2. f[1] \in Mentions
      BY <3>1
    <3>3. orphans' \in [Procs -> SUBSET (Mentions \X Readers)]
      BY <1>24 DEF Recover, SweepNext
    <3>4. inbox' \subseteq Mentions /\ recovered' \subseteq Mentions
      BY <1>24, <3>2 DEF Recover
    <3>5. processing' \subseteq Mentions \X Readers
      BY <1>24 DEF Recover
    <3>6. arrived' \in [Readers -> SUBSET Mentions]
      BY <1>24, <3>2 DEF Recover, Arrives
    <3> QED
      BY <3>3, <3>4, <3>5, <3>6, <1>24 DEF Recover, SweepNext
  <2>2. HandOK'
    BY <1>24 DEF Recover, SweepNext
  <2> QED
    BY <2>1, <2>2
<1>25. ASSUME NEW p \in Procs, NEW f \in orphans[p], SkipOrphan(p, f) PROVE Typed'
  <2>1. TypeOK'
    BY <1>25 DEF SkipOrphan, SweepNext
  <2>2. HandOK'
    BY <1>25 DEF SkipOrphan, SweepNext
  <2> QED
    BY <2>1, <2>2
<1>26. ASSUME NEW m \in Mentions, Age(m) PROVE Typed'
  <2>1. TypeOK'
    BY <1>26 DEF Age
  <2>2. HandOK'
    BY <1>26 DEF Age
  <2> QED
    BY <2>1, <2>2
<1>27. ASSUME NEW p \in Procs, Crash(p) PROVE Typed'
  <2>1. TypeOK'
    <3>1. verb' \in [Readers -> Verbs \cup {"none"}]
      BY <1>27 DEF Crash
    <3>2. retrying' \in [Daemons -> BOOLEAN]
      BY <1>27 DEF Crash
    <3>3. lost' \subseteq Mentions
      BY <1>27 DEF Crash
    <3>4. pc' \in [Procs -> DaemonPC \cup ReaderPC] /\ hand' \in [Procs -> Mentions \cup {0}]
      BY <1>27 DEF Crash
    <3>5. /\ names' \in [Procs -> SUBSET Mentions]
          /\ orphans' \in [Procs -> SUBSET (Mentions \X Readers)]
      BY <1>27 DEF Crash
    <3>6. path' \in [Daemons -> Nat] /\ arrived' \in [Readers -> SUBSET Mentions]
      BY <1>27 DEF Crash, ListDone
    <3> QED
      BY <3>1, <3>2, <3>3, <3>4, <3>5, <3>6, <1>27 DEF Crash
  <2>2. HandOK'
    BY <1>27 DEF Crash, InHand
  <2> QED
    BY <2>1, <2>2
<1>28. CASE UNCHANGED vars
  BY <1>28 DEF vars
<1>29. ASSUME NEW d \in Daemons, Stamp(d) PROVE Typed'
  <2>1. PICK t \in Times : path' = [path EXCEPT ![d] = t]
    BY <1>29 DEF Stamp
  <2>2. t \in Nat \ {0}
    BY <2>1 DEF Times
  <2>3. TypeOK'
    BY <1>29, <2>1, <2>2 DEF Stamp
  <2>4. HandOK'
    BY <1>29, <2>1, <2>2 DEF Stamp
  <2> QED
    BY <2>3, <2>4
<1> QED
  BY <1>1, <1>2, <1>3, <1>4, <1>5, <1>6, <1>7, <1>8, <1>9, <1>10, <1>11, <1>12, <1>13,
     <1>14, <1>15, <1>16, <1>17, <1>18, <1>19, <1>20, <1>21, <1>22, <1>23, <1>24,
     <1>25, <1>26, <1>27, <1>28, <1>29
  DEF Next, DaemonStep, ReaderStep, SweepStep
(* The variables hold values of their types throughout.                     *)
THEOREM TypeCorrect == Spec => []TypeOK
<1>1. Init => Typed
  BY InboxAssumption, MentionsNat
  DEF Init, Typed, TypeOK, HandOK, Procs, DaemonPC, ReaderPC, Mentions
<1>2. Typed => TypeOK
  BY DEF Typed
<1> QED
  BY <1>1, <1>2, TypedStep, PTL DEF Spec

-----------------------------------------------------------------------------
(* Why nothing is lost.  A mention in a hand has been heard and has never    *)
(* landed, so it is on no disk and in no other hand; what is on disk has    *)
(* landed; and a reader that is about to ack has printed.                   *)
HeldFresh == \A p \in Procs, m \in Mentions :
               InHand(p, m) => m <= cursor /\ stamp[m] = 0

OneHand == \A p, q \in Procs, m \in Mentions :
             InHand(p, m) /\ InHand(q, m) => p = q

DiskLanded == \A m \in Mentions : OnDisk(m) => stamp[m] # 0

Unheard == \A m \in Mentions : stamp[m] # 0 => m <= cursor

AckShown == \A r \in Readers : pc[r] = "ack" => hand[r] \in shown

Kept == /\ Typed
        /\ HeldFresh /\ OneHand /\ DiskLanded /\ Unheard /\ AckShown
        /\ OnePlace /\ LandedSurvives /\ NothingVanishes

LEMMA PairOf == \A f \in Mentions \X Readers : \E m \in Mentions, r \in Readers : f = <<m, r>>
  OBVIOUS

LEMMA CursorMentions == ASSUME TypeOK PROVE \A m \in 1..cursor : m \in Mentions
  BY InboxAssumption DEF TypeOK, Mentions

(* Every step keeps all of it.                                              *)
LEMMA KeptStep == Kept /\ [Next]_vars => Kept'
<1> SUFFICES ASSUME Kept, [Next]_vars PROVE Kept'
  OBVIOUS
<1>0. Typed'
  BY TypedStep DEF Kept
<1> USE <1>0, InboxAssumption, MentionsNat
    DEF Kept, Typed, TypeOK, HandOK, Procs, DaemonPC, ReaderPC, At, Goto,
        disk, local, put, room, history
<1>1. ASSUME NEW d \in Daemons, Spawn(d) PROVE Kept'
  <2>1. HeldFresh' /\ OneHand' /\ Unheard'
    BY <1>1 DEF Spawn, HeldFresh, OneHand, Unheard, InHand
  <2>2. DiskLanded' /\ OnePlace'
    BY <1>1 DEF Spawn, DiskLanded, OnePlace, OnDisk, HeldFresh, InHand
  <2>3. AckShown'
    BY <1>1 DEF Spawn, AckShown
  <2>4. LandedSurvives' /\ NothingVanishes'
    BY <1>1
    DEF Spawn, LandedSurvives, NothingVanishes, DiskLanded, OnDisk, InHand, AckShown
  <2> QED
    BY <2>1, <2>2, <2>3, <2>4
<1>2. ASSUME NEW d \in Daemons, Exit(d) PROVE Kept'
  <2>1. HeldFresh' /\ OneHand' /\ Unheard'
    BY <1>2 DEF Exit, HeldFresh, OneHand, Unheard, InHand
  <2>2. DiskLanded' /\ OnePlace'
    BY <1>2 DEF Exit, DiskLanded, OnePlace, OnDisk, HeldFresh, InHand
  <2>3. AckShown'
    BY <1>2 DEF Exit, AckShown
  <2>4. LandedSurvives' /\ NothingVanishes'
    <3>1. \A m \in Mentions : OnDisk(m) => OnDisk(m)'
      BY <1>2 DEF Exit, OnDisk
    <3>2. \A q \in Procs, m \in Mentions : InHand(q, m) => InHand(q, m)' \/ m \in lost'
      BY <1>2 DEF Exit, InHand
    <3>3. LandedSurvives'
      BY <1>2, <3>1 DEF Exit, LandedSurvives
    <3>4. NothingVanishes'
      BY <1>2, <3>1, <3>2, CursorMentions DEF Exit, NothingVanishes
    <3> QED
      BY <3>3, <3>4
  <2> QED
    BY <2>1, <2>2, <2>3, <2>4
<1>3. ASSUME NEW d \in Daemons, Retry(d) PROVE Kept'
  <2>1. HeldFresh' /\ OneHand' /\ Unheard'
    BY <1>3 DEF Retry, HeldFresh, OneHand, Unheard, InHand
  <2>2. DiskLanded' /\ OnePlace'
    BY <1>3 DEF Retry, DiskLanded, OnePlace, OnDisk, HeldFresh, InHand
  <2>3. AckShown'
    BY <1>3 DEF Retry, AckShown
  <2>4. LandedSurvives' /\ NothingVanishes'
    BY <1>3
    DEF Retry, LandedSurvives, NothingVanishes, DiskLanded, OnDisk, InHand, AckShown
  <2> QED
    BY <2>1, <2>2, <2>3, <2>4
<1>4. ASSUME NEW d \in Daemons, Pass(d) PROVE Kept'
  <2>1. HeldFresh' /\ OneHand' /\ Unheard'
    BY <1>4 DEF Pass, StartSweep, HeldFresh, OneHand, Unheard, InHand
  <2>2. DiskLanded' /\ OnePlace'
    BY <1>4 DEF Pass, StartSweep, DiskLanded, OnePlace, OnDisk, HeldFresh, InHand
  <2>3. AckShown'
    BY <1>4 DEF Pass, StartSweep, AckShown
  <2>4. LandedSurvives' /\ NothingVanishes'
    BY <1>4
    DEF Pass, StartSweep, LandedSurvives, NothingVanishes, DiskLanded, OnDisk, InHand,
        AckShown
  <2> QED
    BY <2>1, <2>2, <2>3, <2>4
<1>5. ASSUME NEW d \in Daemons, HearNothing(d) PROVE Kept'
  <2>1. HeldFresh' /\ OneHand' /\ Unheard'
    BY <1>5 DEF HearNothing, HeldFresh, OneHand, Unheard, InHand
  <2>2. DiskLanded' /\ OnePlace'
    BY <1>5 DEF HearNothing, DiskLanded, OnePlace, OnDisk, HeldFresh, InHand
  <2>3. AckShown'
    BY <1>5 DEF HearNothing, AckShown
  <2>4. LandedSurvives' /\ NothingVanishes'
    BY <1>5
    DEF HearNothing, LandedSurvives, NothingVanishes, DiskLanded, OnDisk, InHand,
        AckShown
  <2> QED
    BY <2>1, <2>2, <2>3, <2>4
<1>6. ASSUME NEW d \in Daemons, Hear(d) PROVE Kept'
  <2>1. HeldFresh' /\ OneHand' /\ Unheard'
    BY <1>6, NextHeard DEF Hear, HeldFresh, OneHand, Unheard, InHand
  <2>2. DiskLanded' /\ OnePlace'
    BY <1>6, NextHeard DEF Hear, DiskLanded, OnePlace, OnDisk, HeldFresh, InHand
  <2>3. AckShown'
    BY <1>6, NextHeard DEF Hear, AckShown
  <2>4. LandedSurvives' /\ NothingVanishes'
    <3>1. \A m \in Mentions : OnDisk(m) <=> OnDisk(m)'
      BY <1>6 DEF Hear, OnDisk
    <3>2. \A q \in Procs, m \in Mentions : InHand(q, m) => InHand(q, m)'
      BY <1>6 DEF Hear, InHand
    <3>3. d \in Procs /\ hand'[d] = cursor' /\ (d \in Daemons \/ pc'[d] = "tell")
      BY <1>6, NextHeard DEF Hear
    <3>4. LandedSurvives'
      BY <1>6, <3>1 DEF Hear, LandedSurvives
    <3>5. \A m \in 1..cursor' : m \in 1..cursor \/ m = cursor'
      BY <1>6 DEF Hear
    <3>6. NothingVanishes'
      BY <1>6, <3>1, <3>2, <3>3, <3>5, CursorMentions DEF Hear, NothingVanishes, InHand
    <3> QED
      BY <3>4, <3>6
  <2> QED
    BY <2>1, <2>2, <2>3, <2>4
<1>7. ASSUME NEW d \in Daemons, ListVictims(d) PROVE Kept'
  <2>1. HeldFresh' /\ OneHand' /\ Unheard'
    BY <1>7 DEF ListVictims, Victims, HeldFresh, OneHand, Unheard, InHand
  <2>2. DiskLanded' /\ OnePlace'
    BY <1>7 DEF ListVictims, Victims, DiskLanded, OnePlace, OnDisk, HeldFresh, InHand
  <2>3. AckShown'
    BY <1>7 DEF ListVictims, Victims, AckShown
  <2>4. LandedSurvives' /\ NothingVanishes'
    BY <1>7
    DEF ListVictims, Victims, LandedSurvives, NothingVanishes, DiskLanded, OnDisk,
        InHand, AckShown
  <2> QED
    BY <2>1, <2>2, <2>3, <2>4
<1>8. ASSUME NEW d \in Daemons, Land(d) PROVE Kept'
  <2>1. HeldFresh' /\ OneHand' /\ Unheard'
    BY <1>8 DEF Land, StartSweep, HeldFresh, OneHand, Unheard, InHand
  <2>2. DiskLanded' /\ OnePlace'
    <3>0. PICK h \in Mentions : h = hand[d]
      BY <1>8 DEF Land
    <3>1. InHand(d, h) /\ d \in Procs
      BY <3>0 DEF InHand
    <3>2. ~ OnDisk(h)
      BY <3>1 DEF HeldFresh, DiskLanded
    <3>3. \A m \in Mentions : OnDisk(m)' => OnDisk(m) \/ m = h
      BY <1>8, <3>0 DEF Land, OnDisk
    <3>4. stamp'[h] # 0 /\ \A m \in Mentions : stamp[m] # 0 => stamp'[m] # 0
      BY <1>8, <3>0 DEF Land
    <3>5. DiskLanded'
      BY <3>3, <3>4 DEF DiskLanded
    <3>6. OnePlace'
      BY <1>8, <3>0, <3>2 DEF Land, OnePlace, OnDisk
    <3> QED
      BY <3>5, <3>6
  <2>3. AckShown'
    BY <1>8 DEF Land, StartSweep, AckShown
  <2>4. LandedSurvives' /\ NothingVanishes'
    <3>0. PICK h \in Mentions : h = hand[d]
      BY <1>8 DEF Land
    <3>1. OnDisk(h)' /\ \A m \in Mentions : OnDisk(m) => OnDisk(m)'
      BY <1>8, <3>0 DEF Land, OnDisk
    <3>2. \A q \in Procs, m \in Mentions : InHand(q, m) => InHand(q, m)' \/ m = h
      BY <1>8, <3>0 DEF Land, InHand
    <3>3. \A m \in Mentions : stamp'[m] # 0 => stamp[m] # 0 \/ m = h
      BY <1>8, <3>0 DEF Land
    <3>4. LandedSurvives'
      BY <1>8, <3>1, <3>3 DEF Land, LandedSurvives
    <3>5. NothingVanishes'
      BY <1>8, <3>1, <3>2, CursorMentions DEF Land, NothingVanishes
    <3> QED
      BY <3>4, <3>5
  <2> QED
    BY <2>1, <2>2, <2>3, <2>4
<1>9. ASSUME NEW d \in Daemons, PutFails(d) PROVE Kept'
  <2>1. HeldFresh' /\ OneHand' /\ Unheard'
    BY <1>9 DEF PutFails, MayFail, HeldFresh, OneHand, Unheard, InHand
  <2>2. DiskLanded' /\ OnePlace'
    BY <1>9 DEF PutFails, MayFail, DiskLanded, OnePlace, OnDisk, HeldFresh, InHand
  <2>3. AckShown'
    BY <1>9 DEF PutFails, MayFail, AckShown
  <2>4. LandedSurvives' /\ NothingVanishes'
    BY <1>9
    DEF PutFails, MayFail, LandedSurvives, NothingVanishes, DiskLanded, OnDisk, InHand,
        AckShown
  <2> QED
    BY <2>1, <2>2, <2>3, <2>4
<1>10. ASSUME NEW d \in Daemons, NEW m \in Mentions, Evict(d, m) PROVE Kept'
  <2>1. HeldFresh' /\ OneHand' /\ Unheard'
    BY <1>10 DEF Evict, IsOldest, CanRename, HeldFresh, OneHand, Unheard, InHand
  <2>2. DiskLanded' /\ OnePlace'
    BY <1>10
    DEF Evict, IsOldest, CanRename, DiskLanded, OnePlace, OnDisk, HeldFresh, InHand
  <2>3. AckShown'
    BY <1>10 DEF Evict, IsOldest, CanRename, AckShown
  <2>4. LandedSurvives' /\ NothingVanishes'
    <3>1. \A n \in Mentions : OnDisk(n) => OnDisk(n)' \/ n \in evicted'
      BY <1>10 DEF Evict, CanRename, OnDisk
    <3>2. \A q \in Procs, n \in Mentions : InHand(q, n) => InHand(q, n)' 
      BY <1>10 DEF Evict, CanRename, InHand
    <3>3. LandedSurvives'
      BY <1>10, <3>1 DEF Evict, CanRename, LandedSurvives
    <3>4. NothingVanishes'
      BY <1>10, <3>1, <3>2, CursorMentions DEF Evict, CanRename, NothingVanishes
    <3> QED
      BY <3>3, <3>4
  <2> QED
    BY <2>1, <2>2, <2>3, <2>4
<1>11. ASSUME NEW r \in Readers, Scan(r) PROVE Kept'
  <2>1. HeldFresh' /\ OneHand' /\ Unheard'
    BY <1>11 DEF Scan, HeldFresh, OneHand, Unheard, InHand
  <2>2. DiskLanded' /\ OnePlace'
    BY <1>11 DEF Scan, DiskLanded, OnePlace, OnDisk, HeldFresh, InHand
  <2>3. AckShown'
    BY <1>11 DEF Scan, AckShown
  <2>4. LandedSurvives' /\ NothingVanishes'
    BY <1>11
    DEF Scan, LandedSurvives, NothingVanishes, DiskLanded, OnDisk, InHand, AckShown
  <2> QED
    BY <2>1, <2>2, <2>3, <2>4
<1>12. ASSUME NEW r \in Readers, Poll(r) PROVE Kept'
  <2>1. HeldFresh' /\ OneHand' /\ Unheard'
    BY <1>12 DEF Poll, HeldFresh, OneHand, Unheard, InHand
  <2>2. DiskLanded' /\ OnePlace'
    BY <1>12 DEF Poll, DiskLanded, OnePlace, OnDisk, HeldFresh, InHand
  <2>3. AckShown'
    BY <1>12 DEF Poll, AckShown
  <2>4. LandedSurvives' /\ NothingVanishes'
    BY <1>12
    DEF Poll, LandedSurvives, NothingVanishes, DiskLanded, OnDisk, InHand, AckShown
  <2> QED
    BY <2>1, <2>2, <2>3, <2>4
<1>13. ASSUME NEW r \in Readers, GiveUp(r) PROVE Kept'
  <2>1. HeldFresh' /\ OneHand' /\ Unheard'
    BY <1>13 DEF GiveUp, Quit, HeldFresh, OneHand, Unheard, InHand
  <2>2. DiskLanded' /\ OnePlace'
    BY <1>13 DEF GiveUp, Quit, DiskLanded, OnePlace, OnDisk, HeldFresh, InHand
  <2>3. AckShown'
    BY <1>13 DEF GiveUp, Quit, AckShown
  <2>4. LandedSurvives' /\ NothingVanishes'
    <3>1. \A m \in Mentions : OnDisk(m) => OnDisk(m)' 
      BY <1>13 DEF GiveUp, Quit, OnDisk
    <3>2. \A q \in Procs, m \in Mentions : InHand(q, m) => InHand(q, m)' 
      BY <1>13 DEF GiveUp, Quit, InHand
    <3>3. LandedSurvives'
      BY <1>13, <3>1 DEF GiveUp, Quit, LandedSurvives
    <3>4. NothingVanishes'
      BY <1>13, <3>1, <3>2, CursorMentions DEF GiveUp, Quit, NothingVanishes
    <3> QED
      BY <3>3, <3>4
  <2> QED
    BY <2>1, <2>2, <2>3, <2>4
<1>14. ASSUME NEW r \in Readers, LoadOk(r) PROVE Kept'
  <2>1. HeldFresh' /\ OneHand' /\ Unheard'
    BY <1>14 DEF LoadOk, HeldFresh, OneHand, Unheard, InHand
  <2>2. DiskLanded' /\ OnePlace'
    BY <1>14 DEF LoadOk, DiskLanded, OnePlace, OnDisk, HeldFresh, InHand
  <2>3. AckShown'
    BY <1>14 DEF LoadOk, AckShown
  <2>4. LandedSurvives' /\ NothingVanishes'
    BY <1>14
    DEF LoadOk, LandedSurvives, NothingVanishes, DiskLanded, OnDisk, InHand, AckShown
  <2> QED
    BY <2>1, <2>2, <2>3, <2>4
<1>15. ASSUME NEW r \in Readers, LoadFails(r) PROVE Kept'
  <2>1. HeldFresh' /\ OneHand' /\ Unheard'
    BY <1>15 DEF LoadFails, HeldFresh, OneHand, Unheard, InHand
  <2>2. DiskLanded' /\ OnePlace'
    BY <1>15 DEF LoadFails, DiskLanded, OnePlace, OnDisk, HeldFresh, InHand
  <2>3. AckShown'
    BY <1>15 DEF LoadFails, AckShown
  <2>4. LandedSurvives' /\ NothingVanishes'
    BY <1>15
    DEF LoadFails, LandedSurvives, NothingVanishes, DiskLanded, OnDisk, InHand,
        AckShown
  <2> QED
    BY <2>1, <2>2, <2>3, <2>4
<1>16. ASSUME NEW r \in Readers, Show(r) PROVE Kept'
  <2>1. HeldFresh' /\ OneHand' /\ Unheard'
    BY <1>16 DEF Show, Display, HeldFresh, OneHand, Unheard, InHand
  <2>2. DiskLanded' /\ OnePlace'
    BY <1>16 DEF Show, Display, DiskLanded, OnePlace, OnDisk, HeldFresh, InHand
  <2>3. AckShown'
    BY <1>16 DEF Show, Display, AckShown
  <2>4. LandedSurvives' /\ NothingVanishes'
    BY <1>16
    DEF Show, Display, LandedSurvives, NothingVanishes, DiskLanded, OnDisk, InHand,
        AckShown
  <2> QED
    BY <2>1, <2>2, <2>3, <2>4
<1>17. ASSUME NEW r \in Readers, Ack(r) PROVE Kept'
  <2>1. HeldFresh' /\ OneHand' /\ Unheard'
    BY <1>17 DEF Ack, Quit, HeldFresh, OneHand, Unheard, InHand
  <2>2. DiskLanded' /\ OnePlace'
    BY <1>17 DEF Ack, Quit, DiskLanded, OnePlace, OnDisk, HeldFresh, InHand
  <2>3. AckShown'
    BY <1>17 DEF Ack, Quit, AckShown
  <2>4. LandedSurvives' /\ NothingVanishes'
    <3>1. hand[r] \in shown /\ \A m \in Mentions, s \in Readers :
            <<m, s>> \in processing => <<m, s>> \in processing' \/ m = hand[r]
      BY <1>17 DEF Ack, AckShown
    <3>2. \A m \in Mentions : OnDisk(m) => OnDisk(m)' \/ m \in shown
      BY <1>17, <3>1 DEF Ack, OnDisk
    <3>3. \A q \in Procs, m \in Mentions : InHand(q, m) => InHand(q, m)'
      BY <1>17 DEF Ack, Quit, InHand
    <3>4. LandedSurvives'
      BY <1>17, <3>2 DEF Ack, Quit, LandedSurvives
    <3>5. NothingVanishes'
      BY <1>17, <3>2, <3>3, CursorMentions DEF Ack, Quit, NothingVanishes
    <3> QED
      BY <3>4, <3>5
  <2> QED
    BY <2>1, <2>2, <2>3, <2>4
<1>18. ASSUME NEW r \in Readers, AskHears(r) PROVE Kept'
  <2>1. HeldFresh' /\ OneHand' /\ Unheard'
    BY <1>18, NextHeard DEF AskHears, HeldFresh, OneHand, Unheard, InHand
  <2>2. DiskLanded' /\ OnePlace'
    BY <1>18, NextHeard DEF AskHears, DiskLanded, OnePlace, OnDisk, HeldFresh, InHand
  <2>3. AckShown'
    BY <1>18, NextHeard DEF AskHears, AckShown
  <2>4. LandedSurvives' /\ NothingVanishes'
    <3>1. \A m \in Mentions : OnDisk(m) <=> OnDisk(m)'
      BY <1>18 DEF AskHears, OnDisk
    <3>2. \A q \in Procs, m \in Mentions : InHand(q, m) => InHand(q, m)'
      BY <1>18 DEF AskHears, InHand
    <3>3. r \in Procs /\ hand'[r] = cursor' /\ (r \in Daemons \/ pc'[r] = "tell")
      BY <1>18, NextHeard DEF AskHears
    <3>4. LandedSurvives'
      BY <1>18, <3>1 DEF AskHears, LandedSurvives
    <3>5. \A m \in 1..cursor' : m \in 1..cursor \/ m = cursor'
      BY <1>18 DEF AskHears
    <3>6. NothingVanishes'
      BY <1>18, <3>1, <3>2, <3>3, <3>5, CursorMentions
      DEF AskHears, NothingVanishes, InHand
    <3> QED
      BY <3>4, <3>6
  <2> QED
    BY <2>1, <2>2, <2>3, <2>4
<1>19. ASSUME NEW r \in Readers, AskHearsNothing(r) PROVE Kept'
  <2>1. HeldFresh' /\ OneHand' /\ Unheard'
    BY <1>19 DEF AskHearsNothing, Quit, HeldFresh, OneHand, Unheard, InHand
  <2>2. DiskLanded' /\ OnePlace'
    BY <1>19 DEF AskHearsNothing, Quit, DiskLanded, OnePlace, OnDisk, HeldFresh, InHand
  <2>3. AckShown'
    BY <1>19 DEF AskHearsNothing, Quit, AckShown
  <2>4. LandedSurvives' /\ NothingVanishes'
    BY <1>19
    DEF AskHearsNothing, Quit, LandedSurvives, NothingVanishes, DiskLanded, OnDisk,
        InHand, AckShown
  <2> QED
    BY <2>1, <2>2, <2>3, <2>4
<1>20. ASSUME NEW r \in Readers, Tell(r) PROVE Kept'
  <2>1. HeldFresh' /\ OneHand' /\ Unheard'
    BY <1>20 DEF Tell, Display, Quit, HeldFresh, OneHand, Unheard, InHand
  <2>2. DiskLanded' /\ OnePlace'
    BY <1>20 DEF Tell, Display, Quit, DiskLanded, OnePlace, OnDisk, HeldFresh, InHand
  <2>3. AckShown'
    BY <1>20 DEF Tell, Display, Quit, AckShown
  <2>4. LandedSurvives' /\ NothingVanishes'
    BY <1>20
    DEF Tell, Display, Quit, LandedSurvives, NothingVanishes, DiskLanded, OnDisk,
        InHand, AckShown
  <2> QED
    BY <2>1, <2>2, <2>3, <2>4
<1>21. ASSUME NEW r \in Readers, NEW m \in Mentions, Claim(r, m) PROVE Kept'
  <2>1. HeldFresh' /\ OneHand' /\ Unheard'
    BY <1>21 DEF Claim, IsOldest, CanRename, HeldFresh, OneHand, Unheard, InHand
  <2>2. DiskLanded' /\ OnePlace'
    <3>1. \A q \in Mentions : OnDisk(q)' => OnDisk(q)
      BY <1>21 DEF Claim, CanRename, OnDisk
    <3>2. DiskLanded'
      BY <1>21, <3>1 DEF Claim, DiskLanded
    <3>3. \A s \in Readers : <<m, s>> \notin processing
      BY <1>21 DEF Claim, CanRename, OnePlace
    <3>4. OnePlace'
      BY <1>21, <3>3 DEF Claim, OnePlace
    <3> QED
      BY <3>2, <3>4
  <2>3. AckShown'
    BY <1>21 DEF Claim, IsOldest, CanRename, AckShown
  <2>4. LandedSurvives' /\ NothingVanishes'
    BY <1>21
    DEF Claim, IsOldest, CanRename, LandedSurvives, NothingVanishes, DiskLanded,
        OnDisk, InHand, AckShown
  <2> QED
    BY <2>1, <2>2, <2>3, <2>4
<1>22. ASSUME NEW r \in Readers, NEW m \in Mentions, ClaimFails(r, m) PROVE Kept'
  <2>1. HeldFresh' /\ OneHand' /\ Unheard'
    BY <1>22 DEF ClaimFails, IsOldest, CanRename, HeldFresh, OneHand, Unheard, InHand
  <2>2. DiskLanded' /\ OnePlace'
    BY <1>22
    DEF ClaimFails, IsOldest, CanRename, DiskLanded, OnePlace, OnDisk, HeldFresh,
        InHand
  <2>3. AckShown'
    BY <1>22 DEF ClaimFails, IsOldest, CanRename, AckShown
  <2>4. LandedSurvives' /\ NothingVanishes'
    BY <1>22
    DEF ClaimFails, IsOldest, CanRename, LandedSurvives, NothingVanishes, DiskLanded,
        OnDisk, InHand, AckShown
  <2> QED
    BY <2>1, <2>2, <2>3, <2>4
<1>23. ASSUME NEW r \in Readers, NEW v \in Verbs, Start(r, v) PROVE Kept'
  <2>1. HeldFresh' /\ OneHand' /\ Unheard'
    BY <1>23 DEF Start, StartSweep, HeldFresh, OneHand, Unheard, InHand
  <2>2. DiskLanded' /\ OnePlace'
    BY <1>23 DEF Start, StartSweep, DiskLanded, OnePlace, OnDisk, HeldFresh, InHand
  <2>3. AckShown'
    BY <1>23 DEF Start, StartSweep, AckShown
  <2>4. LandedSurvives' /\ NothingVanishes'
    BY <1>23
    DEF Start, StartSweep, LandedSurvives, NothingVanishes, DiskLanded, OnDisk, InHand,
        AckShown
  <2> QED
    BY <2>1, <2>2, <2>3, <2>4
<1>24. ASSUME NEW p \in Procs, NEW f \in orphans[p], Recover(p, f) PROVE Kept'
  <2>1. HeldFresh' /\ OneHand' /\ Unheard'
    BY <1>24 DEF Recover, SweepNext, HeldFresh, OneHand, Unheard, InHand
  <2>2. DiskLanded' /\ OnePlace'
    <3>1. PICK m \in Mentions, r \in Readers : f = <<m, r>>
      BY <1>24, PairOf DEF Recover
    <3>2. /\ <<m, r>> \in processing
          /\ processing' = processing \ {<<m, r>>}
          /\ inbox' = inbox \cup {m}
      BY <1>24, <3>1 DEF Recover
    <3>3. \A q \in Mentions : OnDisk(q)' => OnDisk(q)
      BY <3>2 DEF OnDisk
    <3>4. DiskLanded'
      BY <1>24, <3>3 DEF Recover, SweepNext, DiskLanded
    <3>5. \A s \in Readers : <<m, s>> \notin processing'
      BY <3>2 DEF OnePlace
    <3>6. OnePlace'
      BY <3>2, <3>5 DEF OnePlace
    <3> QED
      BY <3>4, <3>6
  <2>3. AckShown'
    BY <1>24 DEF Recover, SweepNext, AckShown
  <2>4. LandedSurvives' /\ NothingVanishes'
    <3>1. \A m \in Mentions : OnDisk(m) => OnDisk(m)'
      <4>1. PICK h \in Mentions, s \in Readers : f = <<h, s>>
        BY <1>24, PairOf DEF Recover
      <4>2. processing' = processing \ {<<h, s>>} /\ inbox' = inbox \cup {h}
        BY <1>24, <4>1 DEF Recover
      <4> QED
        BY <4>2 DEF OnDisk
    <3>2. \A q \in Procs, m \in Mentions : InHand(q, m) => InHand(q, m)'
      BY <1>24 DEF Recover, SweepNext, InHand
    <3>3. LandedSurvives'
      BY <1>24, <3>1 DEF Recover, SweepNext, LandedSurvives
    <3>4. NothingVanishes'
      BY <1>24, <3>1, <3>2, CursorMentions DEF Recover, SweepNext, NothingVanishes
    <3> QED
      BY <3>3, <3>4
  <2> QED
    BY <2>1, <2>2, <2>3, <2>4
<1>25. ASSUME NEW p \in Procs, NEW f \in orphans[p], SkipOrphan(p, f) PROVE Kept'
  <2>1. HeldFresh' /\ OneHand' /\ Unheard'
    BY <1>25 DEF SkipOrphan, SweepNext, HeldFresh, OneHand, Unheard, InHand
  <2>2. DiskLanded' /\ OnePlace'
    BY <1>25 DEF SkipOrphan, SweepNext, DiskLanded, OnePlace, OnDisk, HeldFresh, InHand
  <2>3. AckShown'
    BY <1>25 DEF SkipOrphan, SweepNext, AckShown
  <2>4. LandedSurvives' /\ NothingVanishes'
    BY <1>25
    DEF SkipOrphan, SweepNext, LandedSurvives, NothingVanishes, DiskLanded, OnDisk,
        InHand, AckShown
  <2> QED
    BY <2>1, <2>2, <2>3, <2>4
<1>26. ASSUME NEW m \in Mentions, Age(m) PROVE Kept'
  <2>1. HeldFresh' /\ OneHand' /\ Unheard'
    BY <1>26 DEF Age, HeldFresh, OneHand, Unheard, InHand
  <2>2. DiskLanded' /\ OnePlace'
    BY <1>26 DEF Age, DiskLanded, OnePlace, OnDisk, HeldFresh, InHand
  <2>3. AckShown'
    BY <1>26 DEF Age, AckShown
  <2>4. LandedSurvives' /\ NothingVanishes'
    BY <1>26
    DEF Age, LandedSurvives, NothingVanishes, DiskLanded, OnDisk, InHand, AckShown
  <2> QED
    BY <2>1, <2>2, <2>3, <2>4
<1>27. ASSUME NEW p \in Procs, Crash(p) PROVE Kept'
  <2>1. HeldFresh' /\ OneHand' /\ Unheard'
    BY <1>27 DEF Crash, InHand, HeldFresh, OneHand, Unheard
  <2>2. DiskLanded' /\ OnePlace'
    BY <1>27 DEF Crash, InHand, DiskLanded, OnePlace, OnDisk, HeldFresh
  <2>3. AckShown'
    BY <1>27 DEF Crash, InHand, AckShown
  <2>4. LandedSurvives' /\ NothingVanishes'
    <3>1. \A m \in Mentions : OnDisk(m) => OnDisk(m)' 
      BY <1>27 DEF Crash, OnDisk
    <3>2. \A q \in Procs, m \in Mentions : InHand(q, m) => InHand(q, m)' \/ m \in lost'
      BY <1>27 DEF Crash, InHand
    <3>3. LandedSurvives'
      BY <1>27, <3>1 DEF Crash, LandedSurvives
    <3>4. NothingVanishes'
      BY <1>27, <3>1, <3>2, CursorMentions DEF Crash, NothingVanishes
    <3> QED
      BY <3>3, <3>4
  <2> QED
    BY <2>1, <2>2, <2>3, <2>4
<1>28. CASE UNCHANGED vars
  <2>1. HeldFresh' /\ OneHand' /\ Unheard'
    BY <1>28 DEF vars, HeldFresh, OneHand, Unheard, InHand
  <2>2. DiskLanded' /\ OnePlace' /\ LandedSurvives'
    BY <1>28 DEF vars, DiskLanded, OnePlace, LandedSurvives, OnDisk
  <2>3. AckShown' /\ NothingVanishes'
    BY <1>28 DEF vars, AckShown, NothingVanishes, OnDisk, InHand
  <2> QED
    BY <2>1, <2>2, <2>3
<1>29. ASSUME NEW d \in Daemons, Stamp(d) PROVE Kept'
  <2>1. HeldFresh' /\ OneHand' /\ Unheard'
    BY <1>29 DEF Stamp, HeldFresh, OneHand, Unheard, InHand
  <2>2. DiskLanded' /\ OnePlace' /\ LandedSurvives'
    BY <1>29 DEF Stamp, DiskLanded, OnePlace, LandedSurvives, OnDisk
  <2>3. AckShown' /\ NothingVanishes'
    BY <1>29 DEF Stamp, AckShown, NothingVanishes, OnDisk, InHand
  <2> QED
    BY <2>1, <2>2, <2>3
<1> QED
  BY <1>1, <1>2, <1>3, <1>4, <1>5, <1>6, <1>7, <1>8, <1>9, <1>10, <1>11, <1>12, <1>13,
     <1>14, <1>15, <1>16, <1>17, <1>18, <1>19, <1>20, <1>21, <1>22, <1>23, <1>24,
     <1>25, <1>26, <1>27, <1>28, <1>29
  DEF Next, DaemonStep, ReaderStep, SweepStep
(* No state of Spec breaks it.                                              *)
LEMMA KeptAlways == Spec => []Kept
<1>1. Init => Kept
  <2> SUFFICES ASSUME Init PROVE Kept
    OBVIOUS
  <2>1. Typed
    BY InboxAssumption, MentionsNat
    DEF Init, Typed, TypeOK, HandOK, Procs, DaemonPC, ReaderPC, Mentions
  <2>2. \A p \in Procs, m \in Mentions : ~ InHand(p, m)
    BY MentionsNat DEF Init, InHand
  <2>3. \A m \in Mentions : ~ OnDisk(m) /\ stamp[m] = 0
    BY DEF Init, OnDisk
  <2>4. AckShown /\ OnePlace /\ NothingVanishes
    BY InboxAssumption DEF Init, AckShown, OnePlace, NothingVanishes, Procs
  <2> QED
    BY <2>1, <2>2, <2>3, <2>4
    DEF Kept, HeldFresh, OneHand, DiskLanded, Unheard, LandedSurvives
<1> QED
  BY <1>1, KeptStep, PTL DEF Spec

(* No mention that BCT handed out vanishes: held, on disk, shown, evicted,   *)
(* or lost with the one process that held it.                               *)
THEOREM NothingEverVanishes == Spec => []NothingVanishes
<1>1. Kept => NothingVanishes
  BY DEF Kept
<1> QED
  BY <1>1, KeptAlways, PTL

(* Once landed, a mention outlives every process until printed or evicted.  *)
THEOREM LandedAlwaysSurvives == Spec => []LandedSurvives
<1>1. Kept => LandedSurvives
  BY DEF Kept
<1> QED
  BY <1>1, KeptAlways, PTL

(* Renames alone keep a mention still in a single file and a single claim.  *)
THEOREM AlwaysOnePlace == Spec => []OnePlace
<1>1. Kept => OnePlace
  BY DEF Kept
<1> QED
  BY <1>1, KeptAlways, PTL

-----------------------------------------------------------------------------
(* Why a mention no sweep returned is printed once.  Its claim file stays    *)
(* until its reader acks, so nobody else can claim it, and before its       *)
(* reader's print nobody has printed it.                                    *)
ReadLanded == \A r \in Readers : pc[r] \in {"load", "show", "ack"} => stamp[hand[r]] # 0

ClaimStands == \A r \in Readers :
                 pc[r] \in {"load", "show", "ack"} /\ hand[r] \notin recovered
                   => <<hand[r], r>> \in processing

NotYetShown == /\ \A r \in Readers :
                      pc[r] \in {"load", "show"} /\ hand[r] \notin recovered
                        => hand[r] \notin shown
               /\ \A m \in inbox : m \notin recovered => m \notin shown
               /\ \A p \in Procs, m \in Mentions : InHand(p, m) => m \notin shown
               /\ \A m \in shown : m <= cursor

TwiceRecovered == again \subseteq recovered

Once == ReadLanded /\ ClaimStands /\ NotYetShown /\ TwiceRecovered

LEMMA OnceStep == Kept /\ Once /\ [Next]_vars => Once'
<1> SUFFICES ASSUME Kept, Once, [Next]_vars PROVE Once'
  OBVIOUS
<1> USE InboxAssumption, MentionsNat
    DEF Kept, Once, Typed, TypeOK, HandOK, Procs, DaemonPC, ReaderPC, At, Goto,
        disk, local, put, room, history
<1>1. ASSUME NEW d \in Daemons, Spawn(d) PROVE Once'
  <2>1. ReadLanded' /\ ClaimStands'
    BY <1>1 DEF Spawn, ReadLanded, ClaimStands
  <2>2. NotYetShown'
    BY <1>1 DEF Spawn, NotYetShown, InHand
  <2>3. TwiceRecovered'
    BY <1>1 DEF Spawn, TwiceRecovered
  <2> QED
    BY <2>1, <2>2, <2>3
<1>2. ASSUME NEW d \in Daemons, Exit(d) PROVE Once'
  <2>1. ReadLanded' /\ ClaimStands'
    BY <1>2 DEF Exit, ReadLanded, ClaimStands
  <2>2. NotYetShown'
    BY <1>2 DEF Exit, NotYetShown, InHand
  <2>3. TwiceRecovered'
    BY <1>2 DEF Exit, TwiceRecovered
  <2> QED
    BY <2>1, <2>2, <2>3
<1>3. ASSUME NEW d \in Daemons, Retry(d) PROVE Once'
  <2>1. ReadLanded' /\ ClaimStands'
    BY <1>3 DEF Retry, ReadLanded, ClaimStands
  <2>2. NotYetShown'
    BY <1>3 DEF Retry, NotYetShown, InHand
  <2>3. TwiceRecovered'
    BY <1>3 DEF Retry, TwiceRecovered
  <2> QED
    BY <2>1, <2>2, <2>3
<1>4. ASSUME NEW d \in Daemons, Pass(d) PROVE Once'
  <2>1. ReadLanded' /\ ClaimStands'
    BY <1>4 DEF Pass, StartSweep, ReadLanded, ClaimStands
  <2>2. NotYetShown'
    BY <1>4 DEF Pass, StartSweep, NotYetShown, InHand
  <2>3. TwiceRecovered'
    BY <1>4 DEF Pass, StartSweep, TwiceRecovered
  <2> QED
    BY <2>1, <2>2, <2>3
<1>5. ASSUME NEW d \in Daemons, HearNothing(d) PROVE Once'
  <2>1. ReadLanded' /\ ClaimStands'
    BY <1>5 DEF HearNothing, ReadLanded, ClaimStands
  <2>2. NotYetShown'
    BY <1>5 DEF HearNothing, NotYetShown, InHand
  <2>3. TwiceRecovered'
    BY <1>5 DEF HearNothing, TwiceRecovered
  <2> QED
    BY <2>1, <2>2, <2>3
<1>6. ASSUME NEW d \in Daemons, Hear(d) PROVE Once'
  <2>1. ReadLanded' /\ ClaimStands'
    BY <1>6, NextHeard DEF Hear, ReadLanded, ClaimStands
  <2>2. NotYetShown'
    BY <1>6, NextHeard DEF Hear, NotYetShown, InHand
  <2>3. TwiceRecovered'
    BY <1>6, NextHeard DEF Hear, TwiceRecovered
  <2> QED
    BY <2>1, <2>2, <2>3
<1>7. ASSUME NEW d \in Daemons, ListVictims(d) PROVE Once'
  <2>1. ReadLanded' /\ ClaimStands'
    BY <1>7 DEF ListVictims, Victims, ReadLanded, ClaimStands
  <2>2. NotYetShown'
    BY <1>7 DEF ListVictims, Victims, NotYetShown, InHand
  <2>3. TwiceRecovered'
    BY <1>7 DEF ListVictims, Victims, TwiceRecovered
  <2> QED
    BY <2>1, <2>2, <2>3
<1>8. ASSUME NEW d \in Daemons, Land(d) PROVE Once'
  <2>1. ReadLanded' /\ ClaimStands'
    BY <1>8 DEF Land, StartSweep, ReadLanded, ClaimStands
  <2>2. NotYetShown'
    BY <1>8 DEF Land, StartSweep, NotYetShown, InHand
  <2>3. TwiceRecovered'
    BY <1>8 DEF Land, StartSweep, TwiceRecovered
  <2> QED
    BY <2>1, <2>2, <2>3
<1>9. ASSUME NEW d \in Daemons, PutFails(d) PROVE Once'
  <2>1. ReadLanded' /\ ClaimStands'
    BY <1>9 DEF PutFails, MayFail, ReadLanded, ClaimStands
  <2>2. NotYetShown'
    BY <1>9 DEF PutFails, MayFail, NotYetShown, InHand
  <2>3. TwiceRecovered'
    BY <1>9 DEF PutFails, MayFail, TwiceRecovered
  <2> QED
    BY <2>1, <2>2, <2>3
<1>10. ASSUME NEW d \in Daemons, NEW m \in Mentions, Evict(d, m) PROVE Once'
  <2>1. ReadLanded' /\ ClaimStands'
    BY <1>10 DEF Evict, IsOldest, CanRename, ReadLanded, ClaimStands
  <2>2. NotYetShown'
    BY <1>10 DEF Evict, IsOldest, CanRename, NotYetShown, InHand
  <2>3. TwiceRecovered'
    BY <1>10 DEF Evict, IsOldest, CanRename, TwiceRecovered
  <2> QED
    BY <2>1, <2>2, <2>3
<1>11. ASSUME NEW r \in Readers, Scan(r) PROVE Once'
  <2>1. ReadLanded' /\ ClaimStands'
    BY <1>11 DEF Scan, ReadLanded, ClaimStands
  <2>2. NotYetShown'
    BY <1>11 DEF Scan, NotYetShown, InHand
  <2>3. TwiceRecovered'
    BY <1>11 DEF Scan, TwiceRecovered
  <2> QED
    BY <2>1, <2>2, <2>3
<1>12. ASSUME NEW r \in Readers, Poll(r) PROVE Once'
  <2>1. ReadLanded' /\ ClaimStands'
    BY <1>12 DEF Poll, ReadLanded, ClaimStands
  <2>2. NotYetShown'
    BY <1>12 DEF Poll, NotYetShown, InHand
  <2>3. TwiceRecovered'
    BY <1>12 DEF Poll, TwiceRecovered
  <2> QED
    BY <2>1, <2>2, <2>3
<1>13. ASSUME NEW r \in Readers, GiveUp(r) PROVE Once'
  <2>1. ReadLanded' /\ ClaimStands'
    BY <1>13 DEF GiveUp, Quit, ReadLanded, ClaimStands
  <2>2. NotYetShown'
    BY <1>13 DEF GiveUp, Quit, NotYetShown, InHand
  <2>3. TwiceRecovered'
    BY <1>13 DEF GiveUp, Quit, TwiceRecovered
  <2> QED
    BY <2>1, <2>2, <2>3
<1>14. ASSUME NEW r \in Readers, LoadOk(r) PROVE Once'
  <2>1. ReadLanded' /\ ClaimStands'
    BY <1>14 DEF LoadOk, ReadLanded, ClaimStands
  <2>2. NotYetShown'
    BY <1>14 DEF LoadOk, NotYetShown, InHand
  <2>3. TwiceRecovered'
    BY <1>14 DEF LoadOk, TwiceRecovered
  <2> QED
    BY <2>1, <2>2, <2>3
<1>15. ASSUME NEW r \in Readers, LoadFails(r) PROVE Once'
  <2>1. ReadLanded' /\ ClaimStands'
    BY <1>15 DEF LoadFails, ReadLanded, ClaimStands
  <2>2. NotYetShown'
    BY <1>15 DEF LoadFails, NotYetShown, InHand
  <2>3. TwiceRecovered'
    BY <1>15 DEF LoadFails, TwiceRecovered
  <2> QED
    BY <2>1, <2>2, <2>3
<1>16. ASSUME NEW r \in Readers, Show(r) PROVE Once'
  <2>1. ReadLanded' /\ ClaimStands'
    BY <1>16 DEF Show, Display, ReadLanded, ClaimStands
  <2>2. NotYetShown'
    <3>0. hand[r] \in Mentions /\ stamp[hand[r]] # 0
      BY <1>16 DEF Show, ReadLanded
    <3>1. PICK h \in Mentions : h = hand[r] /\ stamp[h] # 0
      BY <3>0
    <3>2. h <= cursor
      BY <3>1 DEF Unheard
    <3>3. \A p \in Procs, m \in Mentions : InHand(p, m) => m # h
      BY <3>1 DEF HeldFresh
    <3>4. h \notin recovered => <<h, r>> \in processing
      BY <1>16, <3>1 DEF Show, ClaimStands
    <3>5. h \notin recovered => h \notin inbox
      BY <3>4 DEF OnePlace
    <3>6. \A s \in Readers : /\ h \notin recovered /\ hand[s] = h
                             /\ pc[s] \in {"load", "show"}
                             => s = r
      <4>1. \A s \in Readers : /\ h \notin recovered /\ hand[s] = h
                               /\ pc[s] \in {"load", "show"}
                               => <<h, s>> \in processing
        BY DEF ClaimStands
      <4> QED
        BY <3>4, <4>1 DEF OnePlace
    <3>7. shown' = shown \cup {h} /\ pc' = [pc EXCEPT ![r] = "ack"]
      BY <1>16, <3>1 DEF Show, Display
    <3>8. UNCHANGED <<hand, recovered, inbox, cursor>>
      BY <1>16 DEF Show
    <3>9. \A s \in Readers : pc'[s] \in {"load", "show"} /\ hand[s] \notin recovered
                               => hand[s] \notin shown'
      BY <3>6, <3>7 DEF NotYetShown
    <3>10. \A p \in Procs, m \in Mentions : InHand(p, m)' => InHand(p, m)
      BY <3>7, <3>8 DEF InHand
    <3> QED
      BY <3>2, <3>3, <3>5, <3>7, <3>8, <3>9, <3>10 DEF NotYetShown
  <2>3. TwiceRecovered'
    <3>1. hand[r] \in shown => hand[r] \in recovered
      BY <1>16 DEF Show, NotYetShown
    <3> QED
      BY <1>16, <3>1 DEF Show, Display, TwiceRecovered
  <2> QED
    BY <2>1, <2>2, <2>3
<1>17. ASSUME NEW r \in Readers, Ack(r) PROVE Once'
  <2>1. ReadLanded' /\ ClaimStands'
    BY <1>17 DEF Ack, Quit, ReadLanded, ClaimStands
  <2>2. NotYetShown'
    BY <1>17 DEF Ack, Quit, NotYetShown, InHand
  <2>3. TwiceRecovered'
    BY <1>17 DEF Ack, Quit, TwiceRecovered
  <2> QED
    BY <2>1, <2>2, <2>3
<1>18. ASSUME NEW r \in Readers, AskHears(r) PROVE Once'
  <2>1. ReadLanded' /\ ClaimStands'
    BY <1>18, NextHeard DEF AskHears, ReadLanded, ClaimStands
  <2>2. NotYetShown'
    BY <1>18, NextHeard DEF AskHears, NotYetShown, InHand
  <2>3. TwiceRecovered'
    BY <1>18, NextHeard DEF AskHears, TwiceRecovered
  <2> QED
    BY <2>1, <2>2, <2>3
<1>19. ASSUME NEW r \in Readers, AskHearsNothing(r) PROVE Once'
  <2>1. ReadLanded' /\ ClaimStands'
    BY <1>19 DEF AskHearsNothing, Quit, ReadLanded, ClaimStands
  <2>2. NotYetShown'
    BY <1>19 DEF AskHearsNothing, Quit, NotYetShown, InHand
  <2>3. TwiceRecovered'
    BY <1>19 DEF AskHearsNothing, Quit, TwiceRecovered
  <2> QED
    BY <2>1, <2>2, <2>3
<1>20. ASSUME NEW r \in Readers, Tell(r) PROVE Once'
  <2>1. ReadLanded' /\ ClaimStands'
    BY <1>20 DEF Tell, Display, Quit, ReadLanded, ClaimStands
  <2>2. NotYetShown'
    <3>1. PICK h \in Mentions : h = hand[r] /\ InHand(r, h) /\ r \in Procs
      BY <1>20 DEF Tell, InHand
    <3>2. h <= cursor /\ stamp[h] = 0
      BY <3>1 DEF HeldFresh
    <3>3. h \notin inbox
      BY <3>2 DEF DiskLanded, OnDisk
    <3>4. \A s \in Readers : pc[s] \in {"load", "show"} => hand[s] # h
      BY <3>2 DEF ReadLanded
    <3>5. \A p \in Procs, m \in Mentions : InHand(p, m)' => InHand(p, m) /\ p # r
      BY <1>20 DEF Tell, Quit, InHand
    <3>6. \A p \in Procs, m \in Mentions : InHand(p, m)' => m # h
      BY <3>1, <3>5 DEF OneHand
    <3>7. shown' = shown \cup {h}
      BY <1>20, <3>1 DEF Tell, Display
    <3>8. /\ pc' = [pc EXCEPT ![r] = "idle"] /\ hand' = [hand EXCEPT ![r] = 0]
          /\ UNCHANGED <<recovered, inbox, cursor>>
      BY <1>20 DEF Tell, Quit
    <3>9. \A s \in Readers : pc'[s] \in {"load", "show"} /\ hand'[s] \notin recovered
                               => hand'[s] \notin shown'
      BY <3>4, <3>7, <3>8 DEF NotYetShown
    <3> QED
      BY <3>2, <3>3, <3>5, <3>6, <3>7, <3>8, <3>9 DEF NotYetShown
  <2>3. TwiceRecovered'
    BY <1>20 DEF Tell, Display, Quit, TwiceRecovered, NotYetShown, InHand
  <2> QED
    BY <2>1, <2>2, <2>3
<1>21. ASSUME NEW r \in Readers, NEW m \in Mentions, Claim(r, m) PROVE Once'
  <2>1. ReadLanded' /\ ClaimStands'
    <3>1. stamp[m] # 0
      BY <1>21 DEF Claim, CanRename, DiskLanded, OnDisk
    <3>2. ReadLanded'
      BY <1>21, <3>1 DEF Claim, ReadLanded
    <3>3. ClaimStands'
      BY <1>21 DEF Claim, ClaimStands
    <3> QED
      BY <3>2, <3>3
  <2>2. NotYetShown'
    BY <1>21 DEF Claim, IsOldest, CanRename, NotYetShown, InHand
  <2>3. TwiceRecovered'
    BY <1>21 DEF Claim, IsOldest, CanRename, TwiceRecovered
  <2> QED
    BY <2>1, <2>2, <2>3
<1>22. ASSUME NEW r \in Readers, NEW m \in Mentions, ClaimFails(r, m) PROVE Once'
  <2>1. ReadLanded' /\ ClaimStands'
    BY <1>22 DEF ClaimFails, IsOldest, CanRename, ReadLanded, ClaimStands
  <2>2. NotYetShown'
    BY <1>22 DEF ClaimFails, IsOldest, CanRename, NotYetShown, InHand
  <2>3. TwiceRecovered'
    BY <1>22 DEF ClaimFails, IsOldest, CanRename, TwiceRecovered
  <2> QED
    BY <2>1, <2>2, <2>3
<1>23. ASSUME NEW r \in Readers, NEW v \in Verbs, Start(r, v) PROVE Once'
  <2>1. ReadLanded' /\ ClaimStands'
    BY <1>23 DEF Start, StartSweep, ReadLanded, ClaimStands
  <2>2. NotYetShown'
    BY <1>23 DEF Start, StartSweep, NotYetShown, InHand
  <2>3. TwiceRecovered'
    BY <1>23 DEF Start, StartSweep, TwiceRecovered
  <2> QED
    BY <2>1, <2>2, <2>3
<1>24. ASSUME NEW p \in Procs, NEW f \in orphans[p], Recover(p, f) PROVE Once'
  <2>1. ReadLanded' /\ ClaimStands'
    BY <1>24 DEF Recover, SweepNext, ReadLanded, ClaimStands
  <2>2. NotYetShown'
    BY <1>24 DEF Recover, SweepNext, NotYetShown, InHand
  <2>3. TwiceRecovered'
    BY <1>24 DEF Recover, SweepNext, TwiceRecovered
  <2> QED
    BY <2>1, <2>2, <2>3
<1>25. ASSUME NEW p \in Procs, NEW f \in orphans[p], SkipOrphan(p, f) PROVE Once'
  <2>1. ReadLanded' /\ ClaimStands'
    BY <1>25 DEF SkipOrphan, SweepNext, ReadLanded, ClaimStands
  <2>2. NotYetShown'
    BY <1>25 DEF SkipOrphan, SweepNext, NotYetShown, InHand
  <2>3. TwiceRecovered'
    BY <1>25 DEF SkipOrphan, SweepNext, TwiceRecovered
  <2> QED
    BY <2>1, <2>2, <2>3
<1>26. ASSUME NEW m \in Mentions, Age(m) PROVE Once'
  <2>1. ReadLanded' /\ ClaimStands'
    BY <1>26 DEF Age, ReadLanded, ClaimStands
  <2>2. NotYetShown'
    BY <1>26 DEF Age, NotYetShown, InHand
  <2>3. TwiceRecovered'
    BY <1>26 DEF Age, TwiceRecovered
  <2> QED
    BY <2>1, <2>2, <2>3
<1>27. ASSUME NEW p \in Procs, Crash(p) PROVE Once'
  <2>1. ReadLanded' /\ ClaimStands'
    BY <1>27 DEF Crash, InHand, ReadLanded, ClaimStands
  <2>2. NotYetShown'
    BY <1>27 DEF Crash, InHand, NotYetShown
  <2>3. TwiceRecovered'
    BY <1>27 DEF Crash, InHand, TwiceRecovered
  <2> QED
    BY <2>1, <2>2, <2>3
<1>28. CASE UNCHANGED vars
  BY <1>28 DEF vars, ReadLanded, ClaimStands, NotYetShown, TwiceRecovered, InHand
<1>29. ASSUME NEW d \in Daemons, Stamp(d) PROVE Once'
  BY <1>29 DEF Stamp, ReadLanded, ClaimStands, NotYetShown, TwiceRecovered, InHand
<1> QED
  BY <1>1, <1>2, <1>3, <1>4, <1>5, <1>6, <1>7, <1>8, <1>9, <1>10, <1>11, <1>12, <1>13,
     <1>14, <1>15, <1>16, <1>17, <1>18, <1>19, <1>20, <1>21, <1>22, <1>23, <1>24,
     <1>25, <1>26, <1>27, <1>28, <1>29
  DEF Next, DaemonStep, ReaderStep, SweepStep

(* No state of Spec breaks that either.                                     *)
LEMMA OnceAlways == Spec => []Once
<1>1. Init => Once
  BY MentionsNat
  DEF Init, Once, ReadLanded, ClaimStands, NotYetShown, TwiceRecovered,
     InHand, Procs
<1> QED
  BY <1>1, OnceStep, KeptAlways, PTL DEF Spec
-----------------------------------------------------------------------------
(* The order that makes capture durable.  Only two steps move BCT's cursor.  *)
LEMMA CursorMoves ==
  ASSUME [Next]_vars, cursor' # cursor
  PROVE  (\E d \in Daemons : Hear(d)) \/ (\E r \in Readers : AskHears(r))
BY DEF Next, DaemonStep, ReaderStep, SweepStep, vars, room,
       Spawn, Exit, Retry, Pass, HearNothing, ListVictims, Evict, Stamp, Land, PutFails,
       Start, Scan, Claim, ClaimFails, Poll, GiveUp, LoadOk, LoadFails, Show, Ack,
       AskHearsNothing, Tell, Recover, SkipOrphan, SweepNext, Age, Crash

(* A single daemon never listens with an earlier mention still in memory.   *)
THEOREM SoleDaemonLandsFirst ==
  ASSUME \A d, e \in Daemons : d = e
  PROVE  Spec => LandedBeforeListen
<1>1. ASSUME Kept, [Next]_vars
      PROVE  [\A d \in Daemons : hand'[d] = cursor' /\ cursor' > cursor
                => \A e \in Daemons : hand[e] = 0]_vars
  <2> SUFFICES ASSUME NEW d \in Daemons, hand'[d] = cursor', cursor' > cursor
               PROVE  \A e \in Daemons : hand[e] = 0
    OBVIOUS
  <2>1. (\E e \in Daemons : Hear(e)) \/ (\E r \in Readers : AskHears(r))
    BY <1>1, CursorMoves DEF Kept, Typed, TypeOK
  <2>2. ASSUME NEW e \in Daemons, Hear(e) PROVE hand[e] = 0
    BY <1>1, <2>2 DEF Hear, At, Kept, Typed, HandOK
  <2>3. ASSUME NEW r \in Readers, AskHears(r) PROVE FALSE
    <3>1. hand[d] = cursor + 1
      BY <1>1, <2>3, InboxAssumption DEF AskHears, Kept, Typed, TypeOK, Procs
    <3>2. cursor + 1 \in Mentions
      BY <1>1, <2>3, NextHeard DEF AskHears, Kept, Typed
    <3>3. InHand(d, cursor + 1) /\ d \in Procs
      BY <3>1 DEF InHand, Procs
    <3>4. cursor + 1 <= cursor
      BY <1>1, <3>2, <3>3 DEF Kept, HeldFresh
    <3> QED
      BY <1>1, <3>4 DEF Kept, Typed, TypeOK
  <2> QED
    BY <2>1, <2>2, <2>3
<1> QED
  BY <1>1, KeptAlways, PTL DEF Spec, LandedBeforeListen
-----------------------------------------------------------------------------
(* Most steps are quiet: they move a process on and no mention.             *)
Quiet ==
  /\ UNCHANGED <<inbox, processing, stamp, cursor, shown, evicted, lost, recovered>>
  /\ \A p \in Procs, m \in Mentions : InHand(p, m)' <=> InHand(p, m)

LEMMA QuietDaemon ==
  ASSUME Typed, NEW d \in Daemons,
         \/ Spawn(d) \/ Retry(d) \/ Pass(d) \/ HearNothing(d) \/ ListVictims(d)
         \/ Stamp(d) \/ PutFails(d)
  PROVE  Quiet
BY InboxAssumption
DEF Typed, TypeOK, HandOK, Procs, DaemonPC, ReaderPC, Quiet, InHand, At, Goto, disk,
    local, put, room, history, StartSweep,
    Spawn, Retry, Pass, HearNothing, ListVictims, Stamp, PutFails

LEMMA QuietReader ==
  ASSUME Typed, NEW r \in Readers,
         \/ Scan(r) \/ Poll(r) \/ GiveUp(r) \/ LoadOk(r) \/ LoadFails(r)
         \/ AskHearsNothing(r)
         \/ \E v \in Verbs : Start(r, v)
         \/ \E m \in Mentions : ClaimFails(r, m)
  PROVE  Quiet
<1>1. CASE Scan(r) \/ Poll(r) \/ GiveUp(r) \/ LoadOk(r)
  BY <1>1, InboxAssumption
  DEF Typed, TypeOK, HandOK, Procs, DaemonPC, ReaderPC, Quiet, InHand, At, Goto, disk,
      local, put, room, history, Quit, Scan, Poll, GiveUp, LoadOk
<1>2. CASE LoadFails(r) \/ AskHearsNothing(r) \/ \E m \in Mentions : ClaimFails(r, m)
  BY <1>2, InboxAssumption, MentionsNat
  DEF Typed, TypeOK, HandOK, Procs, DaemonPC, ReaderPC, Quiet, InHand, At, Goto, disk,
      local, put, room, history, Quit, LoadFails, AskHearsNothing, ClaimFails
<1>3. CASE \E v \in Verbs : Start(r, v)
  BY <1>3, InboxAssumption
  DEF Typed, TypeOK, HandOK, Procs, DaemonPC, ReaderPC, Quiet, InHand, At, Goto, disk,
      local, put, room, history, Start
<1> QED
  BY <1>1, <1>2, <1>3

(* The steps that are not: one mention changes its place in each.           *)
Busy ==
  \/ \E d \in Daemons : Exit(d) \/ Hear(d) \/ Land(d) \/ \E m \in Mentions : Evict(d, m)
  \/ \E r \in Readers : \/ Show(r) \/ Ack(r) \/ AskHears(r) \/ Tell(r)
                        \/ \E m \in Mentions : Claim(r, m)
  \/ \E p \in Procs : Crash(p) \/ \E f \in orphans[p] : Recover(p, f)

LEMMA QuietOrBusy == Typed /\ [Next]_vars => Quiet \/ Busy
<1> SUFFICES ASSUME Typed, [Next]_vars, ~ Busy PROVE Quiet
  OBVIOUS
<1>1. ASSUME NEW p \in Procs, NEW f \in orphans[p], SkipOrphan(p, f) PROVE Quiet
  BY <1>1 DEF SkipOrphan, SweepNext, Quiet, InHand, room
<1>2. ASSUME NEW m \in Mentions, Age(m) PROVE Quiet
  BY <1>2 DEF Age, Quiet, InHand, local, room, history
<1>3. CASE UNCHANGED vars
  BY <1>3 DEF vars, Quiet, InHand, disk, local, put, room, history
<1> QED
  BY <1>1, <1>2, <1>3, QuietDaemon, QuietReader
  DEF Next, DaemonStep, ReaderStep, SweepStep, Busy, Procs

(* What a busy step does to its mention, whoever takes it.                  *)
Held(m)  == \E p \in Procs : InHand(p, m)
LetsGo(m) == /\ Held(m)
             /\ \A n \in Mentions : Held(n)' <=> Held(n) /\ n # m
SameHands == \A n \in Mentions : Held(n)' <=> Held(n)

Takes(m)   == /\ m = cursor + 1 /\ cursor' = m
              /\ \A n \in Mentions : Held(n)' <=> Held(n) \/ n = m
              /\ UNCHANGED <<inbox, processing, stamp, shown, evicted, lost, recovered>>
Loses(m)   == /\ LetsGo(m) /\ lost' = lost \cup {m}
              /\ UNCHANGED <<inbox, processing, stamp, cursor, shown, evicted, recovered>>
Lands(m)   == /\ LetsGo(m)
              /\ inbox' = inbox \cup {m} /\ Arrives(m)
              /\ \E d \in Daemons : Land(d) /\ stamp' = [stamp EXCEPT ![m] = path[d]]
              /\ UNCHANGED <<processing, cursor, shown, evicted, lost, recovered>>
Tells(m)   == /\ LetsGo(m) /\ shown' = shown \cup {m}
              /\ UNCHANGED <<inbox, processing, stamp, cursor, evicted, lost, recovered>>
Evicts(m)  == /\ \E d \in Daemons : m \in names[d]
              /\ m \in inbox /\ inbox' = inbox \ {m} /\ evicted' = evicted \cup {m}
              /\ SameHands
              /\ UNCHANGED <<processing, stamp, cursor, shown, lost, recovered>>
Claims(m)  == /\ m \in inbox /\ inbox' = inbox \ {m}
              /\ \E r \in Readers : /\ IsOldest(m, names[r])
                                   /\ processing' = processing \cup {<<m, r>>}
              /\ SameHands
              /\ UNCHANGED <<stamp, cursor, shown, evicted, lost, recovered>>
Returns(m) == /\ inbox' = inbox \cup {m} /\ recovered' = recovered \cup {m} /\ Arrives(m)
              /\ \E r \in Readers : /\ <<m, r>> \in processing
                                   /\ processing' = processing \ {<<m, r>>}
              /\ SameHands /\ UNCHANGED <<stamp, cursor, shown, evicted, lost>>
Acks(m)    == /\ m \in shown
              /\ \E r \in Readers : /\ <<m, r>> \in processing
                                   /\ processing' = processing \ {<<m, r>>}
              /\ SameHands
              /\ UNCHANGED <<inbox, stamp, cursor, shown, evicted, lost, recovered>>
Shows(m)   == /\ stamp[m] # 0 /\ shown' = shown \cup {m}
              /\ \E r \in Readers : pc[r] = "show" /\ hand[r] = m
              /\ SameHands
              /\ UNCHANGED <<inbox, processing, stamp, cursor, evicted, lost, recovered>>
Still      == /\ SameHands
              /\ UNCHANGED <<inbox, processing, stamp, cursor, shown, evicted, lost,
                             recovered>>

MentionMoves(m) ==
  \/ Takes(m) \/ Loses(m) \/ Lands(m) \/ Tells(m) \/ Evicts(m)
  \/ Claims(m) \/ Returns(m) \/ Acks(m) \/ Shows(m)

LEMMA HandsAlike ==
  ASSUME Typed, hand' = hand,
         \A r \in Readers : pc[r] = "tell" <=> pc'[r] = "tell"
  PROVE  SameHands
<1>1. \A p \in Procs, n \in Mentions : InHand(p, n)' <=> InHand(p, n)
  BY DEF InHand, Procs
<1> QED
  BY <1>1 DEF SameHands, Held

LEMMA HandsTake ==
  ASSUME Typed, NEW p \in Procs, NEW m \in Mentions, hand[p] = 0,
         hand' = [hand EXCEPT ![p] = m], p \in Daemons \/ pc'[p] = "tell",
         \A q \in Procs \ {p} : pc'[q] = pc[q]
  PROVE  \A n \in Mentions : Held(n)' <=> Held(n) \/ n = m
<1>1. \A q \in Procs, n \in Mentions :
         InHand(q, n)' <=> IF q = p THEN n = m ELSE InHand(q, n)
  BY DEF InHand, Typed, TypeOK
<1>2. \A n \in Mentions : ~ InHand(p, n)
  BY MentionsNat DEF InHand
<1> QED
  BY <1>1, <1>2 DEF Held

LEMMA HandsLetGo ==
  ASSUME Typed, OneHand, NEW p \in Procs, NEW m \in Mentions, InHand(p, m),
         hand' = [hand EXCEPT ![p] = 0], \A q \in Procs \ {p} : pc'[q] = pc[q]
  PROVE  LetsGo(m)
<1>1. \A q \in Procs, n \in Mentions : InHand(q, n)' <=> InHand(q, n) /\ q # p
  BY MentionsNat DEF InHand, Typed, TypeOK
<1>2. \A n \in Mentions : InHand(p, n) <=> n = m
  BY DEF InHand
<1>3. \A q \in Procs : InHand(q, m) => q = p
  BY DEF OneHand
<1> QED
  BY <1>1, <1>2, <1>3 DEF LetsGo, Held

(* Every step moves at most one mention.                                    *)
LEMMA OneMove == ASSUME Kept, ReadLanded, [Next]_vars
                 PROVE  Still \/ \E m \in Mentions : MentionMoves(m)
<1> USE DEF Kept, Typed, Procs, At, Goto, disk, local, put, room, history
<1>1. CASE Quiet
  BY <1>1 DEF Quiet, Still, SameHands, Held
<1>2. ASSUME NEW d \in Daemons, Exit(d)
      PROVE  Still \/ \E m \in Mentions : Loses(m)
  <2>1. CASE hand[d] = 0
    <3>1. hand' = hand
      BY <1>2, <2>1 DEF Exit, TypeOK
    <3>2. \A r \in Readers : pc'[r] = pc[r]
      BY <1>2, InboxAssumption DEF Exit, TypeOK
    <3> QED
      BY <1>2, <2>1, <3>1, <3>2, HandsAlike DEF Exit, Still
  <2>2. CASE hand[d] # 0
    <3>1. hand[d] \in Mentions /\ InHand(d, hand[d])
      BY <2>2 DEF TypeOK, InHand
    <3>2. LetsGo(hand[d])
      BY <1>2, <3>1, HandsLetGo DEF Exit, TypeOK
    <3> QED
      BY <1>2, <2>2, <3>1, <3>2 DEF Exit, Loses
  <2> QED
    BY <2>1, <2>2
<1>3. ASSUME NEW d \in Daemons, Hear(d)
      PROVE  \E m \in Mentions : Takes(m)
  <2>1. cursor + 1 \in Mentions /\ hand[d] = 0
    BY <1>3, NextHeard DEF Hear, HandOK
  <2>2. \A n \in Mentions : Held(n)' <=> Held(n) \/ n = cursor + 1
    BY <1>3, <2>1, HandsTake DEF Hear, TypeOK
  <2> QED
    BY <1>3, <2>1, <2>2 DEF Hear, Takes
<1>4. ASSUME NEW d \in Daemons, Land(d)
      PROVE  \E m \in Mentions : Lands(m)
  <2>1. hand[d] \in Mentions /\ InHand(d, hand[d])
    BY <1>4 DEF Land, TypeOK, HandOK, InHand
  <2>2. LetsGo(hand[d])
    BY <1>4, <2>1, HandsLetGo DEF Land, TypeOK
  <2> QED
    BY <1>4, <2>1, <2>2 DEF Land, Lands
<1>5. ASSUME NEW d \in Daemons, NEW m \in Mentions, Evict(d, m)
      PROVE  Still \/ Evicts(m)
  <2>1. SameHands
    BY <1>5, HandsAlike DEF Evict
  <2> QED
    BY <1>5, <2>1 DEF Evict, IsOldest, CanRename, Still, Evicts
<1>6. ASSUME NEW r \in Readers, Show(r)
      PROVE  \E m \in Mentions : Shows(m)
  <2>1. hand[r] \in Mentions /\ stamp[hand[r]] # 0
    BY <1>6 DEF Show, TypeOK, HandOK, ReadLanded
  <2>2. SameHands
    BY <1>6, HandsAlike DEF Show, TypeOK
  <2> QED
    BY <1>6, <2>1, <2>2 DEF Show, Display, Shows
<1>7. ASSUME NEW r \in Readers, Ack(r)
      PROVE  Still \/ \E m \in Mentions : Acks(m)
  <2>1. hand[r] \in Mentions /\ hand[r] \in shown
    BY <1>7 DEF Ack, TypeOK, HandOK, AckShown
  <2>2. SameHands
    <3>1. \A q \in Procs, n \in Mentions : InHand(q, n)' <=> InHand(q, n)
      BY <1>7, <2>1, MentionsNat, InboxAssumption DEF Ack, Quit, InHand, TypeOK
    <3> QED
      BY <3>1 DEF SameHands, Held
  <2>3. CASE <<hand[r], r>> \in processing
    BY <1>7, <2>1, <2>2, <2>3 DEF Ack, Acks
  <2>4. CASE <<hand[r], r>> \notin processing
    BY <1>7, <2>2, <2>4 DEF Ack, Still
  <2> QED
    BY <2>3, <2>4
<1>8. ASSUME NEW r \in Readers, AskHears(r)
      PROVE  \E m \in Mentions : Takes(m)
  <2>1. cursor + 1 \in Mentions /\ hand[r] = 0
    BY <1>8, NextHeard DEF AskHears, HandOK
  <2>2. \A n \in Mentions : Held(n)' <=> Held(n) \/ n = cursor + 1
    BY <1>8, <2>1, HandsTake DEF AskHears, TypeOK
  <2> QED
    BY <1>8, <2>1, <2>2 DEF AskHears, Takes
<1>9. ASSUME NEW r \in Readers, Tell(r)
      PROVE  \E m \in Mentions : Tells(m)
  <2>1. hand[r] \in Mentions /\ InHand(r, hand[r])
    BY <1>9 DEF Tell, TypeOK, HandOK, InHand
  <2>2. LetsGo(hand[r])
    BY <1>9, <2>1, HandsLetGo DEF Tell, Quit, TypeOK
  <2> QED
    BY <1>9, <2>1, <2>2 DEF Tell, Display, Tells
<1>10. ASSUME NEW r \in Readers, NEW m \in Mentions, Claim(r, m)
       PROVE  Claims(m)
  <2>1. SameHands
    <3>1. \A q \in Procs, n \in Mentions : InHand(q, n)' <=> InHand(q, n)
      BY <1>10, InboxAssumption DEF Claim, InHand, TypeOK
    <3> QED
      BY <3>1 DEF SameHands, Held
  <2> QED
    BY <1>10, <2>1 DEF Claim, CanRename, Claims
<1>11. ASSUME NEW p \in Procs, Crash(p)
       PROVE  Still \/ \E m \in Mentions : Loses(m)
  <2>1. hand' = [hand EXCEPT ![p] = 0] /\ pc' = [pc EXCEPT ![p] = "idle"]
    BY <1>11 DEF Crash
  <2>2. CASE \E m \in Mentions : InHand(p, m)
    <3>1. PICK m \in Mentions : InHand(p, m)
      BY <2>2
    <3>2. LetsGo(m)
      BY <2>1, <3>1, HandsLetGo DEF TypeOK
    <3>3. lost' = lost \cup {m}
      BY <1>11, <3>1 DEF Crash, InHand
    <3> QED
      BY <1>11, <3>2, <3>3 DEF Crash, Loses
  <2>3. CASE \A m \in Mentions : ~ InHand(p, m)
    <3>1. \A q \in Procs, n \in Mentions : InHand(q, n)' <=> InHand(q, n)
      BY <2>1, <2>3, MentionsNat DEF InHand, TypeOK
    <3>2. lost' = lost
      BY <1>11, <2>3 DEF Crash
    <3> QED
      BY <1>11, <3>1, <3>2 DEF Crash, Still, SameHands, Held
  <2> QED
    BY <2>2, <2>3
<1>12. ASSUME NEW p \in Procs, NEW f \in orphans[p], Recover(p, f)
       PROVE  \E m \in Mentions : Returns(m)
  <2>1. PICK m \in Mentions, r \in Readers : f = <<m, r>>
    BY <1>12, PairOf DEF TypeOK
  <2>2. SameHands
    BY <1>12, HandsAlike DEF Recover, SweepNext
  <2> QED
    BY <1>12, <2>1, <2>2 DEF Recover, SweepNext, Returns
<1> QED
  BY <1>1, <1>2, <1>3, <1>4, <1>5, <1>6, <1>7, <1>8, <1>9, <1>10, <1>11, <1>12, QuietOrBusy
  DEF Busy, MentionMoves

(* The ends are final: what ended with its holder never landed and nobody    *)
(* holds it, what the cap threw away landed and is in no file.              *)
Ended == /\ \A m \in lost : stamp[m] = 0 /\ m <= cursor /\ ~ Held(m)
         /\ \A m \in evicted : stamp[m] # 0 /\ ~ OnDisk(m)

(* Kept, of mentions alone.                                                 *)
LEMMA Apart ==
  ASSUME Kept, NEW m \in Mentions
  PROVE  /\ Held(m) => m <= cursor /\ stamp[m] = 0
         /\ stamp[m] # 0 => m <= cursor /\ ~ Held(m)
         /\ OnDisk(m) => stamp[m] # 0
         /\ m \in inbox => OnDisk(m)
BY DEF Kept, HeldFresh, Unheard, DiskLanded, Held, OnDisk

LEMMA EndedStep == Kept /\ ReadLanded /\ Ended /\ [Next]_vars => Ended'
<1> SUFFICES ASSUME Kept, Ended, Still \/ \E m \in Mentions : MentionMoves(m)
             PROVE  Ended'
  BY OneMove
<1>1. /\ \A m \in Mentions : m \in lost => stamp[m] = 0 /\ m <= cursor /\ ~ Held(m)
      /\ \A m \in Mentions : m \in evicted => stamp[m] # 0 /\ ~ OnDisk(m)
      /\ lost \subseteq Mentions /\ evicted \subseteq Mentions /\ cursor \in Nat
  BY DEF Ended, Kept, Typed, TypeOK
<1>2. CASE Still
  BY <1>1, <1>2 DEF Still, SameHands, OnDisk, Ended
<1>3. ASSUME NEW m \in Mentions, MentionMoves(m) PROVE Ended'
  <2>1. CASE Takes(m)
    <3>1. \A n \in Mentions : n <= cursor => n <= cursor' /\ n # m
      BY <1>1, <2>1, MentionsNat DEF Takes
    <3> QED
      BY <1>1, <2>1, <3>1 DEF Takes, OnDisk, Ended
  <2>2. CASE Loses(m)
    BY <1>1, <2>2, Apart DEF Loses, LetsGo, OnDisk, Ended
  <2>3. CASE Lands(m)
    BY <1>1, <2>3, Apart DEF Lands, LetsGo, OnDisk, Ended
  <2>4. CASE Tells(m)
    BY <1>1, <2>4 DEF Tells, LetsGo, OnDisk, Ended
  <2>5. CASE Evicts(m)
    BY <1>1, <2>5, Apart DEF Evicts, SameHands, OnDisk, Ended, Kept, OnePlace
  <2>6. CASE Claims(m)
    BY <1>1, <2>6, Apart DEF Claims, SameHands, OnDisk, Ended
  <2>7. CASE Returns(m)
    BY <1>1, <2>7, Apart DEF Returns, SameHands, OnDisk, Ended
  <2>8. CASE Acks(m)
    BY <1>1, <2>8 DEF Acks, SameHands, OnDisk, Ended
  <2>9. CASE Shows(m)
    BY <1>1, <2>9 DEF Shows, SameHands, OnDisk, Ended
  <2> QED
    BY <1>3, <2>1, <2>2, <2>3, <2>4, <2>5, <2>6, <2>7, <2>8, <2>9 DEF MentionMoves
<1> QED
  BY <1>2, <1>3

(* A mention is where it was when nothing was done to it.                   *)
LEMMA SamePlace ==
  ASSUME NEW m \in Mentions, m <= cursor <=> m <= cursor', Held(m)' <=> Held(m),
         m \in inbox' <=> m \in inbox,
         \A r \in Readers : <<m, r>> \in processing' <=> <<m, r>> \in processing,
         m \in lost' <=> m \in lost, m \in evicted' <=> m \in evicted,
         cursor \in Nat, cursor' \in Nat
  PROVE  Place(m)' = Place(m)
<1>1. OnDisk(m)' <=> OnDisk(m)
  BY DEF OnDisk
<1> QED
  BY <1>1, MentionsNat DEF Place, Held

LEMMA PlaceMoves ==
  ASSUME NEW m \in Mentions, NEW from, NEW to,
         Place(m) = from, Place(m)' = to,
         \A n \in Mentions \ {m} : Place(n)' = Place(n)
  PROVE  Queue!Move(m, from, to)
BY DEF Queue!Move

(* Each step of the processes is a step of the promise.                     *)
LEMMA PromiseStep ==
  Kept /\ ReadLanded /\ Ended /\ [Next]_vars => [Queue!Next]_(Queue!vars)
<1> SUFFICES ASSUME Kept, Ended, Still \/ \E m \in Mentions : MentionMoves(m)
             PROVE  [Queue!Next]_(Queue!vars)
  BY OneMove
<1>1. cursor \in Nat /\ processing \subseteq Mentions \X Readers
  BY DEF Kept, Typed, TypeOK
<1>2. CASE Still
  <2>1. \A n \in Mentions : Place(n)' = Place(n)
    BY <1>1, <1>2, SamePlace DEF Still, SameHands
  <2> QED
    BY <1>2, <2>1 DEF Queue!vars, Still
<1>3. ASSUME NEW m \in Mentions, MentionMoves(m) PROVE Queue!Next
  <2> USE MentionsNat DEF Place
  <2>1. CASE Takes(m)
    <3>1. Place(m) = "room" /\ Place(m)' = "hand"
      BY <1>1, <2>1 DEF Takes, Held
    <3>2. \A n \in Mentions \ {m} : Place(n)' = Place(n)
      <4> SUFFICES ASSUME NEW n \in Mentions \ {m} PROVE Place(n)' = Place(n)
        OBVIOUS
      <4>1. n <= cursor <=> n <= cursor'
        BY <1>1, <2>1 DEF Takes
      <4> QED
        BY <1>1, <2>1, <4>1, SamePlace DEF Takes
    <3>3. Queue!Move(m, "room", "hand")
      BY <3>1, <3>2, PlaceMoves
    <3> QED
      BY <2>1, <3>3 DEF Takes, Queue!Next, Queue!Hear
  <2>2. CASE Loses(m)
    <3>1. Place(m) = "hand" /\ Place(m)' = "lost"
      BY <1>1, <2>2, Apart DEF Loses, LetsGo, Held, OnDisk
    <3>2. \A n \in Mentions \ {m} : Place(n)' = Place(n)
      BY <1>1, <2>2, SamePlace DEF Loses, LetsGo
    <3>3. Queue!Move(m, "hand", "lost")
      BY <3>1, <3>2, PlaceMoves
    <3> QED
      BY <2>2, <3>3 DEF Loses, Queue!Next, Queue!Lose
  <2>3. CASE Lands(m)
    <3>1. Place(m) = "hand" /\ Place(m)' = "queue"
      BY <1>1, <2>3, Apart DEF Lands, LetsGo, Held
    <3>2. \A n \in Mentions \ {m} : Place(n)' = Place(n)
      BY <1>1, <2>3, SamePlace DEF Lands, LetsGo
    <3>3. Queue!Move(m, "hand", "queue")
      BY <3>1, <3>2, PlaceMoves
    <3> QED
      BY <2>3, <3>3 DEF Lands, Queue!Next, Queue!Land
  <2>4. CASE Tells(m)
    <3>1. Place(m) = "hand" /\ Place(m)' = "done"
      <4>1. Held(m) /\ ~ Held(m)' /\ m <= cursor /\ stamp[m] = 0 /\ ~ OnDisk(m) /\ m \notin inbox
        BY <2>4, Apart DEF Tells, LetsGo
      <4>2. m \notin lost /\ m \notin evicted
        BY <4>1 DEF Ended
      <4>3. ~ OnDisk(m)'
        BY <2>4, <4>1 DEF Tells, OnDisk
      <4> QED
        BY <1>1, <2>4, <4>1, <4>2, <4>3 DEF Tells, Held
    <3>2. \A n \in Mentions \ {m} : Place(n)' = Place(n)
      BY <1>1, <2>4, SamePlace DEF Tells, LetsGo
    <3>3. Queue!Move(m, "hand", "done")
      BY <3>1, <3>2, PlaceMoves
    <3> QED
      BY <2>4, <3>3 DEF Tells, Queue!Next, Queue!Tell
  <2>5. CASE Evicts(m)
    <3>1. Place(m) = "queue" /\ Place(m)' = "dropped"
      <4>1. ~ OnDisk(m)'
        BY <2>5 DEF Evicts, OnDisk, Kept, OnePlace
      <4>2. m <= cursor /\ OnDisk(m) /\ ~ Held(m) /\ ~ Held(m)' /\ m \notin lost
        BY <2>5, Apart DEF Evicts, SameHands, OnDisk, Ended
      <4> QED
        BY <1>1, <2>5, <4>1, <4>2 DEF Evicts, Held, OnDisk
    <3>2. \A n \in Mentions \ {m} : Place(n)' = Place(n)
      BY <1>1, <2>5, SamePlace DEF Evicts, SameHands
    <3>3. Queue!Move(m, "queue", "dropped")
      BY <3>1, <3>2, PlaceMoves
    <3> QED
      BY <2>5, <3>3 DEF Evicts, Queue!Next, Queue!Drop
  <2>6. CASE Claims(m)
    <3>1. Place(m) = "queue" /\ Place(m)' = "out"
      BY <1>1, <2>6, Apart DEF Claims, SameHands, Held, OnDisk
    <3>2. \A n \in Mentions \ {m} : Place(n)' = Place(n)
      BY <1>1, <2>6, SamePlace DEF Claims, SameHands
    <3>3. Queue!Move(m, "queue", "out")
      BY <3>1, <3>2, PlaceMoves
    <3> QED
      BY <2>6, <3>3 DEF Claims, Queue!Next, Queue!Claim
  <2>7. CASE Returns(m)
    <3>1. Place(m) = "out" /\ Place(m)' = "queue"
      BY <1>1, <2>7, Apart DEF Returns, SameHands, Held, OnDisk, Kept, OnePlace
    <3>2. \A n \in Mentions \ {m} : Place(n)' = Place(n)
      BY <1>1, <2>7, SamePlace DEF Returns, SameHands
    <3>3. Queue!Move(m, "out", "queue")
      BY <3>1, <3>2, PlaceMoves
    <3> QED
      BY <2>7, <3>3 DEF Returns, Queue!Next, Queue!Return
  <2>8. CASE Acks(m)
    <3>1. Place(m) = "out" /\ Place(m)' = "done"
      <4>1. ~ OnDisk(m)'
        BY <2>8 DEF Acks, OnDisk, Kept, OnePlace
      <4>2. m <= cursor /\ OnDisk(m) /\ ~ Held(m) /\ ~ Held(m)' /\ m \notin lost
        BY <2>8, Apart DEF Acks, SameHands, OnDisk, Ended
      <4>3. m \notin inbox /\ m \notin evicted
        BY <2>8, <4>2 DEF Acks, Ended, Kept, OnePlace
      <4> QED
        BY <1>1, <2>8, <4>1, <4>2, <4>3 DEF Acks, Held
    <3>2. \A n \in Mentions \ {m} : Place(n)' = Place(n)
      BY <1>1, <2>8, SamePlace DEF Acks, SameHands
    <3>3. Queue!Move(m, "out", "done")
      BY <3>1, <3>2, PlaceMoves
    <3> QED
      BY <2>8, <3>3 DEF Acks, Queue!Next, Queue!Finish
  <2>9. CASE Shows(m)
    <3>1. Place(m) \in {"queue", "out", "done", "dropped"}
      BY <1>1, Apart, <2>9 DEF Shows, Held, OnDisk, Ended
    <3>2. \A n \in Mentions : Place(n)' = Place(n)
      BY <1>1, <2>9, SamePlace DEF Shows, SameHands
    <3> QED
      BY <2>9, <3>1, <3>2 DEF Shows, Queue!Next, Queue!Show
  <2> QED
    BY <1>3, <2>1, <2>2, <2>3, <2>4, <2>5, <2>6, <2>7, <2>8, <2>9 DEF MentionMoves
<1> QED
  BY <1>2, <1>3

(* The client keeps the promise of MentionQueue: a mention is at one place   *)
(* at a time and moves only along its edges, whoever runs, stalls or dies.  *)
THEOREM PromiseIsKept == Spec => KeepsPromise
<1>1. Init => Queue!Init /\ ReadLanded /\ Ended
  <2> SUFFICES ASSUME Init PROVE Queue!Init /\ ReadLanded /\ Ended
    OBVIOUS
  <2>1. \A m \in Mentions : Place(m) = "room"
    BY InboxAssumption DEF Init, Place, Mentions
  <2> QED
    BY <2>1 DEF Init, Queue!Init, ReadLanded, Ended, Procs
<1>2. Kept /\ Once /\ Ended /\ [Next]_vars => Ended' /\ [Queue!Next]_(Queue!vars)
  BY EndedStep, PromiseStep DEF Once
<1> QED
  BY <1>1, <1>2, KeptAlways, OnceAlways, PTL DEF Spec, KeepsPromise, Queue!Spec
(* What the cap threw away nobody prints, and what was printed it does not    *)
(* count, but for what a sweep put back.                                    *)
DroppedUnshown == shown \cap evicted \subseteq recovered

LEMMA DroppedStep == Kept /\ Once /\ Ended /\ DroppedUnshown /\ [Next]_vars => DroppedUnshown'
<1> SUFFICES ASSUME Kept, Once, Ended, DroppedUnshown,
                    Still \/ \E m \in Mentions : MentionMoves(m)
             PROVE  DroppedUnshown'
  BY OneMove DEF Once
<1>1. CASE Still
  BY <1>1 DEF Still, DroppedUnshown
<1>2. ASSUME NEW m \in Mentions, Evicts(m) PROVE DroppedUnshown'
  <2>1. m \in shown => m \in recovered
    BY <1>2 DEF Evicts, Once, NotYetShown
  <2> QED
    BY <1>2, <2>1 DEF Evicts, DroppedUnshown
<1>3. ASSUME NEW m \in Mentions, Shows(m) PROVE DroppedUnshown'
  <2>1. PICK r \in Readers : pc[r] = "show" /\ hand[r] = m
    BY <1>3 DEF Shows
  <2>2. m \notin recovered => OnDisk(m)
    BY <2>1 DEF Once, ClaimStands, OnDisk
  <2> QED
    BY <1>3, <2>2 DEF Shows, DroppedUnshown, Ended
<1>4. ASSUME NEW m \in Mentions, Tells(m) PROVE DroppedUnshown'
  <2>1. m \notin evicted
    BY <1>4, Apart DEF Tells, LetsGo, Ended
  <2> QED
    BY <1>4, <2>1 DEF Tells, DroppedUnshown
<1>5. ASSUME NEW m \in Mentions,
             \/ Takes(m) \/ Loses(m) \/ Lands(m) \/ Claims(m) \/ Returns(m) \/ Acks(m)
      PROVE  DroppedUnshown'
  BY <1>5 DEF Takes, Loses, Lands, Claims, Returns, Acks, DroppedUnshown
<1> QED
  BY <1>1, <1>2, <1>3, <1>4, <1>5 DEF MentionMoves

(* Without an orphan sweep nothing is printed twice, nor printed and counted *)
(* as dropped.                                                              *)
THEOREM OnlySweepsDuplicate == Spec => []DuplicatesAreRecovered
<1>1. Init => Ended /\ DroppedUnshown
  BY DEF Init, Ended, DroppedUnshown
<1>2. Kept /\ Once /\ Ended /\ DroppedUnshown /\ [Next]_vars => Ended' /\ DroppedUnshown'
  BY EndedStep, DroppedStep DEF Once
<1>3. Once /\ DroppedUnshown => DuplicatesAreRecovered
  BY DEF Once, TwiceRecovered, DroppedUnshown, DuplicatesAreRecovered
<1> QED
  BY <1>1, <1>2, <1>3, KeptAlways, OnceAlways, PTL DEF Spec
-----------------------------------------------------------------------------
(* The cap.  A listing is worked off from its oldest name, and a name leaves *)
(* it only once its file has left inbox/ (renamed by us or by somebody       *)
(* else), or with the process.                                              *)
Listing(p) ==
  \/ names'[p] = names[p]
  \/ names'[p] = {} /\ pc'[p] \in {"idle", "show"}
  \/ \E m \in names[p] : m \notin inbox' /\ names'[p] = names[p] \ {m}
  \/ ListVictims(p) /\ p \in Daemons /\ names'[p] = Victims(inbox)
  \/ Scan(p) /\ p \in Readers /\ names'[p] = inbox

LEMMA Listings == Typed /\ [Next]_vars => \A p \in Procs : Listing(p)
<1> SUFFICES ASSUME Typed, [Next]_vars PROVE \A p \in Procs : Listing(p)
  OBVIOUS
<1> USE DEF Typed, TypeOK, Procs, At, Goto, disk, local, put, room, history
<1>1. CASE names' = names
  BY <1>1 DEF Listing
<1>2. ASSUME NEW d \in Daemons, ListVictims(d) PROVE \A p \in Procs : Listing(p)
  BY <1>2 DEF ListVictims, Listing
<1>3. ASSUME NEW d \in Daemons, NEW m \in Mentions, Evict(d, m)
      PROVE  \A p \in Procs : Listing(p)
  BY <1>3 DEF Evict, IsOldest, Listing
<1>4. ASSUME NEW r \in Readers, Scan(r) PROVE \A p \in Procs : Listing(p)
  BY <1>4 DEF Scan, Listing
<1>5. ASSUME NEW r \in Readers, NEW m \in Mentions, Claim(r, m) \/ ClaimFails(r, m)
      PROVE  \A p \in Procs : Listing(p)
  BY <1>5 DEF Claim, ClaimFails, CanRename, IsOldest, Listing
<1>6. ASSUME NEW r \in Readers, LoadOk(r) PROVE \A p \in Procs : Listing(p)
  BY <1>6 DEF LoadOk, Listing
<1>7. ASSUME NEW p \in Procs, Crash(p) PROVE \A q \in Procs : Listing(q)
  BY <1>7 DEF Crash, Listing
<1> QED
  BY <1>1, <1>2, <1>3, <1>4, <1>5, <1>6, <1>7
  DEF Next, DaemonStep, ReaderStep, SweepStep, vars, Spawn, Exit, Retry, Pass, HearNothing,
      Hear, Stamp, Land, PutFails, Poll, GiveUp, LoadFails, Show, Ack, AskHears, AskHearsNothing,
      Tell, Start, Recover, SkipOrphan, SweepNext, Age

(* A time is given to one put alone, so times order the landed mentions.     *)
StampsApart ==
  /\ \A m, n \in Mentions : stamp[m] = stamp[n] /\ stamp[m] # 0 => m = n
  /\ \A d \in Daemons, m \in Mentions : path[d] # 0 => stamp[m] # path[d]
  /\ \A d, e \in Daemons : path[d] = path[e] /\ path[d] # 0 => d = e

Younger(m) == {n \in Mentions : stamp[n] > stamp[m]}

(* What a listing says for good: every victim of the cap has landed and has  *)
(* INBOX_CAP - 1 younger mentions; a reader's listing has every file that is *)
(* older than one of its names, but for what has come in since.              *)
Outlived(m) == stamp[m] # 0 /\ Cardinality(Younger(m)) >= Cap - 1

VictimsOutlived == /\ \A d \in Daemons : \A m \in names[d] : Outlived(m)
                   /\ \A m \in evicted : Outlived(m)

OlderListed == \A r \in Readers : \A m \in names[r] :
                 /\ stamp[m] # 0
                 /\ \A n \in inbox \ arrived[r] : stamp[n] < stamp[m] => n \in names[r]

Ordered == StampsApart /\ VictimsOutlived /\ OlderListed

LEMMA FiniteMentions == /\ IsFiniteSet(Mentions)
                        /\ \A S \in SUBSET Mentions : /\ IsFiniteSet(S)
                                                      /\ Cardinality(S) \in Nat
                        /\ \A S, T \in SUBSET Mentions :
                              S \subseteq T => Cardinality(S) <= Cardinality(T)
<1>1. IsFiniteSet(Mentions)
  BY InboxAssumption, FS_Interval DEF Mentions
<1>2. \A S \in SUBSET Mentions : IsFiniteSet(S) /\ Cardinality(S) \in Nat
  BY <1>1, FS_Subset, FS_CardinalityType
<1> QED
  BY <1>1, <1>2, FS_Subset

LEMMA OnceOutlived ==
  ASSUME Typed, StampsApart, Still \/ \E m \in Mentions : MentionMoves(m),
         \A h \in Mentions : Lands(h) => stamp[h] = 0,
         NEW m \in Mentions, Outlived(m)
  PROVE  Outlived(m)'
<1>1. \A n \in Mentions : stamp'[n] = stamp[n] \/ stamp[n] = 0
  BY DEF MentionMoves, Still, Takes, Loses, Lands, Tells, Evicts, Claims, Returns, Acks,
         Shows, Typed, TypeOK
<1>2. stamp'[m] = stamp[m]
  BY <1>1 DEF Outlived
<1>3. Younger(m) \subseteq Younger(m)'
  BY <1>1, <1>2 DEF Younger, StampsApart, Typed, TypeOK, Outlived
<1>4. Cardinality(Younger(m)) <= Cardinality(Younger(m)')
  BY <1>3, FiniteMentions DEF Younger
<1>5. /\ Cardinality(Younger(m)) \in Nat /\ Cardinality(Younger(m)') \in Nat
  BY FiniteMentions DEF Younger
<1>6. Cardinality(Younger(m))' = Cardinality(Younger(m)')
  OBVIOUS
<1> QED
  BY <1>2, <1>4, <1>5, <1>6, InboxAssumption DEF Outlived

(* What a move does to the disk, without saying which move it is.           *)
LEMMA DiskSteps ==
  ASSUME Kept, Still \/ \E m \in Mentions : MentionMoves(m)
  PROVE  /\ \A n \in Mentions : stamp'[n] = stamp[n] \/ (stamp[n] = 0 /\ Lands(n))
         /\ \A n \in Mentions : Lands(n) => stamp[n] = 0
         /\ \A n \in inbox' : n \in inbox \/ Arrives(n)
         /\ \A n \in inbox' \ recovered' : n \in inbox \ recovered \/ Lands(n)
         /\ \A n \in evicted' : n \in evicted \/ \E d \in Daemons : n \in names[d]
<1>1. \A n \in Mentions : Lands(n) => stamp[n] = 0
  BY Apart DEF Lands, LetsGo
<1>2. CASE Still
  BY <1>1, <1>2 DEF Still
<1>3. ASSUME NEW m \in Mentions, Lands(m)
      PROVE  /\ \A n \in Mentions : n # m => stamp'[n] = stamp[n]
             /\ recovered' = recovered /\ evicted' = evicted
             /\ inbox' = inbox \cup {m} /\ Arrives(m)
  BY <1>3 DEF Lands, Kept, Typed, TypeOK
<1>4. ASSUME NEW m \in Mentions, Lands(m)
      PROVE  /\ \A n \in inbox' \ recovered' : n \in inbox \ recovered \/ Lands(n)
             /\ \A n \in inbox' : n \in inbox \/ Arrives(n)
  BY <1>3, <1>4
<1>5. ASSUME NEW m \in Mentions, MentionMoves(m), ~ Lands(m)
      PROVE  /\ stamp' = stamp
             /\ \A n \in inbox' : n \in inbox \/ Arrives(n)
             /\ \A n \in inbox' \ recovered' : n \in inbox \ recovered
             /\ \A n \in evicted' : n \in evicted \/ \E d \in Daemons : n \in names[d]
  BY <1>5 DEF MentionMoves, Takes, Loses, Tells, Evicts, Claims, Returns, Acks, Shows
<1> QED
  BY <1>1, <1>2, <1>3, <1>4, <1>5

(* Only Stamp gives a time, only Land makes a file of it.                   *)
LEMMA TimeSteps ==
  ASSUME Typed, [Next]_vars
  PROVE  \/ \E d \in Daemons : Stamp(d) \/ Land(d)
         \/ stamp' = stamp /\ \A d \in Daemons : path'[d] \in {path[d], 0}
<1> USE DEF Typed, TypeOK, Procs, disk, local, put, room
<1>1. ASSUME NEW d \in Daemons, PutFails(d)
      PROVE  stamp' = stamp /\ \A e \in Daemons : path'[e] \in {path[e], 0}
  BY <1>1 DEF PutFails
<1>2. ASSUME NEW p \in Procs, Crash(p)
      PROVE  stamp' = stamp /\ \A e \in Daemons : path'[e] \in {path[e], 0}
  BY <1>2 DEF Crash
<1>3. CASE UNCHANGED <<stamp, path>>
  BY <1>3
<1> QED
  BY <1>1, <1>2, <1>3
  DEF Next, DaemonStep, ReaderStep, SweepStep, vars, Spawn, Exit, Retry, Pass, HearNothing,
      Hear, ListVictims, Evict, Scan, Claim, ClaimFails, Poll, GiveUp, LoadOk, LoadFails,
      Show, Ack, AskHears, AskHearsNothing, Tell, Start, Recover, SkipOrphan, SweepNext, Age

(* What came in is remembered as long as there are names left to try.       *)
LEMMA Remembered ==
  ASSUME Typed, [Next]_vars, NEW r \in Readers
  PROVE  arrived[r] \subseteq arrived'[r] \/ names'[r] = {}
<1> USE InboxAssumption DEF Typed, TypeOK, HandOK, Procs, disk, local, put, room, history
<1>1. ASSUME NEW n, Arrives(n) PROVE arrived[r] \subseteq arrived'[r]
  BY <1>1 DEF Arrives
<1>2. ASSUME NEW s \in Readers, Poll(s) \/ GiveUp(s) \/ LoadOk(s)
      PROVE  arrived[r] \subseteq arrived'[r] \/ names'[r] = {}
  BY <1>2 DEF Poll, GiveUp, LoadOk, ListDone
<1>3. ASSUME NEW p \in Procs, Crash(p)
      PROVE  arrived[r] \subseteq arrived'[r] \/ names'[r] = {}
  BY <1>3 DEF Crash, ListDone
<1>4. CASE arrived' = arrived
  BY <1>4
<1> QED
  BY <1>1, <1>2, <1>3, <1>4
  DEF Next, DaemonStep, ReaderStep, SweepStep, vars, Spawn, Exit, Retry, Pass, HearNothing,
      Hear, ListVictims, Evict, Stamp, Land, PutFails, Scan, Claim, ClaimFails, LoadFails,
      Show, Ack, AskHears, AskHearsNothing, Tell, Start, Recover, SkipOrphan, SweepNext, Age

LEMMA OrderedStep == Kept /\ ReadLanded /\ Ordered /\ [Next]_vars => Ordered'
<1> SUFFICES ASSUME Kept, ReadLanded, Ordered, [Next]_vars PROVE Ordered'
  OBVIOUS
<1>1. Still \/ \E m \in Mentions : MentionMoves(m)
  BY OneMove
<1>2. \A p \in Procs : Listing(p)
  BY Listings DEF Kept
<1>3. /\ inbox \subseteq Mentions /\ evicted \subseteq Mentions
      /\ stamp \in [Mentions -> Nat] /\ stamp' \in [Mentions -> Nat]
      /\ path \in [Daemons -> Nat]
      /\ \A p \in Procs : names[p] \subseteq Mentions
      /\ inbox' \subseteq Mentions
  BY TypedStep DEF Kept, Typed, TypeOK
<1>4. \A m \in inbox : stamp[m] # 0
  BY <1>3, Apart
<1>5. StampsApart'
  <2>1. ASSUME NEW d \in Daemons, Stamp(d) PROVE StampsApart'
    <3>1. PICK t \in Times : Later(t) /\ path' = [path EXCEPT ![d] = t]
      BY <2>1 DEF Stamp
    <3>2. t \in Nat /\ stamp' = stamp
      BY <2>1 DEF Stamp, disk, Times
    <3> QED
      BY <1>3, <3>1, <3>2 DEF Later, Ordered, StampsApart
  <2>2. ASSUME NEW d \in Daemons, Land(d) PROVE StampsApart'
    <3>1. hand[d] \in Mentions /\ path[d] # 0
      BY <2>2 DEF Land, At, Kept, Typed, TypeOK, HandOK, Procs, DaemonPC
    <3>2. stamp' = [stamp EXCEPT ![hand[d]] = path[d]] /\ path' = [path EXCEPT ![d] = 0]
      BY <2>2 DEF Land
    <3> QED
      BY <1>3, <3>1, <3>2 DEF Ordered, StampsApart
  <2>3. CASE stamp' = stamp /\ \A d \in Daemons : path'[d] \in {path[d], 0}
    BY <2>3 DEF Ordered, StampsApart
  <2> QED
    BY <2>1, <2>2, <2>3, TimeSteps DEF Kept
<1>6. \A m \in Mentions : Outlived(m) => Outlived(m)'
  BY <1>1, DiskSteps, OnceOutlived DEF Kept, Ordered
<1>7. VictimsOutlived'
  <2>1. ASSUME NEW m \in Victims(inbox) PROVE m \in Mentions /\ Outlived(m)
    <3>1. m \in inbox /\ Cardinality({n \in inbox : stamp[n] > stamp[m]}) >= Cap - 1
      BY <2>1 DEF Victims
    <3>2. {n \in inbox : stamp[n] > stamp[m]} \subseteq Younger(m)
      BY <1>3 DEF Younger
    <3>3. /\ Cardinality({n \in inbox : stamp[n] > stamp[m]}) <= Cardinality(Younger(m))
          /\ Cardinality(Younger(m)) \in Nat
          /\ Cardinality({n \in inbox : stamp[n] > stamp[m]}) \in Nat
      <4>1. Younger(m) \in SUBSET Mentions
        BY DEF Younger
      <4> QED
        BY <3>2, <4>1, FiniteMentions
    <3> QED
      BY <1>3, <1>4, <3>1, <3>3, InboxAssumption DEF Outlived
  <2>2. ASSUME NEW d \in Daemons, NEW m \in names'[d] PROVE Outlived(m)'
    <3>1. m \in Mentions /\ Outlived(m)
      BY <1>2, <1>3, <2>1, <2>2, InboxAssumption
      DEF Listing, Procs, Ordered, VictimsOutlived
    <3> QED
      BY <1>6, <3>1
  <2>3. ASSUME NEW m \in evicted' PROVE Outlived(m)'
    <3>1. m \in Mentions /\ Outlived(m)
      BY <1>1, <1>3, <2>3, DiskSteps DEF Ordered, VictimsOutlived, Procs
    <3> QED
      BY <1>6, <3>1
  <2> QED
    BY <2>2, <2>3 DEF VictimsOutlived
<1>8. OlderListed'
  <2>1. ASSUME NEW r \in Readers, Scan(r), names'[r] = inbox,
               NEW m \in names'[r]
        PROVE  /\ stamp'[m] # 0
               /\ \A n \in inbox' \ arrived'[r] : stamp'[n] < stamp'[m] => n \in names'[r]
    BY <1>4, <2>1 DEF Scan, disk
  <2>2. ASSUME NEW r \in Readers, NEW m \in names'[r], m \in names[r]
        PROVE  /\ stamp'[m] # 0
               /\ \A n \in inbox' \ arrived'[r] : stamp'[n] < stamp'[m] => n \in names'[r]
    <3>1. m \in Mentions /\ stamp[m] # 0 /\ stamp'[m] = stamp[m]
      BY <1>1, <1>3, <2>2, DiskSteps DEF Ordered, OlderListed, Procs
    <3>2. ASSUME NEW n \in inbox' \ arrived'[r], stamp'[n] < stamp'[m] PROVE n \in names[r]
      <4>1. pc[r] \in {"claim", "load"} /\ arrived[r] \subseteq arrived'[r]
        BY <2>2, Remembered DEF Kept, Typed, HandOK
      <4>2. ~ Arrives(n)
        BY <3>2, <4>1 DEF Arrives
      <4>3. n \in inbox /\ n \in Mentions
        BY <1>1, <1>3, <3>2, <4>2, DiskSteps
      <4>4. stamp'[n] = stamp[n]
        BY <1>1, <1>4, <4>3, DiskSteps
      <4> QED
        BY <2>2, <3>1, <3>2, <4>1, <4>3, <4>4 DEF Ordered, OlderListed
    <3>3. \/ names'[r] = names[r]
          \/ \E k \in names[r] : k \notin inbox' /\ names'[r] = names[r] \ {k}
          \/ names'[r] = inbox /\ Scan(r)
      BY <1>2, <2>2, InboxAssumption DEF Listing, Procs
    <3> QED
      BY <2>1, <2>2, <3>1, <3>2, <3>3
  <2>3. ASSUME NEW r \in Readers, NEW m \in names'[r]
        PROVE  m \in names[r] \/ (Scan(r) /\ names'[r] = inbox)
    BY <1>2, <2>3, InboxAssumption DEF Listing, Procs
  <2> QED
    BY <2>1, <2>2, <2>3 DEF OlderListed
<1> QED
  BY <1>5, <1>7, <1>8 DEF Ordered

LEMMA OrderedAlways == Spec => [](Kept /\ Once /\ Ordered)
<1>1. Init => Ordered
  <2> SUFFICES ASSUME Init PROVE Ordered
    OBVIOUS
  <2> QED
    BY DEF Init, Ordered, StampsApart, VictimsOutlived, OlderListed, Procs, Mentions
<1>2. Kept /\ Once /\ Ordered /\ [Next]_vars => Ordered'
  BY OrderedStep DEF Once
<1> QED
  BY <1>1, <1>2, KeptAlways, OnceAlways, PTL DEF Spec

(* The cap throws away a mention only when INBOX_CAP - 1 younger ones have   *)
(* landed, from however stale a listing and with however many daemons.      *)
THEOREM CapKeepsNewest == Spec => []NewestKept
<1>1. Kept /\ Ordered => NewestKept
  BY DEF Ordered, VictimsOutlived, Outlived, Younger, NewestKept
<1> QED
  BY <1>1, OrderedAlways, PTL

(* A claim takes the oldest file of inbox/, but for what came in behind the  *)
(* claimer's listing, with any number of daemons and readers.               *)
THEOREM ClaimsInOrder == Spec => OldestFirst
<1>1. ASSUME Kept, Once, Ordered, [Next]_vars
      PROVE  [\A r \in Readers, m \in Mentions :
                <<m, r>> \in processing' \ processing
                  => \A n \in inbox : stamp[n] < stamp[m] => n \in arrived[r]]_vars
  <2> SUFFICES ASSUME NEW r \in Readers, NEW m \in Mentions,
                      <<m, r>> \in processing' \ processing,
                      NEW n \in inbox, stamp[n] < stamp[m], n \notin arrived[r]
               PROVE  FALSE
    OBVIOUS
  <2>1. Still \/ \E k \in Mentions : MentionMoves(k)
    BY <1>1, OneMove DEF Once
  <2>2. \E k \in Mentions : Claims(k)
    BY <2>1
    DEF MentionMoves, Still, Takes, Loses, Lands, Tells, Evicts, Returns, Acks, Shows
  <2>3. IsOldest(m, names[r])
    BY <2>2 DEF Claims
  <2>4. n \in names[r]
    BY <1>1, <2>3 DEF IsOldest, Ordered, OlderListed
  <2>5. stamp[m] <= stamp[n] /\ stamp[m] \in Nat /\ stamp[n] \in Nat
    BY <1>1, <2>3, <2>4 DEF IsOldest, Kept, Typed, TypeOK
  <2> QED
    BY <2>5
<1> QED
  BY <1>1, OrderedAlways, PTL DEF Spec, OldestFirst

(* Naturals are well ordered.                                               *)
LEMMA Least == ASSUME NEW T \in SUBSET Nat, T # {} PROVE \E x \in T : \A y \in T : x <= y
<1> DEFINE R == {p \in Nat \X Nat : p[1] < p[2]}
<1>1. IsWellFoundedOn(R, Nat)
  <2>1. R = OpToRel(<, Nat)
    BY DEF OpToRel
  <2> QED
    BY <2>1, NatLessThanWellFounded
<1>2. PICK x \in T : \A y \in T : ~ (<<y, x>> \in R)
  BY <1>1, WFMin
<1>3. \A y \in T : ~ (y < x)
  BY <1>2
<1> QED
  BY <1>3

(* Evicting the victims of a listing leaves at most INBOX_CAP - 1 files: the *)
(* oldest file that is left has all the others above it.                    *)
LEMMA VictimsLeaveRoom ==
  ASSUME Typed, StampsApart, \A m \in inbox : stamp[m] # 0
  PROVE  Cardinality(inbox \ Victims(inbox)) <= Cap - 1
<1> DEFINE Rest == inbox \ Victims(inbox)
           Above(m) == {n \in inbox : stamp[n] > stamp[m]}
<1>1. /\ inbox \subseteq Mentions /\ stamp \in [Mentions -> Nat] /\ Cap \in Nat \ {0}
      /\ Rest \subseteq Mentions /\ IsFiniteSet(Rest) /\ Cardinality(Rest) \in Nat
  BY FiniteMentions, InboxAssumption DEF Typed, TypeOK
<1>2. CASE Rest = {}
  BY <1>1, <1>2, FS_EmptySet
<1>3. CASE Rest # {}
  <2>1. PICK m \in Rest : \A n \in Rest : stamp[m] <= stamp[n]
    <3>1. {stamp[n] : n \in Rest} \in SUBSET Nat /\ {stamp[n] : n \in Rest} # {}
      BY <1>1, <1>3
    <3>2. PICK x \in {stamp[n] : n \in Rest} : \A y \in {stamp[n] : n \in Rest} : x <= y
      BY <3>1, Least
    <3> QED
      BY <3>2
  <2>2. Rest \ {m} \subseteq Above(m)
    BY <1>1, <2>1 DEF StampsApart
  <2>3. /\ Above(m) \in SUBSET Mentions
        /\ Cardinality(Above(m)) \in Nat
        /\ Cardinality(Rest \ {m}) <= Cardinality(Above(m))
    BY <1>1, <2>2, FiniteMentions
  <2>4. Cardinality(Rest \ {m}) = Cardinality(Rest) - 1
    BY <1>1, <2>1, FS_RemoveElement
  <2>5. ~ (Cardinality(Above(m)) >= Cap - 1)
    BY <2>1 DEF Victims
  <2>6. ASSUME NEW a \in Nat, NEW b \in Nat, b - 1 <= a, ~ (a >= Cap - 1)
        PROVE  b <= Cap - 1
    BY <1>1, <2>6
  <2> QED
    BY <1>1, <2>3, <2>4, <2>5, <2>6
<1> QED
  BY <1>2, <1>3

(* A sole daemon's put makes the room it needs and nobody takes it: during   *)
(* its evictions the files it does not mean to evict are INBOX_CAP - 1 at   *)
(* most, and only its own put adds one.                                     *)
Ours == inbox \ recovered

RoomLeft ==
  /\ Cardinality(Ours) <= Cap
  /\ \A d \in Daemons : pc[d] \in {"evict", "write"} => Cardinality(Ours \ names[d]) <= Cap - 1

LEMMA AtEvict ==
  ASSUME Typed, [Next]_vars, NEW d \in Daemons, pc'[d] \in {"evict", "write"}
  PROVE  ListVictims(d) \/ (pc[d] \in {"evict", "write"} /\ ~ Land(d))
<1> USE InboxAssumption
    DEF Typed, TypeOK, HandOK, Procs, DaemonPC, ReaderPC, At, Goto, disk, local, put, room, history
<1>1. CASE UNCHANGED pc
  BY <1>1 DEF Land
<1>2. ASSUME NEW e \in Daemons, DaemonStep(e), pc' # pc
      PROVE  ListVictims(d) \/ (pc[d] \in {"evict", "write"} /\ ~ Land(d))
  BY <1>2
  DEF DaemonStep, SweepStep, Spawn, Exit, Retry, Pass, HearNothing, Hear, ListVictims,
      Stamp, Land, PutFails, Evict, Recover, SkipOrphan, SweepNext
<1>3. ASSUME NEW r \in Readers, ReaderStep(r) \/ (\E v \in Verbs : Start(r, v)), pc' # pc
      PROVE  ListVictims(d) \/ (pc[d] \in {"evict", "write"} /\ ~ Land(d))
  BY <1>3
  DEF ReaderStep, SweepStep, Scan, Poll, GiveUp, LoadOk, LoadFails, Show, Ack, AskHears,
      AskHearsNothing, Tell, Claim, ClaimFails, Start, Recover, SkipOrphan, SweepNext, Land,
      Quit
<1>4. ASSUME NEW p \in Procs, Crash(p)
      PROVE  ListVictims(d) \/ (pc[d] \in {"evict", "write"} /\ ~ Land(d))
  BY <1>4 DEF Crash, Land
<1> QED
  BY <1>1, <1>2, <1>3, <1>4 DEF Next, vars, Age

LEMMA RoomStep ==
  ASSUME \A d, e \in Daemons : d = e
  PROVE  Kept /\ ReadLanded /\ Ordered /\ RoomLeft /\ [Next]_vars => RoomLeft'
<1> SUFFICES ASSUME Kept, ReadLanded, Ordered, RoomLeft, [Next]_vars PROVE RoomLeft'
  OBVIOUS
<1>1. Still \/ \E m \in Mentions : MentionMoves(m)
  BY OneMove
<1>2. /\ inbox \subseteq Mentions /\ inbox' \subseteq Mentions /\ Cap \in Nat \ {0}
      /\ \A m \in inbox : stamp[m] # 0
  BY TypedStep, InboxAssumption, Apart DEF Kept, Typed, TypeOK
<1>3. /\ \A S \in SUBSET Mentions : Cardinality(S) \in Nat
      /\ \A S, T \in SUBSET Mentions : S \subseteq T => Cardinality(S) <= Cardinality(T)
  BY FiniteMentions
<1>4. Cardinality(Ours') <= Cap
  <2>1. CASE \A n \in Mentions : ~ Lands(n)
    <3>1. Ours' \subseteq Ours
      BY <1>1, <1>2, <2>1, DiskSteps DEF Ours
    <3>2. Cardinality(Ours') <= Cardinality(Ours)
      BY <1>2, <1>3, <3>1 DEF Ours
    <3> QED
      BY <1>2, <1>3, <3>2 DEF RoomLeft, Ours
  <2>2. ASSUME NEW m \in Mentions, Lands(m) PROVE Cardinality(Ours') <= Cap
    <3>1. PICK d \in Daemons : Land(d)
      BY <2>2 DEF Lands
    <3>2. Ours \ names[d] = Ours
      BY <3>1 DEF Land, At, Kept, Typed, HandOK
    <3>3. Cardinality(Ours) <= Cap - 1
      BY <3>1, <3>2 DEF RoomLeft, Land, At
    <3>4. Ours' \subseteq Ours \cup {m}
      BY <2>2 DEF Lands, Ours
    <3>5. Cardinality(Ours \cup {m}) <= Cardinality(Ours) + 1
      BY <1>2, <1>3, FiniteMentions, FS_AddElement DEF Ours
    <3>6. /\ Cardinality(Ours') <= Cardinality(Ours \cup {m})
          /\ Cardinality(Ours') \in Nat /\ Cardinality(Ours) \in Nat
          /\ Cardinality(Ours \cup {m}) \in Nat
      <4>1. Ours \in SUBSET Mentions /\ Ours \cup {m} \in SUBSET Mentions /\ Ours' \in SUBSET Mentions
        BY <1>2 DEF Ours
      <4> QED
        BY <1>3, <3>4, <4>1
    <3> QED
      BY <1>2, <3>3, <3>5, <3>6
  <2> QED
    BY <2>1, <2>2
<1>5. ASSUME NEW d \in Daemons, pc'[d] \in {"evict", "write"}
      PROVE  Cardinality(Ours' \ names'[d]) <= Cap - 1
  <2>1. CASE ListVictims(d)
    <3>1. Ours' \ names'[d] \subseteq inbox \ Victims(inbox)
      BY <2>1 DEF ListVictims, Ours, disk, history, Kept, Typed, TypeOK, Procs
    <3>2. Cardinality(inbox \ Victims(inbox)) <= Cap - 1
      BY <1>2, VictimsLeaveRoom DEF Kept, Ordered
    <3>3. inbox \ Victims(inbox) \in SUBSET Mentions /\ Ours' \ names'[d] \in SUBSET Mentions
      BY <1>2, <3>1
    <3>4. /\ Cardinality(Ours' \ names'[d]) <= Cardinality(inbox \ Victims(inbox))
          /\ Cardinality(Ours' \ names'[d]) \in Nat
          /\ Cardinality(inbox \ Victims(inbox)) \in Nat
      BY <1>3, <3>1, <3>3
    <3> QED
      BY <1>2, <3>2, <3>4
  <2>2. CASE pc[d] \in {"evict", "write"} /\ ~ Land(d) /\ ~ ListVictims(d)
    <3>1. \A n \in Mentions : ~ Lands(n)
      BY <2>2 DEF Lands
    <3>2. Ours' \subseteq Ours
      BY <1>1, <1>2, <3>1, DiskSteps DEF Ours
    <3>3. Ours' \ names'[d] \subseteq Ours \ names[d]
      <4>1. Listing(d)
        BY Listings DEF Kept, Procs
      <4>2. names'[d] = names[d] \/ \E m \in names[d] : m \notin inbox' /\ names'[d] = names[d] \ {m}
        BY <1>5, <2>2, <4>1, InboxAssumption DEF Listing
      <4> QED
        BY <3>2, <4>2 DEF Ours
    <3>4. /\ Cardinality(Ours' \ names'[d]) <= Cardinality(Ours \ names[d])
          /\ Cardinality(Ours' \ names'[d]) \in Nat /\ Cardinality(Ours \ names[d]) \in Nat
      <4>1. Ours' \ names'[d] \in SUBSET Mentions /\ Ours \ names[d] \in SUBSET Mentions
        BY <1>2 DEF Ours
      <4> QED
        BY <1>3, <3>3, <4>1
    <3> QED
      BY <1>2, <2>2, <3>4 DEF RoomLeft
  <2> QED
    BY <1>5, <2>1, <2>2, AtEvict DEF Kept
<1> QED
  BY <1>4, <1>5 DEF RoomLeft

(* With a single daemon inbox/ never holds more than INBOX_CAP files of its  *)
(* own, although it evicts from a listing that readers make stale.          *)
THEOREM SoleDaemonKeepsCap ==
  ASSUME \A d, e \in Daemons : d = e
  PROVE  Spec => []CapHolds
<1>1. Init => RoomLeft
  BY FS_EmptySet, InboxAssumption DEF Init, RoomLeft, Ours, Procs
<1>2. Kept /\ Once /\ Ordered /\ RoomLeft /\ [Next]_vars => RoomLeft'
  BY RoomStep DEF Once
<1>3. RoomLeft => CapHolds
  BY DEF RoomLeft, Ours, CapHolds
<1> QED
  BY <1>1, <1>2, <1>3, OrderedAlways, PTL DEF Spec
=============================================================================

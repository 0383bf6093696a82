-------------------------- MODULE MembershipProofs --------------------------
(* Theorems about Membership, for any processes and any bounds.            *)
EXTENDS Membership, FiniteSetTheorems, TLAPS

(* A request once in hand is never put down: what a reply is about is known. *)
Asking == {"poll", "drop", "note", "noted", "keep", "unpend", "clear", "file"}

PCs == {"off", "top", "epend", "eretire", "may", "ask", "file", "probe", "disproved",
        "pend", "retire", "poll", "keep", "unpend", "clear", "drop", "note", "noted",
        "send", "wait", "look", "leave", "unseat", "withdraw", "recall", "suspend"}

InFlight(p) == pc[p] \in Asking

HeldKnown == \A p \in Procs : InFlight(p) => held[p] # 0

Typed == TypeOK /\ HeldKnown

(* What the writers of join-state.json save is well formed.                *)
LEMMA CleanTyped == Clean \in JoinStates
BY MembershipAssumption DEF Clean, JoinStates

LEMMA CountTyped ==
  ASSUME NEW b \in JoinStates
  PROVE  [attempts |-> b.attempts + 1, backing |-> TRUE,
          suspended |-> b.attempts + 1 >= MaxAttempts, outcome |-> b.outcome] \in JoinStates
<1> DEFINE enough == b.attempts + 1 >= MaxAttempts
           made == [attempts |-> b.attempts + 1, backing |-> TRUE,
                    suspended |-> enough, outcome |-> b.outcome]
<1>1. b.attempts + 1 \in Nat /\ b.outcome \in Refusals \cup {"none", "left"}
  BY DEF JoinStates
<1>2. enough \in BOOLEAN
  OBVIOUS
<1> HIDE DEF enough
<1>3. made \in [attempts : Nat, backing : BOOLEAN, suspended : BOOLEAN,
                 outcome : Refusals \cup {"none", "left"}]
  BY <1>1, <1>2
<1>4. made.attempts >= MaxAttempts => made.suspended
  BY DEF enough
<1> QED
  BY <1>3, <1>4 DEF JoinStates, enough

LEMMA OutcomeTyped ==
  ASSUME NEW b \in JoinStates, NEW o \in Refusals
  PROVE  [b EXCEPT !.outcome = o] \in JoinStates
BY DEF JoinStates

(* Where claim_pending() returns, its locals are gone and none is in hand.  *)
LEMMA ReturnTyped ==
  ASSUME Typed, NEW p \in Procs, NEW ok \in BOOLEAN, Return(p, ok)
  PROVE  /\ pc' \in [Procs -> PCs]
         /\ after' \in [Procs -> {"off", "probe", "look", "send"}]
         /\ held' \in [Procs -> Requests \cup {0}]
         /\ note' \in [Procs -> JoinStates]
         /\ HeldKnown'
<1> USE DEF Typed, TypeOK
<1>1. after[p] \in {"off", "probe", "look", "send"}
  OBVIOUS
<1>2. pc'[p] \in {"off", "probe", "look", "send"} /\ pc' \in [Procs -> PCs]
  BY <1>1 DEF Return, Goto, PCs
<1>3. after' \in [Procs -> {"off", "probe", "look", "send"}]
  BY DEF Return
<1>4. held' \in [Procs -> Requests \cup {0}]
  BY DEF Return
<1>5. note' \in [Procs -> JoinStates]
  BY CleanTyped DEF Return
<1>6. HeldKnown'
  BY <1>2 DEF Return, Goto, HeldKnown, InFlight, Asking
<1> QED
  BY <1>2, <1>3, <1>4, <1>5, <1>6

(* One step preserves the types, whoever takes it.                         *)
LEMMA TypedStep == Typed /\ [Next]_vars => Typed'
<1> SUFFICES ASSUME Typed, [Next]_vars PROVE Typed'
  OBVIOUS
<1> USE MembershipAssumption DEF Typed, TypeOK, Procs, Requests
<1>1. ASSUME NEW p \in Procs, Pend(p) PROVE Typed'
  <2>1. CASE Return(p, FALSE)
    BY <1>1, <2>1, ReturnTyped DEF Pend, files, room, history, PCs
  <2>2. CASE pending # 0 /\ Goto(p, "poll") /\ held' = [held EXCEPT ![p] = pending]
             /\ UNCHANGED <<after, note>>
    <3>1. TypeOK'
      BY <1>1, <2>2 DEF Pend, Goto, files, room, history
    <3>2. HeldKnown'
      BY <1>1, <2>2 DEF Goto, HeldKnown, InFlight, Asking
    <3> QED
      BY <3>1, <3>2
  <2>3. CASE Goto(p, "retire") /\ UNCHANGED <<after, held, note>>
    BY <1>1, <2>3 DEF Pend, Goto, files, room, history, HeldKnown, InFlight, Asking
  <2> QED
    BY <1>1, <2>1, <2>2, <2>3 DEF Pend
<1>2. ASSUME NEW p \in Procs, Retire(p) PROVE Typed'
  <2>1. CASE Return(p, FALSE)
    BY <1>2, <2>1, ReturnTyped DEF Retire, Unpend, room, history, PCs
  <2>2. CASE Step(p, "eretire", "may") /\ UNCHANGED <<after, held, note>>
    BY <1>2, <2>2 DEF Retire, At, Goto, Step, Unpend, room, history, HeldKnown, InFlight, Asking
  <2> QED
    BY <1>2, <2>1, <2>2 DEF Retire
<1>3. ASSUME NEW p \in Procs, PollNothing(p) PROVE Typed'
  BY <1>3, ReturnTyped DEF PollNothing, files, room, history, PCs
<1>4. ASSUME NEW p \in Procs, PollApproved(p) PROVE Typed'
  <2>1. TypeOK'
    BY <1>4
    DEF PollApproved, At, Goto, Step, files, room, local, history, HeldKnown, InFlight,
        Asking
  <2>2. HeldKnown'
    BY <1>4
    DEF PollApproved, At, Goto, Step, files, room, local, history, HeldKnown, InFlight,
        Asking
  <2> QED
    BY <2>1, <2>2
<1>5. ASSUME NEW p \in Procs, PollRefused(p) PROVE Typed'
  <2>1. TypeOK'
    <3>1. held[p] \in Requests
      BY <1>5
      DEF PollRefused, At, Goto, Step, Refusals, files, room, local, history,
          HeldKnown, InFlight, Asking, PCs
    <3>2. status[held[p]] \in Refusals
      BY <1>5, <3>1
      DEF PollRefused, At, Goto, Step, Refusals, files, room, local, history,
          HeldKnown, InFlight, Asking, PCs
    <3>3. note' \in [Procs -> JoinStates]
      <4>1. [note[p] EXCEPT !.outcome = status[held[p]]] \in JoinStates
        BY <3>2, OutcomeTyped
      <4>2. note' = [note EXCEPT ![p] = [note[p] EXCEPT !.outcome = status[held[p]]]]
        BY <1>5 DEF PollRefused
      <4> QED
        BY <4>1, <4>2
    <3> QED
      BY <1>5, <3>1, <3>2, <3>3
      DEF PollRefused, At, Goto, Step, Refusals, files, room, local, history,
          HeldKnown, InFlight, Asking, PCs
  <2>2. HeldKnown'
    BY <1>5
    DEF PollRefused, At, Goto, Step, Refusals, files, room, local, history, HeldKnown,
        InFlight, Asking
  <2> QED
    BY <2>1, <2>2
<1>6. ASSUME NEW p \in Procs, Keep(p) PROVE Typed'
  <2>1. TypeOK'
    BY <1>6
    DEF Keep, At, Goto, Step, files, room, local, history, HeldKnown, InFlight, Asking
  <2>2. HeldKnown'
    BY <1>6
    DEF Keep, At, Goto, Step, files, room, local, history, HeldKnown, InFlight, Asking
  <2> QED
    BY <2>1, <2>2
<1>7. ASSUME NEW p \in Procs, Forget(p) PROVE Typed'
  <2>1. TypeOK'
    BY <1>7
    DEF Forget, At, Goto, Step, Unpend, files, room, local, history, HeldKnown,
        InFlight, Asking
  <2>2. HeldKnown'
    BY <1>7
    DEF Forget, At, Goto, Step, Unpend, files, room, local, history, HeldKnown,
        InFlight, Asking
  <2> QED
    BY <2>1, <2>2
<1>8. ASSUME NEW p \in Procs, Clear(p) PROVE Typed'
  BY <1>8, CleanTyped, ReturnTyped DEF Clear, room, PCs
<1>9. ASSUME NEW p \in Procs, Note(p) PROVE Typed'
  <2>1. TypeOK'
    BY <1>9
    DEF Note, At, Goto, Step, JoinStates, files, room, local, history, HeldKnown,
        InFlight, Asking
  <2>2. HeldKnown'
    BY <1>9
    DEF Note, At, Goto, Step, JoinStates, files, room, local, history, HeldKnown,
        InFlight, Asking
  <2> QED
    BY <2>1, <2>2
<1>10. ASSUME NEW p \in Procs, Noted(p) PROVE Typed'
  <2>1. budget' \in JoinStates
    BY <1>10, CountTyped DEF Noted
  <2> QED
    BY <1>10, <2>1, ReturnTyped DEF Noted, room, history, PCs
<1>11. ASSUME NEW p \in Procs, EnsurePends(p) PROVE Typed'
  <2>1. TypeOK'
    BY <1>11
    DEF EnsurePends, At, Goto, Claim, files, room, local, history, HeldKnown, InFlight,
        Asking
  <2>2. HeldKnown'
    BY <1>11
    DEF EnsurePends, At, Goto, Claim, files, room, local, history, HeldKnown, InFlight,
        Asking
  <2> QED
    BY <2>1, <2>2
<1>12. ASSUME NEW p \in Procs, EnsureMay(p) PROVE Typed'
  <2>1. TypeOK'
    BY <1>12
    DEF EnsureMay, At, Goto, Unanswered, files, room, local, history, HeldKnown,
        InFlight, Asking
  <2>2. HeldKnown'
    BY <1>12
    DEF EnsureMay, At, Goto, Unanswered, files, room, local, history, HeldKnown,
        InFlight, Asking
  <2> QED
    BY <2>1, <2>2
<1>13. ASSUME NEW p \in Procs, AskFails(p) PROVE Typed'
  <2>1. TypeOK'
    BY <1>13
    DEF AskFails, At, Goto, Unanswered, Step, files, room, local, history, HeldKnown,
        InFlight, Asking
  <2>2. HeldKnown'
    BY <1>13
    DEF AskFails, At, Goto, Unanswered, Step, files, room, local, history, HeldKnown,
        InFlight, Asking
  <2> QED
    BY <2>1, <2>2
<1>14. ASSUME NEW p \in Procs, Ask(p) PROVE Typed'
  <2>1. requests' \in 0..MaxRequests /\ requests' \in Requests
    BY <1>14 DEF Ask
  <2>2. status' \in [Requests -> Statuses]
    BY <1>14 DEF Ask, Statuses
  <2>3. pc' \in [Procs -> PCs]
    BY <1>14 DEF Ask, Goto, Unanswered, PCs
  <2>4. held' \in [Procs -> Requests \cup {0}]
    BY <1>14, <2>1 DEF Ask
  <2>5. unfiled' \subseteq Requests
    <3>1. unfiled' \subseteq unfiled \cup {requests'}
      BY <1>14 DEF Ask
    <3> QED
      BY <2>1, <3>1
  <2>6. TypeOK'
    BY <1>14, <2>1, <2>2, <2>3, <2>4, <2>5 DEF Ask, PCs, files
  <2>7. HeldKnown'
    <3>1. CASE Goto(p, "file") /\ held' = [held EXCEPT ![p] = requests + 1]
      BY <1>14, <3>1 DEF Ask, At, Goto, HeldKnown, InFlight, Asking
    <3>2. CASE Goto(p, Unanswered(p)) /\ UNCHANGED held
      BY <1>14, <3>2 DEF Ask, At, Goto, Unanswered, HeldKnown, InFlight, Asking
    <3> QED
      BY <1>14, <3>1, <3>2 DEF Ask
  <2> QED
    BY <2>6, <2>7
<1>15. ASSUME NEW p \in Procs, File(p) PROVE Typed'
  <2>1. TypeOK'
    BY <1>15
    DEF File, At, Goto, Step, files, room, local, history, HeldKnown, InFlight, Asking
  <2>2. HeldKnown'
    BY <1>15
    DEF File, At, Goto, Step, files, room, local, history, HeldKnown, InFlight, Asking
  <2> QED
    BY <2>1, <2>2
<1>16. ASSUME NEW p \in Procs, Crash(p) PROVE Typed'
  <2>1. unfiled' \subseteq Requests
    <3>1. At(p, "file") => held[p] \in Requests
      BY DEF At, HeldKnown, InFlight, Asking
    <3> QED
      BY <1>16, <3>1 DEF Crash
  <2>2. refused' \subseteq Requests /\ crashes' \in 0..MaxCrashes
    <3>1. refused' \subseteq refused
      BY <1>16 DEF Crash
    <3>2. crashes' \in 0..MaxCrashes
      BY <1>16 DEF Crash
    <3> QED
      BY <3>1, <3>2
  <2>3. pc' \in [Procs -> PCs] /\ after' \in [Procs -> {"off", "probe", "look", "send"}]
    BY <1>16 DEF Crash, Goto, PCs
  <2>4. held' \in [Procs -> Requests \cup {0}] /\ note' \in [Procs -> JoinStates]
    BY <1>16, CleanTyped DEF Crash
  <2>5. TypeOK'
    BY <1>16, <2>1, <2>2, <2>3, <2>4 DEF Crash, files, room, PCs
  <2>6. HeldKnown'
    BY <1>16 DEF Crash, Goto, HeldKnown, InFlight, Asking
  <2> QED
    BY <2>5, <2>6
<1>17. ASSUME NEW d \in Daemons, Start(d) PROVE Typed'
  <2>1. TypeOK'
    BY <1>17
    DEF Start, At, Goto, Step, files, room, local, history, HeldKnown, InFlight,
        Asking
  <2>2. HeldKnown'
    BY <1>17
    DEF Start, At, Goto, Step, files, room, local, history, HeldKnown, InFlight,
        Asking
  <2> QED
    BY <2>1, <2>2
<1>18. ASSUME NEW d \in Daemons, Exit(d) PROVE Typed'
  <2>1. TypeOK'
    BY <1>18
    DEF Exit, At, Goto, Step, files, room, local, history, HeldKnown, InFlight, Asking
  <2>2. HeldKnown'
    BY <1>18
    DEF Exit, At, Goto, Step, files, room, local, history, HeldKnown, InFlight, Asking
  <2> QED
    BY <2>1, <2>2
<1>19. ASSUME NEW d \in Daemons, Ensure(d) PROVE Typed'
  <2>1. TypeOK'
    BY <1>19
    DEF Ensure, At, Goto, Step, files, room, local, history, HeldKnown, InFlight,
        Asking
  <2>2. HeldKnown'
    BY <1>19
    DEF Ensure, At, Goto, Step, files, room, local, history, HeldKnown, InFlight,
        Asking
  <2> QED
    BY <2>1, <2>2
<1>20. ASSUME NEW d \in Daemons, ProbeOk(d) PROVE Typed'
  <2>1. TypeOK'
    BY <1>20
    DEF ProbeOk, At, Goto, Step, files, room, local, history, HeldKnown, InFlight,
        Asking
  <2>2. HeldKnown'
    BY <1>20
    DEF ProbeOk, At, Goto, Step, files, room, local, history, HeldKnown, InFlight,
        Asking
  <2> QED
    BY <2>1, <2>2
<1>21. ASSUME NEW d \in Daemons, NotInvited(d) PROVE Typed'
  <2>1. pc' = [pc EXCEPT ![d] = "disproved"] /\ pc' \in [Procs -> PCs]
    BY <1>21 DEF NotInvited, Step, Goto, PCs
  <2>2. TypeOK'
    BY <1>21, <2>1 DEF NotInvited, files, room, history, PCs
  <2>3. HeldKnown'
    BY <1>21, <2>1 DEF NotInvited, HeldKnown, InFlight, Asking
  <2> QED
    BY <2>2, <2>3
<1>22. ASSUME NEW d \in Daemons, Disprove(d) PROVE Typed'
  <2>1. TypeOK'
    BY <1>22
    DEF Disprove, At, Goto, Step, files, room, local, history, HeldKnown, InFlight,
        Asking
  <2>2. HeldKnown'
    BY <1>22
    DEF Disprove, At, Goto, Step, files, room, local, history, HeldKnown, InFlight,
        Asking
  <2> QED
    BY <2>1, <2>2
<1>23. ASSUME NEW d \in Daemons, ProbeNothing(d) PROVE Typed'
  <2>1. TypeOK'
    BY <1>23
    DEF ProbeNothing, At, Goto, Step, files, room, local, history, HeldKnown, InFlight,
        Asking
  <2>2. HeldKnown'
    BY <1>23
    DEF ProbeNothing, At, Goto, Step, files, room, local, history, HeldKnown, InFlight,
        Asking
  <2> QED
    BY <2>1, <2>2
<1>24. ASSUME NEW c \in Callers, Send(c) PROVE Typed'
  <2>1. TypeOK'
    BY <1>24
    DEF Send, At, Goto, Step, files, room, local, history, HeldKnown, InFlight, Asking
  <2>2. HeldKnown'
    BY <1>24
    DEF Send, At, Goto, Step, files, room, local, history, HeldKnown, InFlight, Asking
  <2> QED
    BY <2>1, <2>2
<1>25. ASSUME NEW c \in Callers, Wait(c) PROVE Typed'
  <2>1. after' \in [Procs -> {"off", "probe", "look", "send"}]
    BY <1>25 DEF Wait, Claim
  <2>2. pc' \in [Procs -> PCs]
    BY <1>25 DEF Wait, Goto, Claim, PCs
  <2>3. TypeOK'
    BY <1>25, <2>1, <2>2 DEF Wait, files, room, history, PCs
  <2>4. HeldKnown'
    BY <1>25 DEF Wait, At, Goto, Claim, HeldKnown, InFlight, Asking
  <2> QED
    BY <2>3, <2>4
<1>26. ASSUME NEW c \in Callers, Look(c) PROVE Typed'
  <2>1. TypeOK'
    BY <1>26
    DEF Look, At, Goto, Step, files, room, local, history, HeldKnown, InFlight, Asking
  <2>2. HeldKnown'
    BY <1>26
    DEF Look, At, Goto, Step, files, room, local, history, HeldKnown, InFlight, Asking
  <2> QED
    BY <2>1, <2>2
<1>27. ASSUME NEW c \in Callers, Recall(c) PROVE Typed'
  <2>1. TypeOK'
    BY <1>27
    DEF Recall, At, Goto, Step, files, room, local, history, HeldKnown, InFlight, Asking
  <2>2. HeldKnown'
    BY <1>27
    DEF Recall, At, Goto, Step, files, room, local, history, HeldKnown, InFlight, Asking
  <2> QED
    BY <2>1, <2>2
<1>29. ASSUME NEW c \in Callers, Leave(c) PROVE Typed'
  <2>1. TypeOK'
    BY <1>29
    DEF Leave, At, Goto, Step, files, room, local, history, HeldKnown, InFlight,
        Asking
  <2>2. HeldKnown'
    BY <1>29
    DEF Leave, At, Goto, Step, files, room, local, history, HeldKnown, InFlight,
        Asking
  <2> QED
    BY <2>1, <2>2
<1>30. ASSUME NEW c \in Callers, Unseat(c) PROVE Typed'
  <2>1. TypeOK'
    BY <1>30
    DEF Unseat, At, Goto, Step, files, room, local, history, HeldKnown, InFlight,
        Asking
  <2>2. HeldKnown'
    BY <1>30
    DEF Unseat, At, Goto, Step, files, room, local, history, HeldKnown, InFlight,
        Asking
  <2> QED
    BY <2>1, <2>2
<1>31. ASSUME NEW c \in Callers, Withdraw(c) PROVE Typed'
  <2>1. TypeOK'
    BY <1>31
    DEF Withdraw, At, Goto, Step, Unpend, files, room, local, history, HeldKnown,
        InFlight, Asking
  <2>2. HeldKnown'
    BY <1>31
    DEF Withdraw, At, Goto, Step, Unpend, files, room, local, history, HeldKnown,
        InFlight, Asking
  <2> QED
    BY <2>1, <2>2
<1>32. ASSUME NEW c \in Callers, Suspend(c) PROVE Typed'
  <2>1. budget' \in JoinStates /\ note' \in [Procs -> JoinStates]
    <3>1. note[c] \in JoinStates
      OBVIOUS
    <3>2. [note[c] EXCEPT !.suspended = TRUE, !.outcome = "left"] \in JoinStates
      BY <3>1 DEF JoinStates
    <3> QED
      BY <1>32, <3>2, CleanTyped DEF Suspend, Leaves
  <2>2. left' \in BOOLEAN
    BY <1>32, Zenon DEF Suspend, Leaves
  <2>3. TypeOK'
    BY <1>32, <2>1, <2>2 DEF Suspend, Leaves, Goto, Step, room
  <2>4. HeldKnown'
    BY <1>32
    DEF Suspend, Leaves, At, Goto, Step, JoinStates, files, room, local, history, HeldKnown,
        InFlight, Asking
  <2> QED
    BY <2>3, <2>4
<1>33. ASSUME NEW c \in Callers, NEW v \in Verbs, Run(c, v) PROVE Typed'
  <2>1. CASE v = "send"
    <3>1. after' \in [Procs -> {"off", "probe", "look", "send"}] /\ pc' \in [Procs -> PCs]
      BY <1>33, <2>1 DEF Run, Claim, Goto, PCs
    <3>2. TypeOK'
      BY <1>33, <2>1, <3>1 DEF Run, room, PCs
    <3>3. HeldKnown'
      BY <1>33, <2>1 DEF Run, At, Claim, Goto, HeldKnown, InFlight, Asking
    <3> QED
      BY <3>2, <3>3
  <2>2. CASE v = "join"
    <3>1. budget' \in JoinStates
      BY <1>33, <2>2, CleanTyped DEF Run
    <3>2. pc' = [pc EXCEPT ![c] = "ask"] /\ pc' \in [Procs -> PCs]
      <4>1. pc' = [pc EXCEPT ![c] = "ask"]
        BY <1>33, <2>2 DEF Run, Goto
      <4>2. pc \in [Procs -> PCs] /\ "ask" \in PCs
        BY DEF PCs
      <4> QED
        BY <4>1, <4>2
    <3>3. refused' = {} /\ left' = FALSE
      BY <1>33, <2>2 DEF Run
    <3>4. TypeOK'
      BY <1>33, <2>2, <3>1, <3>2, <3>3 DEF Run, room, PCs
    <3>5. HeldKnown'
      BY <1>33, <2>2 DEF Run, At, Goto, HeldKnown, InFlight, Asking
    <3> QED
      BY <3>4, <3>5
  <2>3. CASE v = "leave"
    <3>1. pc' = [pc EXCEPT ![c] = "leave"] /\ pc' \in [Procs -> PCs]
      BY <1>33, <2>3 DEF Run, Goto, PCs
    <3>2. TypeOK'
      BY <1>33, <2>3, <3>1 DEF Run, room, PCs
    <3>3. HeldKnown'
      BY <1>33, <2>3 DEF Run, At, Goto, HeldKnown, InFlight, Asking
    <3> QED
      BY <3>2, <3>3
  <2> QED
    BY <1>33, <2>1, <2>2, <2>3 DEF Run
<1>34. ASSUME NEW r \in Requests, Answer(r) PROVE Typed'
  <2>1. TypeOK'
    <3>1. grant' \in [Requests -> Ids \cup {0}] /\ seats' \subseteq Ids
      BY <1>34
      DEF Answer, Refusals, Statuses, files, room, local, history, PCs, HeldKnown,
          InFlight, Asking
    <3>2. status' \in [Requests -> Statuses]
      BY <1>34, <3>1
      DEF Answer, Refusals, Statuses, files, room, local, history, PCs, HeldKnown,
          InFlight, Asking
    <3> QED
      BY <1>34, <3>1, <3>2
      DEF Answer, Refusals, Statuses, files, room, local, history, PCs, HeldKnown,
          InFlight, Asking
  <2>2. HeldKnown'
    BY <1>34
    DEF Answer, Refusals, Statuses, files, room, local, history, HeldKnown, InFlight
  <2> QED
    BY <2>1, <2>2
<1>35. CASE Evict
  <2>1. TypeOK'
    BY <1>35 DEF Evict, Statuses, files, room, local, history
  <2>2. HeldKnown'
    BY <1>35 DEF Evict, Statuses, files, room, local, history, HeldKnown, InFlight
  <2> QED
    BY <2>1, <2>2
<1>36. CASE Lapse
  <2>1. TypeOK'
    BY <1>36 DEF Lapse, files, room, local, history
  <2>2. HeldKnown'
    BY <1>36 DEF Lapse, files, room, local, history, HeldKnown, InFlight
  <2> QED
    BY <2>1, <2>2
<1>37. CASE BackoffOver
  <2>1. TypeOK'
    BY <1>37 DEF BackoffOver, JoinStates, files, room, local, history
  <2>2. HeldKnown'
    BY <1>37 DEF BackoffOver, JoinStates, files, room, local, history, HeldKnown, InFlight
  <2> QED
    BY <2>1, <2>2
<1>38. CASE UNCHANGED vars
  <2>1. TypeOK'
    BY <1>38 DEF vars, files, room, local, history
  <2>2. HeldKnown'
    BY <1>38 DEF vars, files, room, local, history, HeldKnown, InFlight
  <2> QED
    BY <2>1, <2>2
<1> QED
  BY <1>1, <1>2, <1>3, <1>4, <1>5, <1>6, <1>7, <1>8, <1>9, <1>10, <1>11, <1>12,
     <1>13, <1>14, <1>15, <1>16, <1>17, <1>18, <1>19, <1>20, <1>21, <1>22, <1>23, <1>24,
     <1>25, <1>26, <1>27, <1>29, <1>30, <1>31, <1>32, <1>33, <1>34, <1>35, <1>36,
     <1>37, <1>38
  DEF Next, ClaimStep, JoinStep, DaemonStep, CallerStep

(* ... and the initial states have them.                                  *)
LEMMA InitTyped == Init => Typed
<1> SUFFICES ASSUME Init PROVE Typed
  OBVIOUS
<1> USE MembershipAssumption
<1>1. pc \in [Procs -> {"off"}] /\ after \in [Procs -> {"off"}] /\ held \in [Procs -> {0}]
  BY DEF Init
<1>2. budget \in JoinStates /\ note \in [Procs -> JoinStates]
  BY CleanTyped DEF Init
<1>3. seats \subseteq Ids /\ requests \in 0..MaxRequests
  BY DEF Init
<1>4. TypeOK
  <2>1. pc \in [Procs -> PCs]
    BY <1>1 DEF PCs
  <2>2. after \in [Procs -> {"off", "probe", "look", "send"}]
    BY <1>1
  <2>3. status \in [Requests -> Statuses] /\ grant \in [Requests -> Ids \cup {0}]
    BY DEF Init, Statuses
  <2>4. held \in [Procs -> Requests \cup {0}]
    BY <1>1
  <2>5. evictions \in 0..MaxEvictions /\ crashes \in 0..MaxCrashes
    BY DEF Init
  <2>6. /\ identity \in Ids \cup {0} /\ pending \in Requests \cup {0} /\ old \in BOOLEAN
        /\ seated \in [Daemons -> BOOLEAN] /\ dead \in [Daemons -> Ids \cup {0}]
        /\ unfiled \subseteq Requests /\ refused \subseteq Requests /\ left \in BOOLEAN
    BY DEF Init
  <2> QED
    BY <1>2, <1>3, <2>1, <2>2, <2>3, <2>4, <2>5, <2>6 DEF TypeOK, PCs
<1>5. HeldKnown
  BY <1>1 DEF HeldKnown, InFlight, Asking
<1> QED
  BY <1>4, <1>5 DEF Typed

(* Every variable keeps its type, whatever the processes' interleaving; in   *)
(* particular no lost update of join-state.json leaves a spent budget       *)
(* unsuspended.                                                            *)
THEOREM MembershipTypes == Spec => []TypeOK
<1> QED
  BY InitTyped, TypedStep, PTL DEF Spec, Typed

(* A daemon alone: an open request whose id reached this host is the one in  *)
(* pending-join.json, young, or in hand on its way there; and a request      *)
(* being withdrawn from the file is no longer open.                        *)
Filed(d) ==
  \A r \in Requests :
    status[r] = "open" /\ r \notin unfiled
      => \/ /\ pending = r /\ ~ old
            /\ pc[d] \notin {"eretire", "may", "ask", "file", "retire", "keep", "unpend", "drop"}
         \/ pc[d] = "file" /\ held[d] = r

Closed(d) ==
  /\ pc[d] \in {"poll", "keep", "unpend", "drop"} => held[d] = pending /\ held[d] \in Requests
  /\ pc[d] \in {"keep", "unpend", "drop"} => status[held[d]] # "open"

Sole(d) == Filed(d) /\ Closed(d)

LEMMA SoleStep ==
  ASSUME NEW d \in Daemons, Daemons = {d}, Callers = {}, Typed, Sole(d), [Next]_vars
  PROVE  Sole(d)'
<1> USE MembershipAssumption DEF Sole, Filed, Closed, Typed, TypeOK, Procs, Requests
<1>1. CASE Pend(d)
  BY <1>1 DEF Pend, At, Goto, Return, files, room, local, history
<1>2. CASE Retire(d)
  BY <1>2 DEF Retire, At, Goto, Return, Unpend, Step, files, room, local, history
<1>3. CASE PollNothing(d)
  BY <1>3 DEF PollNothing, At, Goto, Return, files, room, local, history
<1>4. CASE PollApproved(d)
  BY <1>4 DEF PollApproved, At, Goto, Step, files, room, local, history
<1>5. CASE PollRefused(d)
  BY <1>5 DEF PollRefused, At, Goto, Step, Refusals, files, room, local, history
<1>6. CASE Keep(d)
  BY <1>6 DEF Keep, At, Goto, Step, files, room, local, history
<1>7. CASE Forget(d)
  BY <1>7 DEF Forget, At, Goto, Step, Unpend, files, room, local, history
<1>8. CASE Clear(d)
  BY <1>8 DEF Clear, At, Goto, Return, files, room, local, history
<1>9. CASE Note(d)
  BY <1>9 DEF Note, At, Goto, Step, files, room, local, history
<1>10. CASE Noted(d)
  BY <1>10 DEF Noted, At, Goto, Return, files, room, local, history
<1>11. CASE EnsurePends(d)
  BY <1>11 DEF EnsurePends, At, Goto, Claim, files, room, local, history
<1>12. CASE EnsureMay(d)
  BY <1>12 DEF EnsureMay, At, Goto, Unanswered, files, room, local, history
<1>13. CASE AskFails(d)
  BY <1>13 DEF AskFails, At, Goto, Unanswered, Step, files, room, local, history
<1>14. CASE Ask(d)
  BY <1>14 DEF Ask, At, Goto, Unanswered, files, room, local, history
<1>15. CASE File(d)
  BY <1>15 DEF File, At, Goto, Step, files, room, local, history
<1>16. CASE Crash(d)
  BY <1>16 DEF Crash, At, Goto, Refusals, files, room, local, history
<1>17. CASE Start(d)
  BY <1>17 DEF Start, At, Goto, Step, files, room, local, history
<1>18. CASE Exit(d)
  BY <1>18 DEF Exit, At, Goto, Step, files, room, local, history
<1>19. CASE Ensure(d)
  BY <1>19 DEF Ensure, At, Goto, Step, files, room, local, history
<1>20. CASE ProbeOk(d)
  BY <1>20 DEF ProbeOk, At, Goto, Step, files, room, local, history
<1>21. CASE NotInvited(d)
  BY <1>21 DEF NotInvited, At, Goto, Step, files, room, local, history
<1>22. CASE Disprove(d)
  BY <1>22 DEF Disprove, At, Goto, Step, files, room, local, history
<1>23. CASE ProbeNothing(d)
  BY <1>23 DEF ProbeNothing, At, Goto, Step, files, room, local, history
<1>24. CASE \E r \in Requests : Answer(r)
  BY <1>24 DEF Answer, Refusals, files, room, local, history
<1>25. CASE Evict
  BY <1>25 DEF Evict, files, room, local, history
<1>26. CASE Lapse
  BY <1>26 DEF Lapse, files, room, local, history
<1>27. CASE BackoffOver
  BY <1>27 DEF BackoffOver, files, room, local, history
<1>28. CASE UNCHANGED vars
  BY <1>28 DEF vars, files, room, local, history
<1> QED
  BY <1>1, <1>2, <1>3, <1>4, <1>5, <1>6, <1>7, <1>8, <1>9, <1>10, <1>11, <1>12,
     <1>13, <1>14, <1>15, <1>16, <1>17, <1>18, <1>19, <1>20, <1>21, <1>22, <1>23, <1>24,
     <1>25, <1>26, <1>27, <1>28
  DEF Next, ClaimStep, JoinStep, DaemonStep

(* One automatic requester never has two requests in the dock, apart from    *)
(* those a crash or a lost answer kept from it, through evictions, denials, *)
(* lapses and deaths.                                                      *)
THEOREM SoleDaemonAsksOnce ==
  ASSUME NEW d \in Daemons, Daemons = {d}, Callers = {}
  PROVE  Spec => []OneRequest
<1>1. Init => Typed /\ Sole(d)
  <2>1. Init => Sole(d)
    BY DEF Init, Sole, Filed, Closed, Procs
  <2> QED
    BY <2>1, InitTyped
<1>2. Typed /\ Sole(d) /\ [Next]_vars => Typed' /\ Sole(d)'
  BY TypedStep, SoleStep
<1>3. Sole(d) => OneRequest
  <2> SUFFICES ASSUME Sole(d) PROVE OneRequest
    OBVIOUS
  <2> DEFINE open == {r \in Requests : status[r] = "open"} \ unfiled
             only == IF pc[d] = "file" THEN held[d] ELSE pending
  <2>1. open \subseteq {only}
    BY DEF Sole, Filed
  <2>2. IsFiniteSet({only}) /\ Cardinality({only}) = 1
    BY FS_Singleton
  <2>3. Cardinality(open) <= 1
    BY <2>1, <2>2, FS_Subset
  <2> QED
    BY <2>3 DEF OneRequest
<1> QED
  BY <1>1, <1>2, <1>3, PTL DEF Spec

(* Whoever runs beside it: after a leave nobody has a reply or the leave to    *)
(* ask in hand, and with the budget suspended nobody gets one.              *)
Gone == left => Settled /\ budget.suspended

LEMMA StaysSettled ==
  ASSUME Typed, Settled, budget.suspended, [Next]_vars, left'
  PROVE  Settled' /\ budget'.suspended
<1> DEFINE Quiet == identity' = 0 /\ pending' = 0 /\ budget'.suspended
<1> USE DEF Typed, TypeOK, Settled, Busy, At, Goto, Step, files, local, history
<1>1. ASSUME Quiet, \A p \in Procs : ~ Busy(p)' PROVE Settled' /\ budget'.suspended
  BY <1>1
<1>2. ASSUME NEW p \in Procs, ClaimStep(p) PROVE Settled' /\ budget'.suspended
  <2>1. Pend(p) \/ Retire(p)
    BY <1>2 DEF ClaimStep, PollNothing, PollApproved, PollRefused, Keep, Forget, Clear, Note, Noted
  <2>2. ASSUME Return(p, FALSE) PROVE \A q \in Procs : ~ Busy(q)'
    <3>1. after[p] \in {"off", "probe", "look", "send"}
      OBVIOUS
    <3> QED
      BY <2>2, <3>1 DEF Return
  <2>3. CASE Pend(p)
    BY <2>2, <2>3 DEF Pend
  <2>4. CASE Retire(p)
    BY <2>2, <2>4 DEF Retire, Unpend
  <2> QED
    BY <2>1, <2>3, <2>4
<1>3. ASSUME NEW p \in Procs, JoinStep(p) PROVE Settled' /\ budget'.suspended
  BY <1>3 DEF JoinStep, EnsurePends, EnsureMay, MayRequest, Unanswered, AskFails, Ask, File
<1>4. ASSUME NEW p \in Procs, Crash(p) PROVE Settled' /\ budget'.suspended
  BY <1>4 DEF Crash
<1>5. ASSUME NEW d \in Daemons, DaemonStep(d) PROVE Settled' /\ budget'.suspended
  BY <1>5 DEF DaemonStep, Start, Exit, Ensure, ProbeOk, NotInvited, Disprove, ProbeNothing, Procs
<1>6. ASSUME NEW c \in Callers, CallerStep(c) PROVE Settled' /\ budget'.suspended
  <2>1. CASE \E v \in Verbs : Run(c, v)
    <3>1. PICK v \in Verbs : Run(c, v)
      BY <2>1
    <3>2. v # "join"
      BY <3>1 DEF Run
    <3> QED
      BY <3>1, <3>2 DEF Run, Claim
  <2>2. CASE Suspend(c)
    <3>1. budget'.suspended
      BY <2>2 DEF Suspend, JoinStates
    <3>2. Settled'
      BY <2>2 DEF Suspend, Leaves
    <3> QED
      BY <3>1, <3>2
  <2>3. CASE Send(c) \/ Wait(c) \/ Look(c) \/ Leave(c) \/ Recall(c)
    <3>1. UNCHANGED <<identity, pending, budget>>
      BY <2>3 DEF Send, Wait, Look, Leave, Recall
    <3>2. \E l \in {"off", "epend", "pend", "wait", "unseat", "suspend"} : Goto(c, l)
      BY <2>3 DEF Send, Claim, Wait, Look, Leave, Recall
    <3> QED
      BY <3>1, <3>2
  <2>4. CASE Unseat(c) \/ Withdraw(c)
    BY <2>4 DEF Unseat, Withdraw, Unpend
  <2> QED
    BY <1>6, <2>1, <2>2, <2>3, <2>4 DEF CallerStep
<1>7. CASE \E r \in Requests : Answer(r)
  BY <1>7 DEF Answer
<1>8. CASE Evict \/ Lapse
  BY <1>8 DEF Evict, Lapse
<1>9. CASE BackoffOver
  BY <1>9 DEF BackoffOver, JoinStates
<1>10. CASE UNCHANGED vars
  BY <1>10 DEF vars
<1> QED
  BY <1>2, <1>3, <1>4, <1>5, <1>6, <1>7, <1>8, <1>9, <1>10 DEF Next

LEMMA GoneStep == Typed /\ Gone /\ [Next]_vars => Gone'
<1> SUFFICES ASSUME Typed, Gone, [Next]_vars, left' PROVE Settled' /\ budget'.suspended
  BY DEF Gone
<1>1. CASE left
  BY <1>1, StaysSettled DEF Gone
<1>2. CASE ~ left
  <2>1. PICK c \in Callers : Suspend(c)
    BY <1>2, Zenon
    DEF Next, vars, history, ClaimStep, Pend, Retire, PollNothing, PollApproved, PollRefused,
        Keep, Forget, Clear, Note, Noted, JoinStep, EnsurePends, EnsureMay, AskFails, Ask, File,
        Crash, DaemonStep, Start, Exit, Ensure, ProbeOk, NotInvited, Disprove, ProbeNothing,
        CallerStep, Run, Send, Wait, Look, Leave, Unseat, Withdraw, Recall, Answer, Evict,
        Lapse, BackoffOver
  <2>2. Settled
    BY <1>2, <2>1 DEF Suspend, Leaves
  <2>3. budget'.suspended
    BY <2>1 DEF Suspend, Typed, TypeOK, JoinStates
  <2>4. Settled'
    BY <2>1, <2>2 DEF Suspend, Leaves, Settled, Busy, Step, At, Goto, Typed, TypeOK
  <2> QED
    BY <2>3, <2>4
<1> QED
  BY <1>1, <1>2

(* "Leaving must STAY left": for any daemons and any verbs of other processes, *)
(* any of them killed at any point, no identity comes back after a leave has  *)
(* returned until the next manual join.                                      *)
THEOREM LeavesStayLeft == Spec => []LeaveStays
<1>1. Init => Typed /\ Gone
  <2>1. Init => Gone
    BY DEF Init, Gone
  <2> QED
    BY <2>1, InitTyped
<1>2. Typed /\ Gone /\ [Next]_vars => Typed' /\ Gone'
  BY TypedStep, GoneStep
<1>3. Gone => LeaveStays
  BY DEF Gone, Settled, LeaveStays
<1> QED
  BY <1>1, <1>2, <1>3, PTL DEF Spec

(* One process, be it a daemon or a person's verbs: join-state.json counts    *)
(* every refusal received, but for the one on its way to being noted, and      *)
(* neither asks nor has a request out when the budget is spent.               *)
Noting == {"drop", "note", "noted"}

Uncounted(p) == IF pc[p] \in Noting THEN refused \ {held[p]} ELSE refused

Spends(p) ==
  /\ Cardinality(Uncounted(p)) <= budget.attempts
  /\ budget.attempts <= MaxAttempts
  /\ pending # 0 \/ pc[p] \in {"ask", "file", "drop", "note", "noted"} => ~ budget.suspended
  /\ pc[p] \in {"note", "noted", "recall", "suspend"} => pending = 0
  /\ pc[p] \in {"noted", "suspend"} => note[p].attempts = budget.attempts
  /\ pc[p] = "poll" => pending # 0

(* The refusals are finitely many, and leaving one out leaves out at most one. *)
LEMMA OneMore ==
  ASSUME Typed
  PROVE  /\ IsFiniteSet(refused) /\ Cardinality(refused) \in Nat
         /\ \A r : /\ Cardinality(refused \ {r}) \in Nat
                   /\ Cardinality(refused \ {r}) <= Cardinality(refused)
                   /\ Cardinality(refused) <= Cardinality(refused \ {r}) + 1
<1>1. IsFiniteSet(1..MaxRequests)
  BY MembershipAssumption, FS_Interval
<1>2. IsFiniteSet(refused) /\ Cardinality(refused) \in Nat
  BY <1>1, FS_Subset, FS_CardinalityType DEF Typed, TypeOK, Requests
<1>3. ASSUME NEW r
      PROVE  /\ Cardinality(refused \ {r}) \in Nat
             /\ Cardinality(refused \ {r}) <= Cardinality(refused)
             /\ Cardinality(refused) <= Cardinality(refused \ {r}) + 1
  <2>1. /\ IsFiniteSet(refused \ {r})
        /\ Cardinality(refused \ {r}) =
             IF r \in refused THEN Cardinality(refused) - 1 ELSE Cardinality(refused)
    BY <1>2, FS_RemoveElement
  <2>2. Cardinality(refused \ {r}) \in Nat
    BY <2>1, FS_CardinalityType
  <2> QED
    BY <1>2, <2>1, <2>2
<1> QED
  BY <1>2, <1>3

LEMMA SpendsStep ==
  ASSUME NEW p \in Procs, Procs = {p}, Typed, Spends(p), [Next]_vars
  PROVE  Spends(p)'
<1> DEFINE all == Cardinality(refused)
           others == Cardinality(refused \ {held[p]})
<1>0. /\ all \in Nat /\ others \in Nat
      /\ others <= all /\ all <= others + 1
  BY OneMore
<1> USE MembershipAssumption DEF Spends, Uncounted, Noting, Typed, TypeOK, Requests
<1>1. CASE Pend(p)
  BY <1>1 DEF Pend, At, Goto, Return, files, room, local, history
<1>2. CASE Retire(p)
  BY <1>2 DEF Retire, At, Goto, Return, Unpend, Step, files, room, local, history
<1>3. CASE PollNothing(p)
  BY <1>3 DEF PollNothing, At, Goto, Return, files, room, local, history
<1>4. CASE PollApproved(p)
  BY <1>4 DEF PollApproved, At, Goto, Step, files, room, local, history
<1>5. CASE PollRefused(p)
  <2>1. Uncounted(p)' = refused \ {held[p]}
    BY <1>5 DEF PollRefused, Step, At, Goto, local
  <2>2. Cardinality(refused) <= budget.attempts /\ budget.attempts \in Nat
    BY <1>5 DEF PollRefused, Step, At, JoinStates
  <2>3. Cardinality(refused \ {held[p]}) <= budget.attempts
    BY <2>2, <1>0
  <2>4. pc[p] = "poll" /\ pc'[p] = "drop" /\ UNCHANGED <<budget, pending>>
    BY <1>5 DEF PollRefused, Step, At, Goto, files
  <2> QED
    BY <2>1, <2>3, <2>4
<1>6. CASE Keep(p)
  BY <1>6 DEF Keep, At, Goto, Step, files, room, local, history
<1>7. CASE Forget(p)
  BY <1>7 DEF Forget, At, Goto, Step, Unpend, files, room, local, history
<1>8. CASE Clear(p)
  <2>1. Uncounted(p)' = {} /\ budget' = Clean
    BY <1>8 DEF Clear, local
  <2>2. Cardinality({}) <= budget'.attempts /\ budget'.attempts <= MaxAttempts
    BY <2>1, FS_EmptySet DEF Clean
  <2>3. pc'[p] \in {"off", "probe", "look", "send"}
    BY <1>8 DEF Clear, Return, Goto
  <2> QED
    BY <2>1, <2>2, <2>3 DEF Clean
<1>9. CASE Note(p)
  BY <1>9 DEF Note, At, Goto, Step, JoinStates, files, room, local, history
<1>10. CASE Noted(p)
  <2>1. pc[p] = "noted" /\ ~ budget.suspended /\ pending = 0 /\ note[p].attempts = budget.attempts
    BY <1>10 DEF Noted, At
  <2>2. budget.attempts \in Nat /\ budget.attempts < MaxAttempts
    BY <2>1 DEF JoinStates
  <2>3. budget'.attempts = budget.attempts + 1 /\ pending' = 0 /\ refused' = refused
    BY <1>10, <2>1 DEF Noted, history
  <2>4. pc'[p] \in {"off", "probe", "look", "send"}
    BY <1>10 DEF Noted, Return, Goto
  <2>5. Cardinality(refused') <= budget'.attempts
    BY <2>1, <2>2, <2>3, <1>0
  <2> QED
    BY <2>2, <2>3, <2>4, <2>5
<1>11. CASE EnsurePends(p)
  BY <1>11 DEF EnsurePends, At, Goto, Claim, files, room, local, history
<1>12. CASE EnsureMay(p)
  BY <1>12 DEF EnsureMay, At, Goto, Unanswered, MayRequest, JoinStates, files, room, local, history
<1>13. CASE AskFails(p)
  BY <1>13 DEF AskFails, At, Goto, Unanswered, Step, files, room, local, history
<1>14. CASE Ask(p)
  BY <1>14 DEF Ask, At, Goto, Unanswered, files, room, local, history
<1>15. CASE File(p)
  BY <1>15 DEF File, At, Goto, Step, files, room, local, history
<1>16. CASE Crash(p)
  BY <1>16 DEF Crash, At, Goto, Refusals, files, room, local, history
<1>17. CASE p \in Daemons /\ Start(p)
  BY <1>17 DEF Start, At, Goto, Step, files, room, local, history
<1>18. CASE p \in Daemons /\ Exit(p)
  BY <1>18 DEF Exit, At, Goto, Step, files, room, local, history
<1>19. CASE p \in Daemons /\ Ensure(p)
  BY <1>19 DEF Ensure, At, Goto, Step, files, room, local, history
<1>20. CASE p \in Daemons /\ ProbeOk(p)
  BY <1>20 DEF ProbeOk, At, Goto, Step, files, room, local, history
<1>21. CASE p \in Daemons /\ NotInvited(p)
  BY <1>21 DEF NotInvited, At, Goto, Step, files, room, local, history
<1>22. CASE p \in Daemons /\ Disprove(p)
  BY <1>22 DEF Disprove, At, Goto, Step, files, room, local, history
<1>23. CASE p \in Daemons /\ ProbeNothing(p)
  BY <1>23 DEF ProbeNothing, At, Goto, Step, files, room, local, history
<1>24. CASE p \in Callers /\ Send(p)
  BY <1>24 DEF Send, At, Goto, MayRequest, JoinStates, files, room, local, history
<1>25. CASE p \in Callers /\ Wait(p)
  BY <1>25 DEF Wait, At, Goto, Claim, files, room, local, history
<1>26. CASE p \in Callers /\ Look(p)
  BY <1>26 DEF Look, At, Goto, Step, files, room, local, history
<1>27. CASE p \in Callers /\ Recall(p)
  BY <1>27 DEF Recall, At, Goto, Step, files, room, local, history
<1>29. CASE p \in Callers /\ Leave(p)
  BY <1>29 DEF Leave, At, Goto, Step, files, room, local, history
<1>30. CASE p \in Callers /\ Unseat(p)
  BY <1>30 DEF Unseat, At, Goto, Step, files, room, local, history
<1>31. CASE p \in Callers /\ Withdraw(p)
  BY <1>31 DEF Withdraw, At, Goto, Step, Unpend, files, room, local, history
<1>32. CASE p \in Callers /\ Suspend(p)
  BY <1>32 DEF Suspend, Leaves, At, Goto, Step, JoinStates, files, room, local, history
<1>33. CASE \E v \in Verbs : p \in Callers /\ Run(p, v)
  <2>1. PICK v \in Verbs : p \in Callers /\ Run(p, v)
    BY <1>33
  <2>2. CASE v = "send" \/ v = "leave"
    BY <2>1, <2>2 DEF Run, At, Goto, Claim
  <2>3. CASE v = "join"
    <3>1. refused' = {} /\ budget' = Clean /\ pc'[p] = "ask"
      BY <2>1, <2>3 DEF Run, Goto
    <3>2. Cardinality(Uncounted(p)') <= budget'.attempts
      BY <3>1, FS_EmptySet DEF Clean
    <3> QED
      BY <3>1, <3>2 DEF Clean
  <2> QED
    BY <2>1, <2>2, <2>3 DEF Run
<1>34. CASE \E r \in Requests : Answer(r)
  BY <1>34 DEF Answer, Refusals, files, room, local, history
<1>35. CASE Evict
  BY <1>35 DEF Evict, Statuses, files, room, local, history
<1>36. CASE Lapse
  BY <1>36 DEF Lapse, Waiting, files, room, local, history
<1>37. CASE BackoffOver
  BY <1>37 DEF BackoffOver, JoinStates, files, room, local, history
<1>38. CASE UNCHANGED vars
  BY <1>38 DEF vars, files, room, local, history
<1> HIDE DEF Spends, Typed, TypeOK, Requests
<1>39. CASE ClaimStep(p) \/ JoinStep(p) \/ Crash(p)
  BY <1>39, <1>1, <1>2, <1>3, <1>4, <1>5, <1>6, <1>7, <1>8, <1>9, <1>10,
     <1>11, <1>12, <1>13, <1>14, <1>15, <1>16
  DEF ClaimStep, JoinStep
<1>40. CASE p \in Daemons /\ DaemonStep(p)
  BY <1>40, <1>17, <1>18, <1>19, <1>20, <1>21, <1>22, <1>23
  DEF DaemonStep
<1>41. CASE p \in Callers /\ CallerStep(p)
  BY <1>41, <1>24, <1>25, <1>26, <1>27, <1>29, <1>30, <1>31, <1>32, <1>33
  DEF CallerStep
<1> QED
  BY <1>34, <1>35, <1>36, <1>37, <1>38, <1>39, <1>40, <1>41
  DEF Next, Procs

(* JOIN_MAX_ATTEMPTS refusals since the last approval or manual join and nobody *)
(* asks again, through evictions, lapses, lost answers and deaths: for one      *)
(* automatic requester, and for one person's verbs.                            *)
THEOREM SoleRequesterKeepsBudget ==
  ASSUME NEW p \in Procs, Procs = {p}
  PROVE  Spec => []BudgetKept
<1>1. Init => Typed /\ Spends(p)
  <2>1. Init => Spends(p)
    <3>1. Cardinality({}) = 0
      BY FS_EmptySet
    <3> QED
      BY <3>1, MembershipAssumption DEF Init, Spends, Uncounted, Noting, Clean, Procs
  <2> QED
    BY <2>1, InitTyped
<1>2. Typed /\ Spends(p) /\ [Next]_vars => Typed' /\ Spends(p)'
  BY TypedStep, SpendsStep
<1>3. Typed /\ Spends(p) => BudgetKept
  <2> SUFFICES ASSUME Typed, Spends(p) PROVE BudgetKept
    OBVIOUS
  <2>1. budget.attempts \in Nat /\ (budget.attempts >= MaxAttempts => budget.suspended)
    BY DEF Typed, TypeOK, JoinStates
  <2>2. CASE pc[p] \in Noting
    <3>1. budget.attempts < MaxAttempts /\ Cardinality(refused \ {held[p]}) <= budget.attempts
      BY <2>1, <2>2, MembershipAssumption DEF Spends, Uncounted, Noting
    <3> QED
      BY <2>1, <3>1, OneMore, MembershipAssumption DEF BudgetKept
  <2>3. CASE pc[p] \notin Noting
    <3>1. Cardinality(refused) <= budget.attempts /\ budget.attempts <= MaxAttempts
      BY <2>3 DEF Spends, Uncounted
    <3> QED
      BY <2>1, <3>1, OneMore, MembershipAssumption DEF BudgetKept
  <2> QED
    BY <2>2, <2>3
<1> QED
  BY <1>1, <1>2, <1>3, PTL DEF Spec

=============================================================================

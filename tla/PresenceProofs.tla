--------------------------- MODULE PresenceProofs ---------------------------
(***************************************************************************)
(* That no session is left deaf by a hand-over, for any number of daemons   *)
(* and sessions: the type invariant, then NeverDeaf with what it rests on.  *)
(***************************************************************************)
EXTENDS Presence, TLAPS

PCTyped == /\ pc \in [Procs -> DaemonLabels \cup HookLabels]
           /\ \A d \in Daemons : pc[d] \in DaemonLabels
           /\ \A s \in Sessions : pc[s] \in HookLabels

DataTyped ==
  /\ pidfile \in Daemons \cup {Nobody} /\ warm \in BOOLEAN /\ left \in BOOLEAN
  /\ stamp \in Versions \cup {""} /\ marker \in [Names -> Kinds]
  /\ alive \subseteq Sessions
  /\ ver \in [Daemons -> Versions]
  /\ todo \in [Daemons -> SUBSET Names] /\ doomed \in [Daemons -> SUBSET Names]
  /\ faults \in 0..MaxFaults

LEMMA TypesSplit == /\ Typed <=> PCTyped /\ DataTyped
                    /\ Typed' <=> PCTyped' /\ DataTyped'
BY DEF Typed, PCTyped, DataTyped

LEMMA FaultTyped == ASSUME faults \in 0..MaxFaults, Fault PROVE faults' \in 0..MaxFaults
BY PresenceAssumption DEF Fault

LEMMA PidTyped == ASSUME NEW s \in Sessions PROVE Pid(s) \subseteq Kinds \ {"none"}
BY PresenceAssumption DEF Pid, Kinds

LEMMA InitTyped == Init => Typed
<1> SUFFICES ASSUME Init PROVE PCTyped /\ DataTyped
  BY TypesSplit
<1>1. PCTyped
  <2>1. pc \in [Procs -> {"off", "pass"}]
    BY DEF Init
  <2>2. pidfile \notin Sessions
    BY PresenceAssumption DEF Init
  <2> QED
    BY <2>1, <2>2 DEF Init, PCTyped, Procs, DaemonLabels, HookLabels
<1>2. DataTyped
  <2>1. marker \in [Names -> Kinds] /\ ver \in [Daemons -> Versions]
    BY DEF Init, Kinds, Versions
  <2>2. todo \in [Daemons -> SUBSET Names] /\ doomed \in [Daemons -> SUBSET Names]
    BY DEF Init
  <2>3. warm \in BOOLEAN /\ left \in BOOLEAN /\ faults = 0 /\ alive \subseteq Sessions
    BY DEF Init
  <2>4. pidfile \in Daemons \cup {Nobody} /\ stamp \in Versions \cup {""}
    BY DEF Init, Versions
  <2>5. faults \in 0..MaxFaults
    BY <2>3, PresenceAssumption
  <2> QED
    BY <2>1, <2>2, <2>3, <2>4, <2>5 DEF DataTyped
<1> QED
  BY <1>1, <1>2

LEMMA EnsureTyped ==
  ASSUME Typed, NEW p \in Procs, Ensure(p) \/ SpawnFails(p)
  PROVE  Typed'
<1> USE PresenceAssumption DEF At, Goto, Step, Return, files, memory, Procs, Names
<1>0. PCTyped /\ DataTyped
  BY TypesSplit
<1>1. CASE Stat(p)
  <2>1. PCTyped'
    BY <1>0, <1>1 DEF Stat, PCTyped, DaemonLabels, HookLabels
  <2>2. DataTyped'
    BY <1>0, <1>1 DEF Stat, DataTyped, Kinds, Versions
  <2> QED
    BY <2>1, <2>2, TypesSplit
<1>2. CASE Stamped(p)
  <2>1. PCTyped'
    BY <1>0, <1>2 DEF Stamped, PCTyped, DaemonLabels, HookLabels
  <2>2. DataTyped'
    BY <1>0, <1>2 DEF Stamped, DataTyped, Kinds, Versions
  <2> QED
    BY <2>1, <2>2, TypesSplit
<1>3. CASE Decline(p)
  <2>1. PCTyped'
    BY <1>0, <1>3 DEF Decline, PCTyped, DaemonLabels, HookLabels
  <2>2. DataTyped'
    BY <1>0, <1>3 DEF Decline, DataTyped, Kinds, Versions
  <2> QED
    BY <2>1, <2>2, TypesSplit
<1>4. CASE SpawnFails(p)
  <2>1. PCTyped'
    BY <1>0, <1>4 DEF SpawnFails, PCTyped, DaemonLabels, HookLabels
  <2>2. DataTyped'
    BY <1>0, <1>4, FaultTyped DEF SpawnFails, DataTyped, Kinds, Versions
  <2> QED
    BY <2>1, <2>2, TypesSplit
<1>5. CASE Spawn(p) /\ p \in Daemons
  <2>1. PCTyped'
    BY <1>0, <1>5 DEF Spawn, Hatch, PCTyped, DaemonLabels, HookLabels
  <2>2. DataTyped'
    BY <1>0, <1>5 DEF Spawn, Hatch, DataTyped
  <2> QED
    BY <2>1, <2>2, TypesSplit
<1>6. CASE Spawn(p) /\ p \in Sessions
  <2>1. PICK d \in Daemons : /\ pc' = [pc EXCEPT ![p] = "off", ![d] = "boot"]
                            /\ ver' = [ver EXCEPT ![d] = "new"]
    BY <1>6 DEF Spawn, Hatch, Artifact
  <2>2. PCTyped'
    BY <1>0, <1>6, <2>1 DEF PCTyped, DaemonLabels, HookLabels
  <2>3. DataTyped'
    BY <1>0, <1>6, <2>1 DEF Spawn, DataTyped, Versions
  <2> QED
    BY <2>2, <2>3, TypesSplit
<1> QED
  BY <1>1, <1>2, <1>3, <1>4, <1>5, <1>6 DEF Ensure

LEMMA SessionTyped ==
  ASSUME Typed, NEW p \in Sessions, SessionStep(p)
  PROVE  Typed'
<1> USE PresenceAssumption DEF At, Goto, Step, Return, files, memory, Procs, Names
<1>0. PCTyped /\ DataTyped
  BY TypesSplit
<1>1. CASE Begin(p)
  <2>1. PCTyped'
    BY <1>0, <1>1 DEF Begin, PCTyped, DaemonLabels, HookLabels
  <2>2. DataTyped'
    BY <1>0, <1>1 DEF Begin, DataTyped, Kinds, Versions
  <2> QED
    BY <2>1, <2>2, TypesSplit
<1>2. CASE Turn(p)
  <2>1. PCTyped'
    BY <1>0, <1>2 DEF Turn, PCTyped, DaemonLabels, HookLabels
  <2>2. DataTyped'
    BY <1>0, <1>2 DEF Turn, DataTyped, Kinds, Versions
  <2> QED
    BY <2>1, <2>2, TypesSplit
<1>3. CASE Mark(p)
  <2>1. PCTyped'
    BY <1>0, <1>3 DEF Mark, PCTyped, DaemonLabels, HookLabels
  <2>2. DataTyped'
    BY <1>0, <1>3, PidTyped DEF Mark, DataTyped
  <2> QED
    BY <2>1, <2>2, TypesSplit
<1>4. CASE MarkWrong(p)
  <2>1. PCTyped'
    BY <1>0, <1>4 DEF MarkWrong, PCTyped, DaemonLabels, HookLabels
  <2>2. DataTyped'
    BY <1>0, <1>4, FaultTyped DEF MarkWrong, DataTyped, Kinds, Versions
  <2> QED
    BY <2>1, <2>2, TypesSplit
<1>5. CASE MarkFails(p)
  <2>1. PCTyped'
    BY <1>0, <1>5 DEF MarkFails, PCTyped, DaemonLabels, HookLabels
  <2>2. DataTyped'
    BY <1>0, <1>5, FaultTyped DEF MarkFails, DataTyped, Kinds, Versions
  <2> QED
    BY <2>1, <2>2, TypesSplit
<1>6. CASE KillHook(p)
  <2>1. PCTyped'
    BY <1>0, <1>6 DEF KillHook, PCTyped, DaemonLabels, HookLabels
  <2>2. DataTyped'
    BY <1>0, <1>6, FaultTyped, PidTyped DEF KillHook, DataTyped, Kinds
  <2> QED
    BY <2>1, <2>2, TypesSplit
<1>7. CASE End(p)
  <2>1. PCTyped'
    BY <1>0, <1>7 DEF End, Exits, PCTyped, DaemonLabels, HookLabels
  <2>2. DataTyped'
    BY <1>0, <1>7 DEF End, Exits, DataTyped, Kinds, Versions
  <2> QED
    BY <2>1, <2>2, TypesSplit
<1>8. CASE Die(p)
  <2>1. PCTyped'
    BY <1>0, <1>8 DEF Die, Exits, PCTyped, DaemonLabels, HookLabels
  <2>2. DataTyped'
    BY <1>0, <1>8 DEF Die, Exits, DataTyped, Kinds, Versions
  <2> QED
    BY <2>1, <2>2, TypesSplit
<1>9. CASE StrangerDies(p)
  <2>1. PCTyped'
    BY <1>0, <1>9 DEF StrangerDies, PCTyped, DaemonLabels, HookLabels
  <2>2. DataTyped'
    BY <1>0, <1>9 DEF StrangerDies, DataTyped, Kinds, Versions
  <2> QED
    BY <2>1, <2>2, TypesSplit
<1> QED
  BY <1>1, <1>2, <1>3, <1>4, <1>5, <1>6, <1>7, <1>8, <1>9 DEF SessionStep

LEMMA DaemonTyped ==
  ASSUME Typed, NEW p \in Daemons, DaemonStep(p) \/ Crash(p) \/ Late(p)
  PROVE  Typed'
<1> USE PresenceAssumption DEF At, Goto, Step, Return, files, memory, Procs, Names
<1>0. PCTyped /\ DataTyped
  BY TypesSplit
<1>1. CASE Claim(p)
  <2>1. PCTyped'
    BY <1>0, <1>1 DEF Claim, PCTyped, DaemonLabels, HookLabels
  <2>2. DataTyped'
    BY <1>0, <1>1 DEF Claim, DataTyped, Kinds, Versions
  <2> QED
    BY <2>1, <2>2, TypesSplit
<1>2. CASE Sign(p)
  <2>1. PCTyped'
    BY <1>0, <1>2 DEF Sign, PCTyped, DaemonLabels, HookLabels
  <2>2. DataTyped'
    BY <1>0, <1>2 DEF Sign, DataTyped, Kinds, Versions
  <2> QED
    BY <2>1, <2>2, TypesSplit
<1>3. CASE List(p)
  <2>1. PCTyped'
    BY <1>0, <1>3 DEF List, PCTyped, DaemonLabels, HookLabels
  <2>2. todo' \in [Daemons -> SUBSET Names]
    BY <1>0, <1>3 DEF List, DataTyped, Marked
  <2> QED
    BY <1>0, <1>3, <2>1, <2>2, TypesSplit DEF List, DataTyped
<1>4. CASE Judge(p)
  <2>1. PCTyped'
    BY <1>0, <1>4 DEF Judge, PCTyped, DaemonLabels, HookLabels
  <2>2. todo' \in [Daemons -> SUBSET Names] /\ doomed' \in [Daemons -> SUBSET Names]
    <3>1. PICK n \in todo[p] :
             /\ todo' = [todo EXCEPT ![p] = @ \ {n}]
             /\ doomed' = [doomed EXCEPT ![p] = IF marker[n] = "dead" THEN {n} ELSE {}]
      BY <1>4 DEF Judge
    <3> QED
      BY <1>0, <3>1 DEF DataTyped
  <2> QED
    BY <1>0, <1>4, <2>1, <2>2, TypesSplit DEF Judge, DataTyped
<1>5. CASE Collect(p)
  <2>1. PCTyped'
    BY <1>0, <1>5 DEF Collect, PCTyped, DaemonLabels, HookLabels
  <2>2. DataTyped'
    BY <1>0, <1>5 DEF Collect, DataTyped, Kinds, Versions
  <2> QED
    BY <2>1, <2>2, TypesSplit
<1>6. CASE Look(p)
  <2>1. PCTyped'
    BY <1>0, <1>6 DEF Look, PCTyped, DaemonLabels, HookLabels
  <2>2. DataTyped'
    BY <1>0, <1>6 DEF Look, DataTyped, Kinds, Versions
  <2> QED
    BY <2>1, <2>2, TypesSplit
<1>7. CASE Release(p)
  <2>1. PCTyped'
    BY <1>0, <1>7 DEF Release, PCTyped, DaemonLabels, HookLabels
  <2>2. DataTyped'
    BY <1>0, <1>7 DEF Release, DataTyped, Kinds, Versions
  <2> QED
    BY <2>1, <2>2, TypesSplit
<1>8. CASE Unlink(p)
  <2>1. PCTyped'
    BY <1>0, <1>8 DEF Unlink, PCTyped, DaemonLabels, HookLabels
  <2>2. DataTyped'
    BY <1>0, <1>8 DEF Unlink, DataTyped, Kinds, Versions
  <2> QED
    BY <2>1, <2>2, TypesSplit
<1>9. CASE Unsign(p)
  <2>1. PCTyped'
    BY <1>0, <1>9 DEF Unsign, PCTyped, DaemonLabels, HookLabels
  <2>2. DataTyped'
    BY <1>0, <1>9 DEF Unsign, DataTyped, Kinds, Versions
  <2> QED
    BY <2>1, <2>2, TypesSplit
<1>10. CASE Recheck(p)
  <2>1. PCTyped'
    BY <1>0, <1>10 DEF Recheck, PCTyped, DaemonLabels, HookLabels
  <2>2. DataTyped'
    BY <1>0, <1>10 DEF Recheck, DataTyped, Kinds, Versions
  <2> QED
    BY <2>1, <2>2, TypesSplit
<1>11. CASE Stay(p)
  <2>1. PCTyped'
    BY <1>0, <1>11 DEF Stay, PCTyped, DaemonLabels, HookLabels
  <2>2. DataTyped'
    BY <1>0, <1>11 DEF Stay, DataTyped, Kinds, Versions
  <2> QED
    BY <2>1, <2>2, TypesSplit
<1>12. CASE StandDown(p)
  <2>1. PCTyped'
    BY <1>0, <1>12 DEF StandDown, PCTyped, DaemonLabels, HookLabels
  <2>2. DataTyped'
    BY <1>0, <1>12 DEF StandDown, DataTyped, Kinds, Versions
  <2> QED
    BY <2>1, <2>2, TypesSplit
<1>13. CASE Chunk(p)
  <2>1. PCTyped'
    BY <1>0, <1>13 DEF Chunk, PCTyped, DaemonLabels, HookLabels
  <2>2. DataTyped'
    BY <1>0, <1>13 DEF Chunk, DataTyped, Kinds, Versions
  <2> QED
    BY <2>1, <2>2, TypesSplit
<1>14. CASE Final(p)
  <2>1. PCTyped'
    BY <1>0, <1>14 DEF Final, PCTyped, DaemonLabels, HookLabels
  <2>2. DataTyped'
    BY <1>0, <1>14 DEF Final, DataTyped, Kinds, Versions
  <2> QED
    BY <2>1, <2>2, TypesSplit
<1>15. CASE Crash(p)
  <2>1. PCTyped'
    BY <1>0, <1>15 DEF Crash, PCTyped, DaemonLabels, HookLabels
  <2>2. DataTyped'
    BY <1>0, <1>15, FaultTyped DEF Crash, DataTyped, Kinds, Versions
  <2> QED
    BY <2>1, <2>2, TypesSplit
<1>16. CASE Late(p)
  <2>1. PCTyped'
    BY <1>0, <1>16 DEF Late, PCTyped, DaemonLabels, HookLabels
  <2>2. DataTyped'
    BY <1>0, <1>16, FaultTyped DEF Late, DataTyped, Kinds, Versions
  <2> QED
    BY <2>1, <2>2, TypesSplit
<1> QED
  BY <1>1, <1>2, <1>3, <1>4, <1>5, <1>6, <1>7, <1>8, <1>9, <1>10, <1>11, <1>12, <1>13, <1>14, <1>15, <1>16 DEF DaemonStep

LEMMA TypedStep == Typed /\ [Next]_vars => Typed'
<1> SUFFICES ASSUME Typed, [Next]_vars PROVE Typed'
  OBVIOUS
<1>1. ASSUME NEW n \in Names, Expire(n) PROVE Typed'
  BY <1>1 DEF Expire, Typed, memory, Kinds
<1>2. CASE Leave \/ Rejoin
  BY <1>2, FaultTyped DEF Leave, Rejoin, Typed, memory
<1>3. CASE UNCHANGED vars
  BY <1>3 DEF vars, files, memory, Typed
<1> QED
  BY <1>1, <1>2, <1>3, EnsureTyped, SessionTyped, DaemonTyped DEF Next

(* A daemon comes to a point past its release by releasing, or by starting.  *)
LEMMA LetGoStep == Typed /\ LetGo /\ [Next]_vars => LetGo'
<1> SUFFICES ASSUME Typed, LetGo, [Next]_vars PROVE LetGo'
  OBVIOUS
<1> USE PresenceAssumption DEF At, Goto, Step, files, memory, Procs, Names
<1>1. CASE UNCHANGED vars
  BY <1>1 DEF vars, LetGo
<1>2. ASSUME NEW p \in Procs, Ensure(p) \/ SpawnFails(p) PROVE LetGo'
  <2>1. pidfile' = pidfile
    BY <1>2 DEF Ensure, Stat, Stamped, Decline, Spawn, SpawnFails
  <2>2. CASE Stat(p)
    BY <2>1, <2>2 DEF Stat, Typed, LetGo
  <2>3. CASE Stamped(p)
    BY <2>1, <2>3 DEF Stamped, Return, Typed, LetGo
  <2>4. CASE Decline(p) \/ SpawnFails(p)
    BY <2>1, <2>4 DEF Decline, SpawnFails, Return, Typed, LetGo
  <2>5. CASE Spawn(p)
    BY <2>1, <2>5 DEF Spawn, Hatch, Typed, LetGo
  <2> QED
    BY <1>2, <2>2, <2>3, <2>4, <2>5 DEF Ensure
<1>3. ASSUME NEW s \in Sessions, SessionStep(s) PROVE LetGo'
  <2>1. pidfile' = pidfile
    BY <1>3 DEF SessionStep, Begin, Turn, Mark, MarkWrong, MarkFails, KillHook, End, Die,
       Exits, StrangerDies
  <2>2. \A d \in Daemons : pc'[d] = pc[d]
    <3>1. \A d \in Daemons : d # s
      OBVIOUS
    <3> QED
      BY <1>3, <3>1 DEF SessionStep, Begin, Turn, Mark, MarkWrong, MarkFails, KillHook, End,
         Die, Exits, StrangerDies, Typed
  <2> QED
    BY <2>1, <2>2 DEF LetGo
<1>4. ASSUME NEW n \in Names, Expire(n) PROVE LetGo'
  BY <1>4 DEF Expire, LetGo
<1>5. ASSUME NEW d \in Daemons, DaemonStep(d) \/ Crash(d) \/ Late(d) PROVE LetGo'
  <2>1. CASE Claim(d) \/ Sign(d) \/ List(d)
    BY <2>1 DEF Claim, Sign, List, Typed, LetGo
  <2>2. CASE Judge(d) \/ Collect(d) \/ Chunk(d) \/ Late(d)
    BY <2>2 DEF Judge, Collect, Chunk, Late, LetGo
  <2>3. CASE Look(d) \/ Release(d) \/ Recheck(d)
    BY <2>3 DEF Look, Release, Recheck, Typed, LetGo
  <2>4. CASE Unlink(d) \/ Unsign(d)
    BY <2>4 DEF Unlink, Unsign, Typed, LetGo
  <2>5. CASE Stay(d) \/ StandDown(d) \/ Final(d) \/ Crash(d)
    BY <2>5 DEF Stay, StandDown, Final, Crash, Typed, LetGo
  <2> QED
    BY <1>5, <2>1, <2>2, <2>3, <2>4, <2>5 DEF DaemonStep
<1>6. CASE Leave \/ Rejoin
  BY <1>6 DEF Leave, Rejoin, LetGo
<1> QED
  BY <1>1, <1>2, <1>3, <1>4, <1>5, <1>6 DEF Next

(* The types, and a daemon that hands on has let the pidfile go, whatever    *)
(* happens.                                                                *)
THEOREM PresenceTypes == Spec => []TypeOK
<1>1. Typed /\ LetGo /\ [Next]_vars => Typed' /\ LetGo'
  BY TypedStep, LetGoStep
<1>2. Init => Typed /\ LetGo
  <2>1. Init => LetGo
    BY PresenceAssumption DEF Init, LetGo, Procs
  <2> QED
    BY <2>1, InitTyped
<1>3. Typed /\ LetGo => TypeOK
  BY DEF TypeOK
<1> QED
  BY <1>1, <1>2, <1>3, PTL DEF Spec

-----------------------------------------------------------------------------
(* While nothing has failed: the room has not been left; whoever is in the   *)
(* pidfile is on its rounds and will look at the markers, or release the     *)
(* file before it looks again; and that is what a hook may rely on when it   *)
(* defers.                                                                 *)
Serving == {"sign", "pass", "gc", "release", "unlink", "owner"}

OwnerServes == pidfile \in Daemons => pc[pidfile] \in Serving

Quiet == ~ left /\ OwnerServes

Ear == Typed /\ (faults = 0 => Quiet) /\ NeverDeaf

(* What a step that faults does is not looked at further.                   *)
LEMMA FaultExcuses == ASSUME Typed, Fault PROVE faults' # 0
<1>1. faults \in 0..MaxFaults
  BY DEF Typed
<1>2. faults' = faults + 1
  BY DEF Fault
<1> QED
  BY <1>1, <1>2, PresenceAssumption

LEMMA NoFaultBefore ==
  ASSUME Ear, faults' = faults PROVE faults' = 0 => faults = 0 /\ Quiet
BY DEF Ear

(* The owner of the pidfile changes only by a claim or a release.           *)
LEMMA InitEar == Init => Ear
<1> SUFFICES ASSUME Init PROVE Quiet /\ NeverDeaf
  BY InitTyped DEF Ear
<1>1. Quiet
  BY DEF Init, Quiet, OwnerServes, Serving, Procs
<1>2. NeverDeaf
  BY DEF Init, NeverDeaf, Names
<1> QED
  BY <1>1, <1>2

(* A step of ensure_daemon() or of a starting daemon.                       *)
LEMMA EnsureEar ==
  ASSUME Ear, Typed', NEW p \in Procs, Ensure(p) \/ SpawnFails(p)
  PROVE  Ear'
<1> USE PresenceAssumption DEF At, Goto, Step, Return, files, memory, Procs
<1>0. Typed
  BY DEF Ear
<1>1. CASE SpawnFails(p)
  BY <1>0, <1>1, FaultExcuses DEF SpawnFails, Ear, NeverDeaf
<1>2. CASE Ensure(p)
  <2>1. faults' = faults /\ left' = left /\ pidfile' = pidfile /\ marker' = marker
    BY <1>2 DEF Ensure, Stat, Stamped, Decline, Spawn
  <2> SUFFICES ASSUME faults = 0, Quiet PROVE Quiet' /\ NeverDeaf'
    BY <1>0, <2>1, NoFaultBefore DEF Ear, NeverDeaf
  <2>2. p # pidfile
    BY <1>0, <1>2 DEF Ensure, Stat, Stamped, Decline, Spawn, Quiet, OwnerServes, Serving, Typed
  <2>3. Quiet'
    <3>1. \A d \in Daemons : d = pidfile => pc'[d] = pc[d]
      BY <1>0, <1>2, <2>2 DEF Ensure, Stat, Stamped, Decline, Spawn, Hatch, Typed
    <3> QED
      BY <2>1, <3>1 DEF Quiet, OwnerServes
  <2>4. NeverDeaf'
    <3> SUFFICES ASSUME NEW s \in Sessions, marker[s] # "none", pc'[s] \in {"off", "stamp"}
                 PROVE  \E d \in Daemons : OnDuty(d)'
      BY <2>1 DEF NeverDeaf, OnDuty
    <3>1. CASE Stat(p)
      <4>1. CASE OwnerLives
        <5>1. pidfile \in Daemons /\ OnDuty(pidfile)
          BY <1>0, <4>1 DEF OwnerLives, ProcAlive, Quiet, OwnerServes, Serving, OnDuty, Typed
        <5>2. OnDuty(pidfile)'
          BY <1>0, <2>2, <3>1, <5>1 DEF Stat, OnDuty, Typed
        <5> QED
          BY <2>1, <5>1, <5>2 DEF OnDuty
      <4>2. CASE ~ OwnerLives
        <5>1. s # p /\ pc'[s] = pc[s]
          BY <1>0, <3>1, <4>2 DEF Stat, Typed
        <5>2. PICK d \in Daemons : OnDuty(d)
          BY <5>1 DEF NeverDeaf, Ear
        <5>3. OnDuty(d)'
          BY <1>0, <3>1, <4>2, <5>2 DEF Stat, OnDuty, Typed
        <5> QED
          BY <5>3
      <4> QED
        BY <4>1, <4>2
    <3>2. CASE Stamped(p)
      <4>1. pc[s] \in {"off", "stamp"}
        <5>1. CASE s = p
          BY <1>0, <3>2, <5>1 DEF Stamped, Typed, HookLabels
        <5>2. CASE s # p
          BY <1>0, <3>2, <5>2 DEF Stamped, Typed
        <5> QED
          BY <5>1, <5>2
      <4>2. PICK d \in Daemons : OnDuty(d)
        BY <4>1 DEF NeverDeaf, Ear
      <4>3. d # p
        BY <3>2, <4>2 DEF Stamped, OnDuty
      <4>4. OnDuty(d)'
        BY <1>0, <3>2, <4>2, <4>3 DEF Stamped, OnDuty, Typed
      <4> QED
        BY <4>4
    <3>3. CASE Decline(p)
      BY <3>3 DEF Decline, Quiet
    <3>4. CASE Spawn(p)
      <4>1. PICK d \in Daemons : pc'[d] = "boot"
        BY <1>0, <3>4 DEF Spawn, Hatch, Typed
      <4> QED
        BY <4>1 DEF OnDuty
    <3> QED
      BY <1>2, <3>1, <3>2, <3>3, <3>4 DEF Ensure
  <2> QED
    BY <2>3, <2>4
<1> QED
  BY <1>1, <1>2

(* A session's own steps touch neither the pidfile nor a daemon.            *)
LEMMA SessionEar ==
  ASSUME Ear, Typed', NEW p \in Sessions, SessionStep(p)
  PROVE  Ear'
<1> USE PresenceAssumption DEF At, Goto, Step, files, memory, Procs, Names
<1>0. Typed
  BY DEF Ear
<1>1. CASE MarkWrong(p) \/ MarkFails(p) \/ KillHook(p)
  BY <1>0, <1>1, FaultExcuses DEF MarkWrong, MarkFails, KillHook, Ear, NeverDeaf
<1>2. CASE Begin(p) \/ Turn(p) \/ Mark(p) \/ End(p) \/ Die(p) \/ StrangerDies(p)
  <2>1. faults' = faults /\ left' = left /\ pidfile' = pidfile
    BY <1>2 DEF Begin, Turn, Mark, End, Die, Exits, StrangerDies
  <2>2. ASSUME NEW d \in Daemons PROVE pc'[d] = pc[d]
    <3>1. d # p
      BY PresenceAssumption
    <3> QED
      BY <1>0, <1>2, <3>1 DEF Begin, Turn, Mark, End, Die, Exits, StrangerDies, Typed
  <2>3. \A s \in Sessions : marker'[s] # "none" /\ pc'[s] \in {"off", "stamp"}
                              => marker[s] # "none" /\ pc[s] \in {"off", "stamp"}
    <3>1. CASE Begin(p) \/ Turn(p)
      BY <1>0, <3>1 DEF Begin, Turn, Typed
    <3>2. CASE Mark(p)
      BY <1>0, <3>2 DEF Mark, Typed
    <3>3. CASE End(p) \/ Die(p) \/ StrangerDies(p)
      BY <1>0, <3>3 DEF End, Die, Exits, StrangerDies, Typed
    <3> QED
      BY <1>2, <3>1, <3>2, <3>3
  <2> SUFFICES ASSUME faults = 0, Quiet PROVE Quiet' /\ NeverDeaf'
    BY <1>0, <2>1, NoFaultBefore DEF Ear, NeverDeaf
  <2>4. Quiet'
    BY <2>1, <2>2 DEF Quiet, OwnerServes
  <2>5. NeverDeaf'
    BY <2>1, <2>2, <2>3 DEF Ear, NeverDeaf, OnDuty
  <2> QED
    BY <2>4, <2>5
<1> QED
  BY <1>1, <1>2 DEF SessionStep

(* A daemon's step: who it leaves in the pidfile serves, and the last one on *)
(* duty goes only when nobody is marked or another has the file.            *)
LEMMA DaemonEar ==
  ASSUME Ear, Typed', NEW d \in Daemons, DaemonStep(d)
  PROVE  Ear'
<1> USE PresenceAssumption DEF At, Goto, Step, files, memory, Procs, Names
<1>0. Typed
  BY DEF Ear
<1>1. faults' = faults /\ left' = left
  BY DEF DaemonStep, Claim, Sign, List, Judge, Collect, Look, Release, Unlink, Unsign,
         Recheck, Stay, StandDown, Chunk, Final
<1>2. ASSUME NEW p \in Procs, p # d PROVE pc'[p] = pc[p]
  BY <1>0, <1>2 DEF DaemonStep, Claim, Sign, List, Judge, Collect, Look, Release, Unlink,
     Unsign, Recheck, Stay, StandDown, Chunk, Final, Typed
<1>3. ASSUME NEW s \in Sessions, marker'[s] # "none" PROVE marker[s] # "none"
  <2>1. CASE Collect(d)
    BY <1>3, <2>1 DEF Collect
  <2>2. CASE marker' = marker
    BY <1>3, <2>2
  <2> QED
    BY <2>1, <2>2 DEF DaemonStep, Claim, Sign, List, Judge, Look, Release, Unlink,
       Unsign, Recheck, Stay, StandDown, Chunk, Final
<1> SUFFICES ASSUME faults = 0, Quiet PROVE Quiet' /\ NeverDeaf'
  BY <1>0, <1>1, NoFaultBefore DEF Ear, NeverDeaf
<1>4. Quiet'
  <2>1. CASE Claim(d)
    <3>1. pidfile' = d /\ pc'[d] = "sign"
      BY <1>0, <2>1 DEF Claim, Typed
    <3> QED
      BY <1>1, <3>1 DEF Quiet, OwnerServes, Serving
  <2>2. CASE Unlink(d)
    BY <1>1, <2>2 DEF Unlink, Quiet, OwnerServes
  <2>3. CASE pidfile' = pidfile /\ pidfile # d
    BY <1>1, <1>2, <2>3 DEF Quiet, OwnerServes
  <2>4. CASE pidfile' = pidfile /\ pidfile = d
    <3>1. pc[d] \in Serving
      BY <2>4 DEF Quiet, OwnerServes
    <3>2. pc'[d] \in Serving
      <4>1. CASE Sign(d) \/ List(d)
        BY <1>0, <4>1 DEF Sign, List, Typed, Serving
      <4>2. CASE Judge(d) \/ Collect(d) \/ Chunk(d)
        BY <3>1, <4>2 DEF Judge, Collect, Chunk
      <4>3. CASE Look(d) \/ Release(d) \/ Stay(d)
        BY <1>0, <2>4, <4>3 DEF Look, Release, Stay, Typed, Serving
      <4>4. CASE Unsign(d) \/ Recheck(d) \/ Final(d)
        BY <3>1, <4>4 DEF Unsign, Recheck, Final, Serving
      <4>5. CASE StandDown(d)
        BY <2>4, <4>5 DEF StandDown, Quiet
      <4>6. CASE Claim(d) \/ Unlink(d)
        BY <2>4, <3>1, <4>6 DEF Claim, Unlink, Serving
      <4> QED
        BY <4>1, <4>2, <4>3, <4>4, <4>5, <4>6 DEF DaemonStep
    <3> QED
      BY <1>1, <2>4, <3>2 DEF Quiet, OwnerServes
  <2> QED
    BY <2>1, <2>2, <2>3, <2>4 DEF DaemonStep, Sign, List, Judge, Collect, Look, Release,
       Unsign, Recheck, Stay, StandDown, Chunk, Final
<1>5. NeverDeaf'
  <2> SUFFICES ASSUME NEW s \in Sessions, marker'[s] # "none", pc'[s] \in {"off", "stamp"}
               PROVE  \E e \in Daemons : OnDuty(e)'
    BY DEF NeverDeaf, OnDuty
  <2>1. marker[s] # "none" /\ pc[s] \in {"off", "stamp"}
    BY <1>2, <1>3
  <2>2. PICK e \in Daemons : OnDuty(e)
    BY <2>1 DEF Ear, NeverDeaf
  <2>3. CASE e # d
    BY <1>2, <2>2, <2>3 DEF OnDuty
  <2>4. CASE e = d
    <3>1. CASE Claim(d) \/ Sign(d) \/ List(d) \/ Look(d) \/ Release(d) \/ Stay(d)
      BY <1>0, <3>1 DEF Claim, Sign, List, Look, Release, Stay, Typed, OnDuty
    <3>2. CASE Judge(d) \/ Collect(d) \/ Chunk(d)
      BY <2>2, <2>4, <3>2 DEF Judge, Collect, Chunk, OnDuty
    <3>3. CASE Unlink(d) \/ Unsign(d)
      BY <1>0, <2>2, <2>4, <3>3 DEF Unlink, Unsign, Typed, OnDuty
    <3>4. CASE Recheck(d)
      <4>1. Marked # {}
        BY <2>1 DEF Marked
      <4> QED
        BY <1>0, <3>4, <4>1 DEF Recheck, Typed, OnDuty
    <3>5. CASE StandDown(d)
      <4>1. pidfile \in Daemons \ {d} /\ pc[pidfile] \in Serving
        BY <1>0, <3>5 DEF StandDown, Quiet, OwnerServes, Typed
      <4>2. pc'[pidfile] = pc[pidfile]
        BY <1>2, <4>1
      <4>3. PICK f \in Daemons : f = pidfile
        BY <4>1
      <4> QED
        BY <4>1, <4>2, <4>3 DEF Serving, OnDuty
    <3>6. CASE Final(d)
      BY <2>2, <2>4, <3>6 DEF Final, OnDuty
    <3> QED
      BY <3>1, <3>2, <3>3, <3>4, <3>5, <3>6 DEF DaemonStep
  <2> QED
    BY <2>3, <2>4
<1> QED
  BY <1>4, <1>5

(* Every step.                                                             *)
LEMMA StepEar == Ear /\ Typed' /\ [Next]_vars => Ear'
<1> SUFFICES ASSUME Ear, Typed', [Next]_vars PROVE Ear'
  OBVIOUS
<1> USE DEF files, memory
<1>0. Typed
  BY DEF Ear
<1>1. CASE UNCHANGED vars
  <2>1. UNCHANGED <<pidfile, left, marker, pc, faults>>
    BY <1>1 DEF vars
  <2> QED
    BY <2>1 DEF Ear, Quiet, OwnerServes, NeverDeaf, OnDuty
<1>2. ASSUME NEW p \in Procs, Ensure(p) \/ SpawnFails(p) PROVE Ear'
  BY <1>2, EnsureEar
<1>3. ASSUME NEW s \in Sessions, SessionStep(s) PROVE Ear'
  BY <1>3, SessionEar
<1>4. ASSUME NEW n \in Names, Expire(n) PROVE Ear'
  <2>1. UNCHANGED <<pidfile, left, pc, faults>>
    BY <1>4 DEF Expire
  <2>2. \A s \in Sessions : marker'[s] # "none" => marker[s] # "none"
    BY <1>0, <1>4 DEF Expire, Typed, Names
  <2> QED
    BY <2>1, <2>2 DEF Ear, Quiet, OwnerServes, NeverDeaf, OnDuty
<1>5. ASSUME NEW d \in Daemons, DaemonStep(d) PROVE Ear'
  BY <1>5, DaemonEar
<1>6. ASSUME NEW d \in Daemons, Crash(d) \/ Late(d) PROVE Ear'
  BY <1>0, <1>6, FaultExcuses DEF Crash, Late, Ear, NeverDeaf
<1>7. CASE Leave
  BY <1>0, <1>7, FaultExcuses DEF Leave, Ear, NeverDeaf
<1>8. CASE Rejoin
  <2>1. UNCHANGED <<pidfile, marker, pc, faults>> /\ ~ left'
    BY <1>8 DEF Rejoin
  <2> QED
    BY <2>1 DEF Ear, Quiet, OwnerServes, NeverDeaf, OnDuty
<1> QED
  BY <1>1, <1>2, <1>3, <1>4, <1>5, <1>6, <1>7, <1>8 DEF Next

(* docs/SPEC.md 7, "a suicide can never leave the host deaf": on any host,   *)
(* with any number of sessions and daemons, while nothing has failed a      *)
(* marked session whose hook is done has a daemon on duty.                  *)
THEOREM NoSessionLeftDeaf == Spec => []NeverDeaf
<1>1. Typed /\ Ear /\ [Next]_vars => Typed' /\ Ear'
  BY TypedStep, StepEar
<1>2. Init => Typed /\ Ear
  BY InitTyped, InitEar
<1>3. Ear => NeverDeaf
  BY DEF Ear
<1> QED
  BY <1>1, <1>2, <1>3, PTL DEF Spec
=============================================================================

------------------------------ MODULE Presence ------------------------------
(***************************************************************************)
(* Which process is the host's ear.  heartbeat.pid names the daemon,        *)
(* heartbeat.artifact the version it runs, sessions/ the sessions it lives  *)
(* for.  Every hook marks its session and starts a daemon unless one reads  *)
(* as alive; a daemon leaves when nobody is marked, another took over, or   *)
(* the user left the room.  Nothing is locked.                             *)
(***************************************************************************)
EXTENDS Naturals, FiniteSets

CONSTANTS
  Daemons,        \* pids a daemon may have; reused only when no file names them
  Sessions,       \* session ids; a session runs one hook at a time
  Temps,          \* names an atomic_write cut short may leave in sessions/
  TempsOf,        \* those whose pid, if one was written, is the session's
  Resolves,       \* what claude_pid() may answer, of {"own", "blank"}; wrongly, a fault
  Nobody,         \* no pidfile
  MaxFaults       \* bound: deaths, failed calls, late daemons and leaves

ASSUME PresenceAssumption ==
  /\ Nobody \notin Daemons \cup Sessions
  /\ Daemons \cap Sessions = {} /\ Sessions \cap Temps = {}
  /\ Resolves \subseteq {"own", "blank"}
  /\ TempsOf \in [Sessions -> SUBSET Temps]
  /\ MaxFaults \in Nat

VARIABLES
  (* the files *)
  pidfile,        \* the owner, Nobody when there is no file
  warm,           \* its mtime is younger than PIDFILE_STALE
  stamp,          \* the owner's version, "" when there is no file
  marker,         \* of each name: "none", or what its pid is
  left,           \* suspended() and not identity()
  (* the processes *)
  alive,          \* sessions whose claude runs
  pc,             \* of each daemon, and of each session's hook
  ver,            \* the ARTIFACT a daemon runs
  todo,           \* the listing gc_markers() still goes through
  doomed,         \* the marker it has judged dead, if any
  faults

files  == <<pidfile, warm, stamp, marker, left>>
memory == <<ver, todo, doomed>>
vars   == <<files, alive, pc, memory, faults>>

Names    == Sessions \cup Temps
Procs    == Daemons \cup Sessions
Versions == {"old", "new"}
Kinds    == {"none", "own", "blank", "wrong", "dead"}

(* The ARTIFACT of a process: every session has been upgraded.              *)
Artifact(p) == IF p \in Daemons THEN ver[p] ELSE "new"

(* live_sessions()                                                         *)
Marked == {n \in Names : marker[n] # "none"}

At(p, l)   == pc[p] = l
Goto(p, l) == pc' = [pc EXCEPT ![p] = l]
Step(p, from, to) == At(p, from) /\ Goto(p, to)

Fault == faults < MaxFaults /\ faults' = faults + 1

DaemonLabels == {"off", "boot", "bootstamp", "claim", "sign", "pass", "gc", "release",
                 "unlink", "unsign", "recheck", "stat", "stamp", "spawn", "owner",
                 "final", "lastunlink", "lastunsign"}
HookLabels == {"off", "mark", "stat", "stamp", "spawn"}

(* An idle host, or one whose previous version's daemon still runs.         *)
Init ==
  /\ marker = [n \in Names |-> "none"] /\ alive \in SUBSET Sessions
  /\ warm = TRUE /\ left = FALSE /\ faults = 0
  /\ \/ pidfile = Nobody /\ stamp = ""
     \/ pidfile \in Daemons /\ stamp = "old"
  /\ pc = [p \in Procs |-> IF p = pidfile THEN "pass" ELSE "off"]
  /\ ver = [d \in Daemons |-> IF d = pidfile THEN "old" ELSE "new"]
  /\ todo = [d \in Daemons |-> {}] /\ doomed = [d \in Daemons |-> {}]

(* A faulty variant of a definition stands before it, named for its fault;  *)
(* no action uses one.                                                     *)

-----------------------------------------------------------------------------
(* heartbeat_alive(): mtime, owner and probe, then the stamp.  A hook, and a *)
(* daemon that hands its marker on, ask it in ensure_daemon(); a daemon      *)
(* that starts asks it too, and stands down or claims.                     *)

(* proc_alive(), asked about a pid that is a daemon's or nobody's.          *)
ProcAlive(d) == pc[d] # "off"

OwnerLives == pidfile # Nobody /\ warm /\ ProcAlive(pidfile)

Stat(p) == /\ \/ Step(p, "stat", IF OwnerLives THEN "stamp" ELSE "spawn")
              \/ Step(p, "boot", IF OwnerLives THEN "bootstamp" ELSE "claim")
           /\ UNCHANGED <<files, alive, memory, faults>>

(* ensure_daemon() returns to the hook's end, or to the daemon's finally.   *)
Return(p) == IF p \in Daemons THEN "final" ELSE "off"

AnyVersion(p) == /\ \/ Step(p, "stamp", IF stamp # "" THEN Return(p) ELSE "spawn")
                    \/ Step(p, "bootstamp", IF stamp # "" THEN "off" ELSE "claim")
                 /\ UNCHANGED <<files, alive, memory, faults>>

Stamped(p) == /\ \/ Step(p, "stamp", IF stamp = Artifact(p) THEN Return(p) ELSE "spawn")
                 \/ Step(p, "bootstamp", IF stamp = Artifact(p) THEN "off" ELSE "claim")
              /\ UNCHANGED <<files, alive, memory, faults>>

(* Never resurrect a daemon into a room the user has left.  Nothing sees the *)
(* new process before it runs, so the look and the Popen are one step.  A    *)
(* daemon that hands on has released its file and only exits after it: the   *)
(* new one stands in its place.                                            *)
Decline(p) == /\ left
              /\ Step(p, "spawn", Return(p))
              /\ UNCHANGED <<files, alive, memory, faults>>

Hatch(p) == \/ p \in Daemons /\ Goto(p, "boot") /\ UNCHANGED ver
            \/ /\ p \in Sessions
               /\ \E d \in Daemons \ {pidfile} :
                    /\ pc[d] = "off"
                    /\ pc' = [pc EXCEPT ![p] = "off", ![d] = "boot"]
                    /\ ver' = [ver EXCEPT ![d] = Artifact(p)]

Spawn(p) == /\ At(p, "spawn") /\ ~ left /\ Hatch(p)
            /\ UNCHANGED <<files, alive, todo, doomed, faults>>

SpawnFails(p) == /\ Step(p, "spawn", Return(p))
                 /\ Fault
                 /\ UNCHANGED <<files, alive, memory>>

Ensure(p) == Stat(p) \/ Stamped(p) \/ Decline(p) \/ Spawn(p)

-----------------------------------------------------------------------------
(* A session: claude begins, has turns whose hooks mark it and ensure a     *)
(* daemon, and ends by session_end() or without it.                        *)

Begin(s) == /\ s \notin alive /\ At(s, "off")
            /\ alive' = alive \cup {s}
            /\ UNCHANGED <<files, pc, memory, faults>>

(* A hook outlives the claude that started it.                             *)
Turn(s) == /\ s \in alive
           /\ Step(s, "off", "mark")
           /\ UNCHANGED <<files, alive, memory, faults>>

(* The pid of the session's claude, or none, as a marker holds it.          *)
Pid(s) == {IF k = "own" /\ s \notin alive THEN "dead" ELSE k : k \in Resolves}

Mark(s) == /\ Step(s, "mark", "stat")
           /\ \E k \in Pid(s) : marker' = [marker EXCEPT ![s] = k]
           /\ UNCHANGED <<pidfile, warm, stamp, left, alive, memory, faults>>

(* claude_pid() takes a process that is not claude for it.                 *)
MarkWrong(s) == /\ Step(s, "mark", "stat")
                /\ Fault
                /\ marker' = [marker EXCEPT ![s] = "wrong"]
                /\ UNCHANGED <<pidfile, warm, stamp, left, alive, memory>>

(* The delivery hooks go on; session_start() gives up.                     *)
MarkFails(s) == /\ \E l \in {"stat", "off"} : Step(s, "mark", l)
                /\ Fault
                /\ UNCHANGED <<files, alive, memory>>

(* Killed; inside atomic_write() its temp file stays behind, empty or whole. *)
KillHook(s) == /\ pc[s] # "off" /\ Goto(s, "off")
               /\ Fault
               /\ \/ UNCHANGED marker
                  \/ /\ At(s, "mark")
                     /\ \E t \in TempsOf[s], k \in Pid(s) \cup {"blank"} :
                          marker' = [marker EXCEPT ![t] = k]
               /\ UNCHANGED <<pidfile, warm, stamp, left, alive, memory>>

(* claude exits: by session_end(), which removes the marker, or without it.  *)
Exits(s, own) == /\ s \in alive
                 /\ alive' = alive \ {s}
                 /\ marker' = [n \in Names |->
                                 IF n = s THEN own
                                 ELSE IF n \in TempsOf[s] /\ marker[n] = "own" THEN "dead"
                                 ELSE marker[n]]
                 /\ UNCHANGED <<pidfile, warm, stamp, left, pc, memory, faults>>

End(s) == At(s, "off") /\ Exits(s, "none")

Die(s) == Exits(s, IF marker[s] = "own" THEN "dead" ELSE marker[s])

StrangerDies(s) == /\ marker[s] = "wrong"
                   /\ marker' = [marker EXCEPT ![s] = "dead"]
                   /\ UNCHANGED <<pidfile, warm, stamp, left, alive, pc, memory, faults>>

(* MARKER_TTL is a week, and a session in use runs a hook in a week; what is  *)
(* older and without a pid is as dead as a pid that is gone.               *)
Expire(n) == /\ marker[n] = "blank" /\ n \notin alive
             /\ marker' = [marker EXCEPT ![n] = "dead"]
             /\ UNCHANGED <<pidfile, warm, stamp, left, alive, pc, memory, faults>>

SessionStep(s) == \/ Begin(s) \/ Turn(s) \/ Mark(s) \/ MarkWrong(s) \/ MarkFails(s)
                  \/ KillHook(s) \/ End(s) \/ Die(s) \/ StrangerDies(s)

-----------------------------------------------------------------------------
(* do_daemon()                                                             *)

Claim(d) == /\ Step(d, "claim", "sign")
            /\ pidfile' = d /\ warm' = TRUE
            /\ UNCHANGED <<stamp, marker, left, alive, memory, faults>>

Sign(d) == /\ Step(d, "sign", "pass")
           /\ stamp' = ver[d]
           /\ UNCHANGED <<pidfile, warm, marker, left, alive, memory, faults>>

(* gc_markers(): list; load, stat and probe each; forget the dead by path.  *)
List(d) == /\ Step(d, "pass", "gc")
           /\ todo' = [todo EXCEPT ![d] = Marked]
           /\ UNCHANGED <<files, alive, ver, doomed, faults>>

SkipsTemps(d) ==
  /\ At(d, "gc") /\ doomed[d] = {}
  /\ \E n \in todo[d] :
       /\ todo' = [todo EXCEPT ![d] = @ \ {n}]
       /\ doomed' = [doomed EXCEPT ![d] = IF n \in Sessions /\ marker[n] = "dead" THEN {n} ELSE {}]
  /\ UNCHANGED <<files, alive, pc, ver, faults>>

Judge(d) == /\ At(d, "gc") /\ doomed[d] = {}
            /\ \E n \in todo[d] :
                 /\ todo' = [todo EXCEPT ![d] = @ \ {n}]
                 /\ doomed' = [doomed EXCEPT ![d] = IF marker[n] = "dead" THEN {n} ELSE {}]
            /\ UNCHANGED <<files, alive, pc, ver, faults>>

Collect(d) == /\ At(d, "gc") /\ doomed[d] # {}
              /\ marker' = [n \in Names |-> IF n \in doomed[d] THEN "none" ELSE marker[n]]
              /\ doomed' = [doomed EXCEPT ![d] = {}]
              /\ UNCHANGED <<pidfile, warm, stamp, left, alive, pc, ver, todo, faults>>

Look(d) == /\ Step(d, "gc", IF Marked = {} THEN "release" ELSE "owner")
           /\ todo[d] = {} /\ doomed[d] = {}
           /\ UNCHANGED <<files, alive, memory, faults>>

(* Nobody left to hear for: release, then look again and hand the marker on. *)
LooksFirst(d) == /\ Step(d, "release", "recheck")
                 /\ UNCHANGED <<files, alive, memory, faults>>

Release(d) == /\ Step(d, "release", IF pidfile = d THEN "unlink" ELSE "recheck")
              /\ UNCHANGED <<files, alive, memory, faults>>

(* forget(PIDFILE), by path, here and in the finally; nobody asks the age of *)
(* no file.                                                                *)
Unlink(d) == /\ \/ Step(d, "unlink", "unsign")
                \/ Step(d, "lastunlink", "lastunsign")
             /\ pidfile' = Nobody /\ warm' = TRUE
             /\ UNCHANGED <<stamp, marker, left, alive, memory, faults>>

Unsign(d) == /\ \/ Step(d, "unsign", "recheck")
                \/ Step(d, "lastunsign", "off")
             /\ stamp' = ""
             /\ UNCHANGED <<pidfile, warm, marker, left, alive, memory, faults>>

NoSecondLook(d) == /\ Step(d, "recheck", "final")
                   /\ UNCHANGED <<files, alive, memory, faults>>

Recheck(d) == /\ Step(d, "recheck", IF Marked = {} THEN "final" ELSE "stat")
              /\ UNCHANGED <<files, alive, memory, faults>>

(* The other two exits: superseded, or the user left.  Else os.utime(), and *)
(* the rest of the pass.                                                   *)
StayAnyway(d) == /\ pidfile \in {d, Nobody}
                 /\ Step(d, "owner", "pass")
                 /\ warm' = TRUE
                 /\ UNCHANGED <<pidfile, stamp, marker, left, alive, memory, faults>>

Stay(d) == /\ pidfile \in {d, Nobody} /\ ~ left
           /\ Step(d, "owner", "pass")
           /\ warm' = TRUE
           /\ UNCHANGED <<pidfile, stamp, marker, left, alive, memory, faults>>

StandDown(d) == /\ pidfile \notin {d, Nobody} \/ left
                /\ Step(d, "owner", "final")
                /\ UNCHANGED <<files, alive, memory, faults>>

(* A chunk of backoff refreshes the file, whoever's it is.                 *)
Chunk(d) == /\ At(d, "pass") /\ ~ warm
            /\ warm' = TRUE
            /\ UNCHANGED <<pidfile, stamp, marker, left, alive, pc, memory, faults>>

Final(d) == /\ Step(d, "final", IF pidfile = d THEN "lastunlink" ELSE "off")
            /\ UNCHANGED <<files, alive, memory, faults>>

DaemonStep(d) == \/ Claim(d) \/ Sign(d) \/ List(d) \/ Judge(d) \/ Collect(d) \/ Look(d)
                 \/ Release(d) \/ Unlink(d) \/ Unsign(d) \/ Recheck(d)
                 \/ Stay(d) \/ StandDown(d) \/ Chunk(d) \/ Final(d)

(* Killed, or an exception in the two writes before the loop.              *)
Crash(d) == /\ pc[d] # "off" /\ Goto(d, "off")
            /\ Fault
            /\ todo' = [todo EXCEPT ![d] = {}] /\ doomed' = [doomed EXCEPT ![d] = {}]
            /\ UNCHANGED <<files, alive, ver>>

(* A pass whose calls all time out outlasts PIDFILE_STALE.                 *)
Late(d) == /\ pidfile = d /\ At(d, "pass") /\ warm
           /\ warm' = FALSE
           /\ Fault
           /\ UNCHANGED <<pidfile, stamp, marker, left, alive, pc, memory>>

(* The user leaves the room, or joins it again.                            *)
Leave == /\ ~ left /\ left' = TRUE
         /\ Fault
         /\ UNCHANGED <<pidfile, warm, stamp, marker, alive, pc, memory>>

Rejoin == /\ left /\ left' = FALSE
          /\ UNCHANGED <<pidfile, warm, stamp, marker, alive, pc, memory, faults>>

Next == \/ \E p \in Procs : Ensure(p) \/ SpawnFails(p)
        \/ \E s \in Sessions : SessionStep(s)
        \/ \E n \in Names : Expire(n)
        \/ \E d \in Daemons : DaemonStep(d) \/ Crash(d) \/ Late(d)
        \/ Leave \/ Rejoin

Spec == Init /\ [][Next]_vars

(* What runs takes its steps, a backoff ends, and a week passes.  No turn is *)
(* promised.                                                               *)
FairSpec ==
  /\ Spec
  /\ \A d \in Daemons : /\ WF_vars(DaemonStep(d) \/ Ensure(d))
                        /\ SF_vars(List(d))
  /\ \A s \in Sessions : WF_vars(Mark(s) \/ Ensure(s))
  /\ \A n \in Names : WF_vars(Expire(n))
-----------------------------------------------------------------------------
Typed ==
  /\ pidfile \in Daemons \cup {Nobody} /\ warm \in BOOLEAN /\ left \in BOOLEAN
  /\ stamp \in Versions \cup {""} /\ marker \in [Names -> Kinds]
  /\ alive \subseteq Sessions
  /\ pc \in [Procs -> DaemonLabels \cup HookLabels]
  /\ \A d \in Daemons : pc[d] \in DaemonLabels
  /\ \A s \in Sessions : pc[s] \in HookLabels
  /\ ver \in [Daemons -> Versions]
  /\ todo \in [Daemons -> SUBSET Names] /\ doomed \in [Daemons -> SUBSET Names]
  /\ faults \in 0..MaxFaults

(* Who hands the marker on, or starts, is not the one the pidfile names: it   *)
(* would find itself alive there, and start nobody.                        *)
LetGo == \A d \in Daemons :
           pc[d] \in {"boot", "bootstamp", "claim", "unsign", "recheck", "stat", "stamp", "spawn",
                     "lastunsign"} => pidfile # d

(* The types, and that the file is let go before it is asked about.         *)
TypeOK == Typed /\ LetGo

(* A daemon that will still look at the markers, or start one that does.    *)
OnDuty(d) == pc[d] \in {"boot", "claim", "sign", "pass", "gc", "release", "unlink",
                        "unsign", "recheck", "stat", "spawn", "owner"}

Looping(d) == pc[d] \in {"pass", "gc", "owner"}

(* docs/SPEC.md 7: a session that marks itself during a shutdown must not be *)
(* "left holding a marker with no ear at all".  While nothing fails, a hook  *)
(* that has finished, or is about to defer, leaves a daemon on duty behind   *)
(* for as long as its marker stands.                                       *)
NeverDeaf ==
  faults = 0 =>
    \A s \in Sessions : marker[s] # "none" /\ pc[s] \in {"off", "stamp"}
                          => \E d \in Daemons : OnDuty(d)

(* A marked session comes to be heard for good without another hook, through *)
(* hand-overs, collections, and other sessions coming and going.            *)
MarkedHeard ==
  \A s \in Sessions : <>[](marker[s] # "none" /\ pc[s] = "off" /\ faults = 0)
                      => <>[](\E d \in Daemons : Looping(d))

(* Whatever failed before, and whichever version's daemon was there, a       *)
(* session that goes on having turns is heard for good by a daemon of its    *)
(* own version; unless the old daemon was just handing on to its like.       *)
HeardBy(s) == \E d \in Daemons : Looping(d) /\ ver[d] = Artifact(s)

InUse(s) == <>[](s \in alive /\ ~ left) /\ []<>At(s, "mark")

EarReturns == [](\A d \in Daemons : At(d, "boot") => ver[d] = "new")
                => \A s \in Sessions : InUse(s) => <>[]HeardBy(s)

(* docs/SPEC.md 7, on a rolling upgrade: without the stamp "the session would *)
(* stay deaf"; with it the new daemon "takes the pidfile, and the old daemon *)
(* stands down".                                                           *)
UpgradeHeard == \A s \in Sessions : InUse(s) => <>[]HeardBy(s)

(* docs/SPEC.md 7: suspended and unseated, nothing hears and nothing is      *)
(* resurrected.                                                            *)
LeftStaysOut == <>[]left => <>[](\A d \in Daemons : At(d, "off"))

(* A host whose sessions are all gone, however they went, has no daemon in    *)
(* the end: no leaked marker keeps a phantom in the room.                   *)
PhantomLeaves ==
  <>[](alive = {} /\ \A n \in Names : marker[n] # "wrong")
    => <>[](\A d \in Daemons : At(d, "off"))
=============================================================================

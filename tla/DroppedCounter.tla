--------------------------- MODULE DroppedCounter ---------------------------
(***************************************************************************)
(* dropped.json, the count of mentions the cap threw away: bumped by the    *)
(* daemon after it evicts, taken by whichever hook delivers next.  Both     *)
(* sides steal the file by renaming it to a sidecar of their own, and a     *)
(* janitor removes the sidecars of the dead.                                *)
(***************************************************************************)
EXTENDS Naturals, FiniteSets

CONSTANTS
  Bumpers,      \* daemons
  Takers,       \* delivering hooks
  Overlap,      \* may two daemons run at once?
  MaxCounted,   \* bound: mentions evicted
  MaxCrashes,   \* bound: processes killed
  MaxFaults     \* bound: saves that raise

ASSUME CounterAssumption ==
  /\ Bumpers \cap Takers = {} /\ IsFiniteSet(Bumpers \cup Takers)
  /\ Overlap \in BOOLEAN
  /\ MaxCounted \in Nat /\ MaxCrashes \in Nat /\ MaxFaults \in Nat

VARIABLES
  dropped,      \* n of dropped.json; 0 when there is no file (a saved n is never 0)
  side,         \* n of each process's .bump or .claim sidecar; 0 when there is none
  old,          \* owners of sidecars whose mtime, dropped.json's own, is ORPHAN_AGE ago
  pc,           \* "off" is not started yet, "dead" is a pid never seen again
  add,          \* what a bumper has evicted and not yet saved
  obj,          \* the n a process has loaded from its sidecar
  counted,      \* mentions evicted so far
  reported,     \* mentions a digest said were omitted
  lost,         \* counts that ended with a process or a failed save
  crashes, faults

vars == <<dropped, side, old, pc, add, obj, counted, reported, lost, crashes, faults>>

Procs == Bumpers \cup Takers

Init ==
  /\ dropped = 0 /\ old = {}
  /\ side = [p \in Procs |-> 0]
  /\ pc = [p \in Procs |-> IF p \in Bumpers THEN "off" ELSE "idle"]
  /\ add = [b \in Bumpers |-> 0]
  /\ obj = [p \in Procs |-> 0]
  /\ counted = 0 /\ reported = 0 /\ lost = 0 /\ crashes = 0 /\ faults = 0

At(p, l)   == pc[p] = l
Goto(p, l) == pc' = [pc EXCEPT ![p] = l]
bounds     == <<crashes, faults>>

(* A faulty variant of a definition stands before it, named for its fault;  *)
(* no action uses one.                                                     *)
CopyNotRename(p) == /\ dropped # 0
                    /\ side' = [side EXCEPT ![p] = dropped]
                    /\ dropped' = dropped
                    /\ old' \in {old \ {p}, old \cup {p}}

(* os.rename(DROPPED, sidecar), replacing a sidecar a failed save left; the *)
(* old mtime comes along.                                                  *)
Rename(p) == /\ dropped # 0
             /\ side' = [side EXCEPT ![p] = dropped]
             /\ dropped' = 0
             /\ old' \in {old \ {p}, old \cup {p}}

Forget(p) == /\ side' = [side EXCEPT ![p] = 0]
             /\ old' = old \ {p}

Spawn(b) == /\ At(b, "off")
            /\ Overlap \/ \A c \in Bumpers : pc[c] \in {"off", "dead"}
            /\ Goto(b, "idle")
            /\ UNCHANGED <<dropped, side, old, add, obj, counted, reported, lost, bounds>>

-----------------------------------------------------------------------------
(* _bump_dropped(n), after inbox_put() evicted n                           *)

Evicted(b, n) == /\ At(b, "idle")
                 /\ counted + n <= MaxCounted
                 /\ counted' = counted + n
                 /\ add' = [add EXCEPT ![b] = n]
                 /\ Goto(b, "bump")
                 /\ UNCHANGED <<dropped, side, old, obj, reported, lost, bounds>>

BumpSteals(b) == /\ At(b, "bump")
                 /\ Rename(b)
                 /\ Goto(b, "load")
                 /\ UNCHANGED <<add, obj, counted, reported, lost, bounds>>

BumpFindsNone(b) == /\ At(b, "bump")
                    /\ dropped = 0
                    /\ obj' = [obj EXCEPT ![b] = 0]
                    /\ Goto(b, "fresh")
                    /\ UNCHANGED <<dropped, side, old, add, counted, reported, lost, bounds>>

BumpLoads(b) == /\ At(b, "load")
                /\ obj' = [obj EXCEPT ![b] = side[b]]
                /\ Goto(b, "save")
                /\ UNCHANGED <<dropped, side, old, add, counted, reported, lost, bounds>>

(* "save" and "fresh" differ by the local `stolen`.                        *)
BumpSaves(b) == /\ pc[b] \in {"save", "fresh"}
                /\ dropped' = obj[b] + add[b]
                /\ add' = [add EXCEPT ![b] = 0]
                /\ obj' = [obj EXCEPT ![b] = 0]
                /\ Goto(b, IF At(b, "save") THEN "forget" ELSE "idle")
                /\ UNCHANGED <<side, old, counted, reported, lost, bounds>>

BumpForgets(b) == /\ At(b, "forget")
                  /\ Forget(b)
                  /\ Goto(b, "idle")
                  /\ UNCHANGED <<dropped, add, obj, counted, reported, lost, bounds>>

(* ENOSPC: the exception reaches the daemon's pass; the sidecar stays, and  *)
(* nothing ever reads it back.                                             *)
SaveFails(b) == /\ pc[b] \in {"save", "fresh"}
                /\ faults < MaxFaults
                /\ faults' = faults + 1
                /\ lost' = lost + obj[b] + add[b]
                /\ add' = [add EXCEPT ![b] = 0]
                /\ obj' = [obj EXCEPT ![b] = 0]
                /\ Goto(b, "idle")
                /\ UNCHANGED <<dropped, side, old, counted, reported, crashes>>

-----------------------------------------------------------------------------
(* take_dropped(), and the digest that reports what it returns; finding no  *)
(* file it returns 0 and nothing changes                                    *)

TakeSteals(t) == /\ At(t, "idle")
                 /\ Rename(t)
                 /\ Goto(t, "load")
                 /\ UNCHANGED <<add, obj, counted, reported, lost, bounds>>

TakeLoads(t) == /\ At(t, "load")
                /\ obj' = [obj EXCEPT ![t] = side[t]]
                /\ Goto(t, "forget")
                /\ UNCHANGED <<dropped, side, old, add, counted, reported, lost, bounds>>

TakeForgets(t) == /\ At(t, "forget")
                  /\ Forget(t)
                  /\ Goto(t, "report")
                  /\ UNCHANGED <<dropped, add, obj, counted, reported, lost, bounds>>

Report(t) == /\ At(t, "report")
             /\ reported' = reported + obj[t]
             /\ obj' = [obj EXCEPT ![t] = 0]
             /\ Goto(t, "idle")
             /\ UNCHANGED <<dropped, side, old, add, counted, lost, bounds>>

-----------------------------------------------------------------------------
(* Death, age and the janitor                                              *)

(* A count only process p can still save or report.  A bumper that has      *)
(* stolen keeps the old total on disk until the new one is saved.           *)
Keeps(p) ==
  CASE pc[p] \in {"off", "idle", "dead"}          -> 0
    [] p \in Bumpers /\ pc[p] \in {"bump", "fresh"} -> add[p]
    [] p \in Bumpers /\ pc[p] \in {"load", "save"}  -> add[p] + side[p]
    [] p \in Bumpers /\ pc[p] = "forget"          -> 0
    [] p \in Takers /\ pc[p] = "load"             -> side[p]
    [] p \in Takers /\ pc[p] \in {"forget", "report"} -> obj[p]

Crash(p) == /\ pc[p] \notin {"off", "dead"}
            /\ crashes < MaxCrashes
            /\ crashes' = crashes + 1
            /\ lost' = lost + Keeps(p)
            /\ Goto(p, "dead")
            /\ UNCHANGED <<dropped, side, old, add, obj, counted, reported, faults>>

Age(p) == /\ side[p] # 0 /\ p \notin old
          /\ old' = old \cup {p}
          /\ UNCHANGED <<dropped, side, pc, add, obj, counted, reported, lost, bounds>>

OldIsEnough(p) == p \in old
ClaimsOnly(p)  == pc[p] = "dead" /\ p \in old /\ p \in Takers

(* _sweep_sidecars(): the pid in the name is probed first, then the mtime.  *)
Abandoned(p) == pc[p] = "dead" /\ p \in old

Sweep(p) == /\ side[p] # 0
            /\ Abandoned(p)
            /\ Forget(p)
            /\ UNCHANGED <<dropped, pc, add, obj, counted, reported, lost, bounds>>

BumperStep(b) ==
  \/ \E n \in 1..MaxCounted : Evicted(b, n)
  \/ BumpSteals(b) \/ BumpFindsNone(b) \/ BumpLoads(b) \/ BumpSaves(b)
  \/ BumpForgets(b) \/ SaveFails(b)

TakerStep(t) == TakeSteals(t) \/ TakeLoads(t) \/ TakeForgets(t) \/ Report(t)

Next ==
  \/ \E b \in Bumpers : Spawn(b) \/ BumperStep(b)
  \/ \E t \in Takers : TakerStep(t)
  \/ \E p \in Procs : Crash(p) \/ Age(p) \/ Sweep(p)

Spec == Init /\ [][Next]_vars

(* Files grow old, and every pass and every hook runs the janitor.         *)
FairSpec == Spec /\ \A p \in Procs : WF_vars(Age(p)) /\ WF_vars(Sweep(p))
-----------------------------------------------------------------------------
TypeOK ==
  /\ dropped \in 0..MaxCounted
  /\ side \in [Procs -> Nat]
  /\ old \subseteq {p \in Procs : side[p] # 0}
  /\ pc \in [Procs -> {"off", "idle", "bump", "fresh", "load", "save", "forget",
                       "report", "dead"}]
  /\ add \in [Bumpers -> Nat]
  /\ obj \in [Procs -> Nat]
  /\ counted \in 0..MaxCounted /\ reported \in 0..MaxCounted /\ lost \in Nat
  /\ crashes \in 0..MaxCrashes /\ faults \in 0..MaxFaults

(* What the processes keep between them, one pair for each mention counted.  *)
Kept == UNION {{p} \X (1..Keeps(p)) : p \in Procs}

(* docs/SPEC.md 6, "neither a concurrent reader nor a concurrent bump can   *)
(* lose or double-report a count": however steals, saves, sweeps and deaths *)
(* interleave, each eviction is counted exactly once - reported, waiting in *)
(* dropped.json, kept by one live process (a bumper's share of it on disk), *)
(* or gone with the one process or save that failed.                        *)
Conserved == reported + lost + dropped + Cardinality(Kept) = counted

(* A sidecar its owner abandoned by dying does not stay for ever.          *)
DeadAreSwept ==
  \A p \in Procs : (pc[p] = "dead" /\ side[p] # 0) ~> side[p] = 0
=============================================================================

------------------------------- MODULE Inbox -------------------------------
(***************************************************************************)
(* A mention's way through the host: the daemon hears it (chat-listen),     *)
(* lands it in inbox/, a reader renames it into processing/, prints it and  *)
(* only then removes it.  Every step is one file-system call that another   *)
(* process can observe; a listing is a snapshot that goes stale.            *)
(*                                                                         *)
(* A file is known by the mention it holds.  A file of inbox/ is a member   *)
(* of Mentions; a file of processing/ is a pair <<mention, claimer>>, the   *)
(* <pid>-<name> the code builds.  Who may join, who holds the pidfile and   *)
(* the dropped.json counter are not here: a daemon may exit or fail to      *)
(* listen whenever the code can.                                            *)
(***************************************************************************)
EXTENDS Naturals, FiniteSets

CONSTANTS
  Daemons,      \* processes running the `daemon` verb (a hand-over overlaps two)
  Readers,      \* processes running a hook verb, `read`, `wait` or `listen`
  Cap,          \* INBOX_CAP
  MaxMentions,  \* bound: listen replies BCT gives
  MaxCrashes,   \* bound: processes killed, or ended by an exception
  MaxFaults,    \* bound: puts that raise (ENOSPC, EINTR)
  SlowReaders,  \* may a live reader sit between claim and ack for ORPHAN_AGE?
  Verbs         \* the verbs the readers run

ASSUME InboxAssumption ==
  /\ Daemons \cap Readers = {}
  /\ Cap \in Nat \ {0}
  /\ MaxMentions \in Nat
  /\ MaxCrashes \in Nat
  /\ MaxFaults \in Nat
  /\ SlowReaders \in BOOLEAN
  /\ Verbs \subseteq {"hook", "standby", "read", "wait"}

VARIABLES
  (* the disk *)
  inbox,        \* the files of inbox/
  processing,   \* the files of processing/
  stamp,        \* time_ns of each file's name, 0 before it lands
  aged,         \* the files whose mtime is ORPHAN_AGE or more ago (rename keeps it)
  (* the processes *)
  pc,           \* where each process is; "idle" is no process at all
  verb,         \* what a reader runs, or "none"
  hand,         \* a daemon's `unlanded`, a reader's claimed item; 0 is None
  names,        \* the listing of inbox/ a process is working through
  orphans,      \* the listing of processing/ a sweep is working through
  retrying,     \* a daemon's put is the retry at the top of its pass
  path,         \* the time_ns of the name a daemon's put is about to write, 0 for none
  (* the room and the bounds *)
  cursor,       \* BCT's cursor: mentions 1..cursor have been handed out
  crashes,
  faults,
  (* what has happened so far, read by properties only *)
  shown,        \* mentions printed at least once
  again,        \* mentions printed at least twice
  evicted,      \* mentions the cap threw away
  lost,         \* mentions that ended with the process holding them
  recovered,    \* mentions an orphan sweep returned to inbox/
  arrived       \* of a reader in inbox_claim(): what came into inbox/ since it listed

disk    == <<inbox, processing, stamp, aged>>
put     == <<retrying, path>>
local   == <<verb, hand, names, orphans, put>>
room    == <<cursor, crashes, faults>>
history == <<shown, again, evicted, lost, recovered, arrived>>
vars    == <<disk, pc, local, room, history>>

Mentions == 1..MaxMentions
Procs    == Daemons \cup Readers
Hooks    == {"hook", "standby"}      \* standby: a Stop hook that holds; wait: also
                                     \* the `listen` verb
DaemonPC == {"idle", "top", "put", "evict", "write", "listen"}
ReaderPC == {"idle", "scan", "claim", "load", "show", "ack", "ask", "tell"}

Init ==
  /\ inbox = {} /\ processing = {} /\ aged = {}
  /\ stamp = [m \in Mentions |-> 0]
  /\ pc = [p \in Procs |-> "idle"]
  /\ verb = [r \in Readers |-> "none"]
  /\ hand = [p \in Procs |-> 0]
  /\ names = [p \in Procs |-> {}]
  /\ orphans = [p \in Procs |-> {}]
  /\ retrying = [d \in Daemons |-> FALSE]
  /\ path = [d \in Daemons |-> 0]
  /\ cursor = 0 /\ crashes = 0 /\ faults = 0
  /\ shown = {} /\ again = {} /\ evicted = {} /\ lost = {} /\ recovered = {}
  /\ arrived = [r \in Readers |-> {}]

At(p, l)   == pc[p] = l
Goto(p, l) == pc' = [pc EXCEPT ![p] = l]

(* m comes into inbox/ behind the listings that readers are working on.     *)
Arrives(m) == arrived' = [r \in Readers |-> IF pc[r] \in {"claim", "load"}
                                            THEN arrived[r] \cup {m} ELSE arrived[r]]
ListDone(p) == arrived' = [r \in Readers |-> IF r = p THEN {} ELSE arrived[r]]

(* A faulty variant of a definition stands before it, named for its fault;  *)
(* no action uses one.  Each is a change that some property must notice.    *)

AnyOf(m, S) == m \in S

(* sorted(names)[0]: the zero-padded time_ns leads the name.               *)
IsOldest(m, S) == m \in S /\ \A n \in S : stamp[m] <= stamp[n]

KeepsCap(S)  == {m \in S : Cardinality({n \in S : stamp[n] > stamp[m]}) >= Cap}
TakesTwo(S)  == {m \in S : Cardinality({n \in S : stamp[n] > stamp[m]}) >= Cap - 2}

(* names[:excess]: all but the Cap - 1 newest of the listing.              *)
Victims(S) == {m \in S : Cardinality({n \in S : stamp[n] > stamp[m]}) >= Cap - 1}

NoArbitration(m) == m \in Mentions

(* os.rename raises unless the source is still there.                      *)
CanRename(m) == m \in inbox

-----------------------------------------------------------------------------
(* recover_orphans(), first thing in a daemon's pass and in the hooks: the  *)
(* caller goes on only when it has been through its listing of processing/. *)

StartSweep(p) == orphans' = [orphans EXCEPT ![p] = processing]
Swept(p)      == orphans[p] = {}

NeverOrphan(f) == f \notin processing

(* Only the mtime says who is an orphan.                                   *)
IsOrphan(f) == f[1] \in aged

SweepNext(p, f) == /\ f \in orphans[p]
                   /\ orphans' = [orphans EXCEPT ![p] = @ \ {f}]
                   /\ UNCHANGED <<stamp, aged, pc, verb, hand, names, put,
                                  room, shown, again, evicted, lost>>

RecoverByCopy(p, f) == /\ SweepNext(p, f)
                       /\ f \in processing /\ IsOrphan(f)
                       /\ inbox' = inbox \cup {f[1]}
                       /\ recovered' = recovered \cup {f[1]}
                       /\ Arrives(f[1])
                       /\ UNCHANGED processing

Recover(p, f) == /\ SweepNext(p, f)
                 /\ f \in processing /\ IsOrphan(f)
                 /\ processing' = processing \ {f}
                 /\ inbox' = inbox \cup {f[1]}
                 /\ recovered' = recovered \cup {f[1]}
                 /\ Arrives(f[1])

SkipOrphan(p, f) == /\ SweepNext(p, f)
                    /\ ~ (f \in processing /\ IsOrphan(f))
                    /\ UNCHANGED <<inbox, processing, recovered, arrived>>

-----------------------------------------------------------------------------
(* do_daemon()                                                             *)

Spawn(d) == /\ At(d, "idle")
            /\ Goto(d, "top")
            /\ UNCHANGED <<disk, local, room, history>>

(* The three exits at the top of a pass: no session marker, a newer        *)
(* daemon, the user left.  They come before the retry of `unlanded`.       *)
Exit(d) == /\ At(d, "top")
           /\ Goto(d, "idle")
           /\ hand' = [hand EXCEPT ![d] = 0]
           /\ lost' = IF hand[d] = 0 THEN lost ELSE lost \cup {hand[d]}
           /\ UNCHANGED <<disk, verb, names, orphans, put, room,
                          shown, again, evicted, recovered, arrived>>

RetriesNone(d) == /\ At(d, "top")
                  /\ Goto(d, "put")
                  /\ retrying' = [retrying EXCEPT ![d] = TRUE]
                  /\ UNCHANGED <<disk, verb, hand, names, orphans, path, room, history>>

(* A mention heard but not landed goes first, before any listen.           *)
Retry(d) == /\ At(d, "top")
            /\ hand[d] # 0
            /\ Goto(d, "put")
            /\ retrying' = [retrying EXCEPT ![d] = TRUE]
            /\ UNCHANGED <<disk, verb, hand, names, orphans, path, room, history>>

PassUnlanded(d) == /\ At(d, "top")
                   /\ StartSweep(d)
                   /\ Goto(d, "listen")
                   /\ UNCHANGED <<disk, verb, hand, names, put, room, history>>

Pass(d) == /\ At(d, "top")
           /\ hand[d] = 0
           /\ StartSweep(d)
           /\ Goto(d, "listen")
           /\ UNCHANGED <<disk, verb, hand, names, put, room, history>>

(* Silence, an error, a dead tunnel, no seat: back to the top.             *)
HearNothing(d) == /\ At(d, "listen") /\ Swept(d)
                  /\ Goto(d, "top")
                  /\ UNCHANGED <<disk, local, room, history>>

Hear(d) == /\ At(d, "listen") /\ Swept(d)
           /\ cursor < MaxMentions
           /\ cursor' = cursor + 1
           /\ hand' = [hand EXCEPT ![d] = cursor + 1]
           /\ Goto(d, "put")
           /\ UNCHANGED <<disk, verb, names, orphans, put, crashes, faults, history>>

(* inbox_put(): list, evict one by one, then the atomic write.             *)
ListVictims(d) == /\ At(d, "put")
                  /\ names' = [names EXCEPT ![d] = Victims(inbox)]
                  /\ Goto(d, "evict")
                  /\ UNCHANGED <<disk, verb, hand, orphans, put, room, history>>

Evict(d, m) == /\ At(d, "evict")
               /\ IsOldest(m, names[d])
               /\ names' = [names EXCEPT ![d] = @ \ {m}]
               /\ inbox' = inbox \ {m}
               /\ \/ /\ CanRename(m)
                     /\ evicted' = evicted \cup {m}
                     /\ aged' = aged \ {m}
                  \/ /\ ~ CanRename(m)
                     /\ UNCHANGED <<evicted, aged>>
               /\ UNCHANGED <<processing, stamp, pc, verb, hand, orphans,
                              put, room, shown, again, lost, recovered, arrived>>

(* The name carries the time it was made at, and the file takes the name     *)
(* later.  Only the order of the times matters: the next one is the first   *)
(* that is later than all, and Times has one for every put and retry.       *)
Times    == 1..(MaxMentions + MaxFaults)
Later(t) == /\ \A m \in Mentions : stamp[m] < t
            /\ \A d \in Daemons : path[d] < t

Stamp(d) == /\ At(d, "evict")
            /\ names[d] = {}
            /\ \E t \in Times : /\ Later(t) /\ ~ Later(t - 1)
                               /\ path' = [path EXCEPT ![d] = t]
            /\ Goto(d, "write")
            /\ UNCHANGED <<disk, verb, hand, names, orphans, retrying, room, history>>

Land(d) == /\ At(d, "write")
           /\ inbox' = inbox \cup {hand[d]}
           /\ stamp' = [stamp EXCEPT ![hand[d]] = path[d]]
           /\ path' = [path EXCEPT ![d] = 0]
           /\ hand' = [hand EXCEPT ![d] = 0]
           /\ retrying' = [retrying EXCEPT ![d] = FALSE]
           /\ \/ retrying[d] /\ StartSweep(d) /\ Goto(d, "listen")
              \/ ~ retrying[d] /\ Goto(d, "top") /\ UNCHANGED orphans
           /\ Arrives(hand[d])
           /\ UNCHANGED <<processing, aged, verb, names, room,
                          shown, again, evicted, lost, recovered>>

(* Where a put can raise: the counter's save, and the item's write.         *)
MayFail(d) == \/ At(d, "evict") /\ names[d] = {}
              \/ At(d, "write")

PutFailsForgets(d) == /\ MayFail(d)
                      /\ faults < MaxFaults
                      /\ faults' = faults + 1
                      /\ hand' = [hand EXCEPT ![d] = 0]
                      /\ retrying' = [retrying EXCEPT ![d] = FALSE]
                      /\ path' = [path EXCEPT ![d] = 0]
                      /\ Goto(d, "top")
                      /\ UNCHANGED <<disk, verb, names, orphans, cursor, crashes, history>>

(* The pass fails, and `unlanded` stays.                                   *)
PutFails(d) == /\ MayFail(d)
               /\ faults < MaxFaults
               /\ faults' = faults + 1
               /\ retrying' = [retrying EXCEPT ![d] = FALSE]
               /\ path' = [path EXCEPT ![d] = 0]
               /\ Goto(d, "top")
               /\ UNCHANGED <<disk, verb, hand, names, orphans, cursor, crashes, history>>

-----------------------------------------------------------------------------
(* The readers: stop_hook(), prompt_submit_hook(), do_read(), do_wait()    *)

Quit(r) == Goto(r, "idle") /\ verb' = [verb EXCEPT ![r] = "none"]

Start(r, v) == /\ At(r, "idle")
               /\ verb' = [verb EXCEPT ![r] = v]
               /\ Goto(r, "scan")
               /\ \/ v \in Hooks /\ StartSweep(r)
                  \/ v \notin Hooks /\ UNCHANGED orphans
               /\ UNCHANGED <<disk, hand, names, put, room, history>>

(* inbox_claim(): list, then rename the oldest that is still there.        *)
Scan(r) == /\ At(r, "scan") /\ Swept(r)
           /\ names' = [names EXCEPT ![r] = inbox]
           /\ Goto(r, "claim")
           /\ UNCHANGED <<disk, verb, hand, orphans, put, room, history>>

Claim(r, m) == /\ At(r, "claim")
               /\ IsOldest(m, names[r])
               /\ CanRename(m)
               /\ names' = [names EXCEPT ![r] = @ \ {m}]
               /\ inbox' = inbox \ {m}
               /\ processing' = processing \cup {<<m, r>>}
               /\ hand' = [hand EXCEPT ![r] = m]
               /\ Goto(r, "load")
               /\ UNCHANGED <<stamp, aged, verb, orphans, put, room, history>>

ClaimFails(r, m) == /\ At(r, "claim")
                    /\ IsOldest(m, names[r])
                    /\ ~ CanRename(m)
                    /\ names' = [names EXCEPT ![r] = @ \ {m}]
                    /\ UNCHANGED <<disk, pc, verb, hand, orphans, put, room, history>>

(* Nothing to claim: standby and wait poll until their deadline, read asks *)
(* the room, a hook ends.                                                  *)
Poll(r) == /\ At(r, "claim") /\ names[r] = {}
           /\ verb[r] \in {"standby", "wait"}
           /\ Goto(r, "scan")
           /\ ListDone(r)
           /\ UNCHANGED <<disk, local, room, shown, again, evicted, lost, recovered>>

GiveUp(r) == /\ At(r, "claim") /\ names[r] = {}
             /\ \/ verb[r] = "read" /\ Goto(r, "ask") /\ UNCHANGED verb
                \/ verb[r] # "read" /\ Quit(r)
             /\ ListDone(r)
             /\ UNCHANGED <<disk, hand, names, orphans, put, room,
                            shown, again, evicted, lost, recovered>>

LoadAcks(r) == /\ At(r, "load")
               /\ <<hand[r], r>> \in processing
               /\ processing' = processing \ {<<hand[r], r>>}
               /\ names' = [names EXCEPT ![r] = {}]
               /\ ListDone(r)
               /\ Goto(r, "show")
               /\ UNCHANGED <<inbox, stamp, aged, verb, hand, orphans, put, room,
                              shown, again, evicted, lost, recovered>>

LoadOk(r) == /\ At(r, "load")
             /\ <<hand[r], r>> \in processing
             /\ names' = [names EXCEPT ![r] = {}]
             /\ ListDone(r)
             /\ Goto(r, "show")
             /\ UNCHANGED <<disk, verb, hand, orphans, put, room,
                            shown, again, evicted, lost, recovered>>

(* A sweep took the file between rename and open: on to the next name.     *)
LoadFails(r) == /\ At(r, "load")
                /\ <<hand[r], r>> \notin processing
                /\ hand' = [hand EXCEPT ![r] = 0]
                /\ Goto(r, "claim")
                /\ UNCHANGED <<disk, verb, names, orphans, put, room, history>>

(* print                                                                   *)
Display(m) == /\ shown' = shown \cup {m}
              /\ again' = IF m \in shown THEN again \cup {m} ELSE again

Show(r) == /\ At(r, "show")
           /\ Display(hand[r])
           /\ Goto(r, "ack")
           /\ UNCHANGED <<disk, local, room, evicted, lost, recovered, arrived>>

NoAck(r) == /\ At(r, "ack")
            /\ hand' = [hand EXCEPT ![r] = 0]
            /\ \/ verb[r] = "read" /\ Goto(r, "scan") /\ UNCHANGED verb
               \/ verb[r] # "read" /\ Quit(r)
            /\ UNCHANGED <<disk, names, orphans, put, room, history>>

(* inbox_ack(): forget() of a file that may be gone; `read` goes round.    *)
Ack(r) == /\ At(r, "ack")
          /\ processing' = processing \ {<<hand[r], r>>}
          /\ aged' = IF <<hand[r], r>> \in processing THEN aged \ {hand[r]} ELSE aged
          /\ hand' = [hand EXCEPT ![r] = 0]
          /\ \/ verb[r] = "read" /\ Goto(r, "scan") /\ UNCHANGED verb
             \/ verb[r] # "read" /\ Quit(r)
          /\ UNCHANGED <<inbox, stamp, names, orphans, put, room, history>>

(* do_read()'s chat-read: the reply moves the cursor and is printed as is. *)
AskHears(r) == /\ At(r, "ask")
               /\ cursor < MaxMentions
               /\ cursor' = cursor + 1
               /\ hand' = [hand EXCEPT ![r] = cursor + 1]
               /\ Goto(r, "tell")
               /\ UNCHANGED <<disk, verb, names, orphans, put, crashes, faults, history>>

AskHearsNothing(r) == /\ At(r, "ask")
                      /\ Quit(r)
                      /\ UNCHANGED <<disk, hand, names, orphans, put, room, history>>

Tell(r) == /\ At(r, "tell")
           /\ Display(hand[r])
           /\ hand' = [hand EXCEPT ![r] = 0]
           /\ Quit(r)
           /\ UNCHANGED <<disk, names, orphans, put, room,
                          evicted, lost, recovered, arrived>>

-----------------------------------------------------------------------------
(* Time and death                                                          *)

(* A mention only its holder's memory has.                                 *)
InHand(p, m) == hand[p] = m /\ (p \in Daemons \/ pc[p] = "tell")

(* A live reader between claim and ack.                                    *)
Handling(r, m) == hand[r] = m /\ <<m, r>> \in processing

Age(m) == /\ m \notin aged
          /\ \/ m \in inbox
             \/ /\ \E r \in Readers : <<m, r>> \in processing
                /\ SlowReaders \/ \A r \in Readers : ~ Handling(r, m)
          /\ aged' = aged \cup {m}
          /\ UNCHANGED <<inbox, processing, stamp, pc, local, room, history>>

(* Killed, or ended by an exception that the hook swallows: what the        *)
(* process held in memory is gone, what it claimed stays in processing/.    *)
Crash(p) == /\ ~ At(p, "idle")
            /\ crashes < MaxCrashes
            /\ crashes' = crashes + 1
            /\ lost' = lost \cup {m \in Mentions : InHand(p, m)}
            /\ Goto(p, "idle")
            /\ hand' = [hand EXCEPT ![p] = 0]
            /\ names' = [names EXCEPT ![p] = {}]
            /\ orphans' = [orphans EXCEPT ![p] = {}]
            /\ verb' = [r \in Readers |-> IF r = p THEN "none" ELSE verb[r]]
            /\ retrying' = [d \in Daemons |-> retrying[d] /\ d # p]
            /\ path' = [d \in Daemons |-> IF d = p THEN 0 ELSE path[d]]
            /\ ListDone(p)
            /\ UNCHANGED <<disk, cursor, faults, shown, again, evicted, recovered>>

SweepStep(p) == \E f \in orphans[p] : Recover(p, f) \/ SkipOrphan(p, f)

DaemonStep(d) ==
  \/ Spawn(d) \/ Exit(d) \/ Retry(d) \/ Pass(d) \/ SweepStep(d)
  \/ HearNothing(d) \/ Hear(d) \/ ListVictims(d) \/ Stamp(d)
  \/ Land(d) \/ PutFails(d)
  \/ \E m \in Mentions : Evict(d, m)

ReaderStep(r) ==
  \/ SweepStep(r) \/ Scan(r) \/ Poll(r) \/ GiveUp(r) \/ LoadOk(r) \/ LoadFails(r)
  \/ Show(r) \/ Ack(r) \/ AskHears(r) \/ AskHearsNothing(r) \/ Tell(r)
  \/ \E m \in Mentions : Claim(r, m) \/ ClaimFails(r, m)

Next ==
  \/ \E d \in Daemons : DaemonStep(d)
  \/ \E r \in Readers : ReaderStep(r) \/ \E v \in Verbs : Start(r, v)
  \/ \E m \in Mentions : Age(m)
  \/ \E p \in Procs : Crash(p)

Spec == Init /\ [][Next]_vars

(* Turns keep coming and a started verb runs on; a held wait reaches its    *)
(* deadline; files grow old.  Strong fairness on the steps from claim to    *)
(* ack taken while the claimed file is still there: they are milliseconds   *)
(* apart, a sweep comes once in a pass or a turn, so it cannot get in       *)
(* between every time.  Nothing is assumed of the daemon.                   *)
Holds(r) == <<hand[r], r>> \in processing

Fairness ==
  /\ \A r \in Readers : /\ WF_vars(\E v \in Verbs : Start(r, v))
                        /\ WF_vars(ReaderStep(r))
                        /\ SF_vars(GiveUp(r))
                        /\ SF_vars(LoadOk(r))
                        /\ SF_vars(Show(r) /\ Holds(r))
                        /\ SF_vars(Ack(r) /\ Holds(r))
  /\ \A m \in Mentions : WF_vars(Age(m))

FairSpec == Spec /\ Fairness
-----------------------------------------------------------------------------
(* Properties                                                              *)

TypeOK ==
  /\ inbox \subseteq Mentions
  /\ processing \subseteq Mentions \X Readers
  /\ stamp \in [Mentions -> Nat] /\ aged \subseteq Mentions
  /\ pc \in [Procs -> DaemonPC \cup ReaderPC]
  /\ verb \in [Readers -> Verbs \cup {"none"}]
  /\ hand \in [Procs -> Mentions \cup {0}]
  /\ names \in [Procs -> SUBSET Mentions]
  /\ orphans \in [Procs -> SUBSET (Mentions \X Readers)]
  /\ retrying \in [Daemons -> BOOLEAN] /\ path \in [Daemons -> Nat]
  /\ cursor \in 0..MaxMentions /\ crashes \in Nat /\ faults \in Nat
  /\ shown \subseteq Mentions /\ again \subseteq Mentions /\ evicted \subseteq Mentions
  /\ lost \subseteq Mentions /\ recovered \subseteq Mentions
  /\ arrived \in [Readers -> SUBSET Mentions]

OnDisk(m) == m \in inbox \/ \E r \in Readers : <<m, r>> \in processing

(* Once BCT's cursor has passed a mention, some process holds it, or it is  *)
(* on disk, or somebody was shown it, or the cap evicted it, or it ended    *)
(* with the process that held it: no interleaving of listings, renames,     *)
(* sweeps, failed puts and deaths makes one vanish.                         *)
NothingVanishes ==
  \A m \in 1..cursor : \/ \E p \in Procs : InHand(p, m)
                       \/ OnDisk(m)
                       \/ m \in shown \cup evicted \cup lost

(* A landed mention needs no process to survive: whoever dies, it is on     *)
(* disk until it has been printed or evicted (print, THEN ack; claim by     *)
(* rename).                                                                 *)
LandedSurvives ==
  \A m \in Mentions : stamp[m] # 0 => OnDisk(m) \/ m \in shown \cup evicted

(* Claims, evictions and sweeps arbitrate by rename alone, from stale       *)
(* listings: a mention still is never in two files, so never claimed by two *)
(* readers at once.                                                         *)
OnePlace ==
  \A m \in Mentions :
    /\ m \in inbox => \A r \in Readers : <<m, r>> \notin processing
    /\ \A r, s \in Readers : <<m, r>> \in processing /\ <<m, s>> \in processing => r = s

(* Printed twice, or printed and counted as dropped, only if an orphan       *)
(* sweep put it back: claims race with claims and evictions, polls repeat    *)
(* and puts retry, and each mention has one winner.                         *)
DuplicatesAreRecovered == again \cup (shown \cap evicted) \subseteq recovered

(* One daemon: leaving aside what sweeps put back, inbox/ never holds more  *)
(* than INBOX_CAP files, although the listing the evictions follow is stale. *)
CapHolds == Cardinality(inbox \ recovered) <= Cap

(* The cap only ever costs a mention that at least INBOX_CAP - 1 younger    *)
(* ones have outlived: the newest are never thrown away.                    *)
NewestKept ==
  \A m \in evicted : Cardinality({n \in Mentions : stamp[n] > stamp[m]}) >= Cap - 1

(* One daemon: no listen moves the cursor while a mention heard earlier is  *)
(* still only in memory, failed puts included.                              *)
LandedBeforeListen ==
  [][\A d \in Daemons : hand'[d] = cursor' /\ cursor' > cursor
        => \A e \in Daemons : hand[e] = 0]_vars

(* A claim takes the oldest file there is, but for files that came into      *)
(* inbox/ after the claimer listed it: from a sweep, or from a second daemon *)
(* whose write was slower than a younger one's.                             *)
OldestFirst ==
  [][\A r \in Readers, m \in Mentions :
        <<m, r>> \in processing' \ processing
          => \A n \in inbox : stamp[n] < stamp[m] => n \in arrived[r]]_vars

(* A landed mention reaches somebody or the cap, through crashes of whoever *)
(* claimed it: the sweep brings it back for another turn.                   *)
Delivered ==
  \A m \in Mentions : m \in inbox ~> m \in shown \cup evicted

(* ... and it is not repeated for ever: every mention leaves the disk for   *)
(* good.                                                                    *)
Drained == \A m \in Mentions : <>[] ~ OnDisk(m)

(* inbox.py:98-99, "exactly one session ever delivers a given mention", of  *)
(* readers that neither die nor stall.                                      *)
DeliveredOnce == again = {}

(* docs/SPEC.md 7, "A transient disk failure costs a delay, not a message", *)
(* of processes that are never killed.                                      *)
FaultsOnlyDelay == lost = {}

(* The promise, MentionQueue, is kept: each step of the processes is one    *)
(* move of one mention along its edges, or none.                            *)
Place(m) ==
  IF m > cursor THEN "room"
  ELSE IF \E p \in Procs : InHand(p, m) THEN "hand"
  ELSE IF m \in inbox THEN "queue"
  ELSE IF OnDisk(m) THEN "out"
  ELSE IF m \in lost THEN "lost"
  ELSE IF m \in evicted THEN "dropped"
  ELSE "done"

Queue == INSTANCE MentionQueue WITH where <- [m \in Mentions |-> Place(m)]

KeepsPromise == Queue!Spec

=============================================================================

# The delivery protocol of bct-chat-remote, in TLA+

bct-chat-remote lets a coding session on a remote host take part in a BCT chat
through a tunnelled socket.  One background daemon per host listens for the
mentions addressed to that host; short-lived hooks of the host's sessions, and the
command-line verbs, deliver them.  There is no lock anywhere: every process works on
the same few files, `os.rename` and `os.replace` arbitrate, and any process may be
killed between any two of its steps.  A person at BCT's dock grants the host its seat
in the room.  This directory holds specifications of that
protocol, the TLC configurations that check them and theorems that TLAPS proves.
Paths below are relative to the repository's `src/bctchat/` unless they say otherwise.

## 1. Inventory

| Component | State | Operations | Status |
|---|---|---|---|
| Inbox (`inbox.py`, with the loops that call it in `delivery.py`, `cli.py`) | files of `inbox/` and `processing/`, their names (time of the put) and mtimes | put with eviction, claim, load, ack, orphan sweep, wait | `Inbox`, `MentionQueue` |
| Dropped counter and its janitor (`inbox.py`) | `dropped.json`, `.bump` and `.claim` sidecars | bump, take, sweep of sidecars | `DroppedCounter` |
| Daemon pass (`presence.py`) | `unlanded`, `seated`, `backoff`, the mtime of `heartbeat.pid` | exits, retry, sweep, socket probe, join step, presence tick, listen, land, backoff wait | the mention path in `Inbox`, timing in `Heartbeat`, with its calls in full in `Pass`, seating in `Membership`, exits in `Presence` |
| Pidfile, version stamp, session markers (`presence.py`, `delivery.py`) | `heartbeat.pid`, `heartbeat.artifact`, `sessions/*` | ensure, take over, release, mark, unmark, gc | `Presence` |
| Membership (`membership.py`) | identity, `pending-join.json`, `join-state.json` | ask, poll, claim, probe, deny, suspend, leave, join | `Membership` |
| Chain cap (`delivery.py`) | `chain.json` | count, hold, save, reset | `Delivery` |
| Wire (`wire.py`) | one connection per call | connect, send, read to newline, deadline | `Wire`, composed with the pass in `Pass`; `tcp_target` is left out |
| Local state helpers (`state.py`) | files | atomic save, load, forget, pid probe | as used by the others |
| Digest (`delivery.py`) | - | line cap, byte cap, omission notes | operators of `Digest` |
| Config (`config.py`), build script, hook registration | - | lookup, packaging | no state worth a model |
| BCT's bridge | the room, each seat's cursor | chat-join, chat-listen, chat-read, ... | external: a cursor that moves once and never back |

How they interact.  A session's hook marks the session, makes sure a daemon runs,
sweeps orphans and, on Stop, claims, prints and acks one mention.  The daemon repeats
a pass: leave if nobody is left, a newer daemon took over or the user left; retry a
put that failed; refresh the pidfile; get or check the seat; `chat-listen`; put what
it heard into `inbox/`.  A put over the cap evicts the oldest files and bumps
`dropped.json`; the next digest takes that count.  Everything they share is on disk.

What is hard about it.  (a) Every decision is made from a directory listing that other
processes have changed since.  (b) BCT's cursor moves when it replies: a reply that is
lost, or a daemon killed before it lands the mention, is not repeated.  (c) A claim has
no lease: only the mtime of the claimed file says that its claimer died, and that
mtime is the put's.  (d) Put, bump and take are each several file-system calls, with a
death possible after each.  (e) A daemon is presumed dead by the age of its pidfile,
while it may be inside calls that take their full timeout.  (f) Two daemons overlap
during a hand-over.  (g) Two files say who the ear is, and two writes, two deletes and
four reads of them interleave.  (h) A Stop hook reads the chain count, may hold for 15
minutes, and then writes it.

What makes each component correct.

- *Inbox*: nothing BCT handed out vanishes; a landed mention outlives any process; one
  file per mention; printed before removed; duplicates only through orphan recovery;
  the cap holds and costs only the oldest; oldest first; eventually delivered, and
  eventually off the disk.
- *Dropped counter*: each eviction is counted once, whoever steals, saves or dies; the
  sidecars of the dead go away, those of the living do not.
- *Daemon pass*: a daemon that waits out a dead tunnel reads as alive, and no daemon leaves
  its pidfile alone for longer than a pass and a chunk; the wait doubles up to its cap and
  starts over only on an answered listen; a mention heard is landed before the next
  listen.
- *Pidfile and markers*: who hands on has let the pidfile go; no session is left with a
  marker and no ear; a session in use
  gets its ear back after any failure; a host without sessions, or whose user left, ends
  up without a daemon.
- *Membership*: one request in flight; the host asks only without a seat; after `leave`
  no daemon, wherever in its tick it is, seats the host again; the join
  budget is kept; a host with a seat comes to hear on it.
- *Chain cap*: a session whose count no other session writes runs no more than the cap of
  consecutive turns unattended; however the count is shared, such turns come to an end.
- *Wire*: no call outlasts its deadline, and no answer that arrived is reported as an
  error.
- *Digest*: the instruction how to answer survives both caps, and no omission is silent.

## 2. Modules and their correspondence to the code

### `MentionQueue` - the abstract promise

No files and no processes: a mention is in one of seven places (`room`, `hand`,
`queue`, `out`, `done`, `dropped`, `lost`) and moves along fixed edges.  `Finish`, the
edge from `out` to `done`, needs the mention to have been shown: that is
`docs/SPEC.md` 6, "at-least-once, never at-most-once".

### `Inbox` - the host

| Model | Code |
|---|---|
| `inbox`, `processing` | names in `inbox/`, names in `processing/`; the latter are `<pid>-<name>`, hence pairs |
| `stamp` | `time.time_ns()` leading the name of a file |
| `path[d]` | the name a put has made and not yet written, by that time |
| `aged` | files whose mtime is at least `ORPHAN_AGE` old; a rename keeps it, so it belongs to the mention |
| `hand[d]` | the daemon's `unlanded`, or the reply it has just received |
| `hand[r]` | the item a reader claimed, or (`tell`) what `read` got from the wire |
| `names[p]`, `orphans[p]` | the listings a process is going through |
| `cursor` | BCT's cursor for this seat |
| `pc` | where the process is, one label per point at which another process can act |

Actions, in the order of the code: a daemon's pass (`Spawn`, `Exit`, `Retry`, `Pass`,
`HearNothing`, `Hear`), `inbox_put` (`ListVictims`, `Evict`, `Stamp`, `Land`, `PutFails`),
`recover_orphans` (`StartSweep`, `Recover`, `SkipOrphan`), and the readers `stop_hook`,
`prompt_submit_hook`, `do_read`, `do_wait` (`Start`, `Scan`, `Claim`, `ClaimFails`,
`Poll`, `GiveUp`, `LoadOk`, `LoadFails`, `Show`, `Ack`, `AskHears`, `AskHearsNothing`,
`Tell`).  `Age` is time passing over a file, `Crash` a kill, or an exception that ends
the process.

Each action is one file-system call together with what the process does alone after
it; two calls of one process are always two actions.  The deliberate abstractions:

- of `time_ns` only the order matters: `Stamp` takes the first time of `Times` later than
  all those in use, and two daemons may write their files in the other order;
- `os.listdir` gives an arbitrary order and a sweep takes its names in any order;
- items that do not parse are left out (the code drops them; nothing writes any,
  because every write is atomic);
- a Stop hook held back by the chain cap is a reader that does not start;
- the gap between an eviction and its bump is in `DroppedCounter` and not here;
- `retrying` distinguishes the put at the top of a pass, which carries on with the
  pass, from the one at its end, which begins a new pass;
- pids are not reused;
- the reading of a claimed file (`LoadOk`) and the print (`Show`) are two steps, since
  a sweep can come in between; file contents never matter beyond which mention it is.

The variables `shown`, `again`, `evicted`, `lost`, `recovered` and `arrived` record history
for the properties and are read by no guard.  `arrived[r]` is what came into `inbox/`, by a
sweep or a put, since reader r made the listing it is claiming from.

### `DroppedCounter`

`_bump_dropped`, `take_dropped` and `_sweep_sidecars` one call at a time: steal by
rename, load, save, forget, on both sides.  `side[p]` is the sidecar of process p,
`old` the sidecars whose mtime passed `ORPHAN_AGE`; since a rename keeps the mtime of
`dropped.json`, a sidecar may be old from birth (the choice in `Rename`).  `Overlap`
says whether two daemons may run at once.  `Keeps(p)` gives the part of the count that
only process p can still save or report, and `Kept` lays these parts out, one pair of a
process and a number for each eviction, so that `Conserved` can count them; `lost` collects
a part when its process dies or a save raises.

### `Heartbeat`

One daemon against the clock, in seconds.  `age` is the age of the pidfile's mtime;
`Touch`, `NextChunk` and `EndWait` are the calls of `os.utime`.  Each call to the
bridge takes any time up to its timeout and gives any of its outcomes.  Work on the
local disk takes no time.  `tunnel` is history: whether `sock_available()` succeeded since
the pidfile was last touched.  `ProbeRaises`, `TickRaises`, `JoinRaises` are a reply the code
cannot use, which raises into the wait.  An action of a call takes the seconds it took as a parameter,
which `Next` ranges over the timeout and `Pass` supplies.  A chunk is `PidfileStale \div 2` (45 s, exact for the
shipped constant); the re-arm floor is one second or, for short windows, none.

### `Membership`

| Model | Code |
|---|---|
| `identity` | `participantID` of `identity.json`, 0 for no file |
| `pending`, `old` | `requestID` of `pending-join.json`, 0 for no file; its age passed `PENDING_TTL` |
| `budget` | `join-state.json`; `backing` is "`nextAttemptAt` is in the future" |
| `status`, `grant`, `seats` | BCT: what became of each request, the id it was granted, the ids it knows |
| `held[p]` | the request `claim_pending()` loaded, or the reply of `chat-join` |
| `note[p]` | the outcome, then the join state, between the reads and the save of `note_join_outcome()` or `do_leave()` |
| `seated[d]`, `dead[d]` | the daemon's `seated` and `dead_id` |
| `pc`, `after` | where the process is; where `claim_pending()` returns to |

The calls are flattened into labels, one per file or wire operation:

- `pending()`, `claim_pending()`, `note_join_outcome()`: `Pend`, `Retire`,
  `PollNothing`, `PollApproved`, `Keep`, `Forget`, `Clear`, `PollRefused`, `Note`,
  `Noted`;
- `ensure_membership()` and the asking half of `do_join()`: `EnsurePends`,
  `EnsureMay`, `AskFails`, `Ask`, `File`;
- the seating part of `do_daemon()`: `Start`, `Exit`, `Ensure`, `ProbeOk`,
  `NotInvited`, `Disprove`, `ProbeNothing`;
- the verbs: `Run`, `Send`, the waiting half of `do_join()` (`Wait`, `Look`) and
  `do_leave()` (`Leave`, `Unseat`, `Withdraw`, `Recall`, `Suspend`);
- around them: `Answer` (the person), `Evict` (BCT removes a seat, or restarts and
  forgets seats and requests), `Lapse` and `BackoffOver` (time), `Crash`.

The `forget` after a poll, and the one of an old request, remove whatever is in the file by then, as
the code does by path.  The abstractions:

- a request's `name` is left out, and with it the backfill of a missing `requestedAt`;
- `suspended()` and `identity()`, two files read one after the other, are one step;
- the daemon's exit is taken at the top of a pass, with the tick and the listen of a
  seated daemon, whose replies matter here only when they say NOT_INVITED;
- `send` stands for every verb that goes through `authed()`; its retry after a re-join
  changes none of these files;
- `Lapse` relies on BCT letting a request lapse in five minutes and on `do_join()`
  giving up in five, both half of `PENDING_TTL`: a request still open, or one somebody
  waits for, is not yet old.

What `do_join()` prints of a request that has gone is left out (section 6).  `unfiled`,
`refused` and `left` are history.  `left` is set by a leave that returns `Settled`: the
files are empty and nobody is `Busy`, that is, between the look at the budget and the last
thing done with the reply of a `chat-join` or a poll.

### `Wire` and `Pass` - the calls of a pass

`Wire` is one call at a time of `sock_available()` or `rpc()`: `Dial` sets the deadline,
`Connects` or `ConnectFails` takes what `connect()` is granted, `Sends` or `SendFails` what
is left of the deadline, `Recv` brings any number of complete lines up to `MaxFrames` (a dribble that
completes none included), `Keepalive` and `Answer` look at the lines before the clock is
looked at again, `TimeUp` is the clock having run out, `RecvFails` a timeout, a close or an
error; `Return` closes the socket.  A line is a keepalive, JSON or neither; the bytes of a
line and its partial pieces are left out.  A wait lasts any time of `Beats`, or all it may.

`Pass` puts it in the place of Heartbeat's calls: `Calls` dials with the timeout of the
point the pass is at, `Talks` is a step of `Wire`, and `Returns` takes the step of
`Heartbeat` that the result allows, with the seconds spent; `Local` is what makes no call,
`ensure_membership()` included when it decides without one.  That every behaviour of it is
one of `Heartbeat` (`PassesInTime`) is what justifies the bound on a call there.  In a real
call the clock also advances between two system calls; here it advances in them.

### `Presence` - which process is the ear

| Model | Code |
|---|---|
| `pidfile`, `warm` | the pid in `heartbeat.pid`; its mtime is younger than `PIDFILE_STALE` |
| `stamp`, `ver[d]` | `heartbeat.artifact`; the `ARTIFACT` a daemon runs |
| `marker[n]` | a file of `sessions/`: no file, the pid of the session's claude (`own`), 0 (`blank`), a stranger's (`wrong`), or what `gc_markers()` collects (`dead`): a pid that is gone, or 0 and older than `MARKER_TTL` |
| `left` | `suspended() and not identity()` |
| `alive` | the sessions whose claude runs |
| `todo[d]`, `doomed[d]` | the listing `gc_markers()` goes through; the marker it judged dead and has not yet removed |
| `pc` | the point a daemon, or a session's hook, is at |

`Stat` and `Stamped` are `heartbeat_alive()`, asked by a hook, by a daemon that starts and
by a daemon that hands its marker on; `Decline`, `Spawn`, `SpawnFails` the rest of
`ensure_daemon()`.  `Turn`, `Mark`, `MarkWrong`, `MarkFails`, `End` are the hooks; `KillHook`
may leave the temp file of `mark_session()` in `sessions/`, empty or with the pid written,
where `live_sessions()` counts it (`TempsOf` says which temp files may be whose).  `Claim` and `Sign` begin a daemon; `List`, `Judge`, `Collect`, `Look` are the top of a
pass; `Release`, `Unlink`, `Unsign`, `Recheck` the exit for want of sessions; `StandDown` the
other two exits, `Stay` the `os.utime` of a pass and `Chunk` the one of a backoff; `Final` the
`finally`.  `Begin`, `Die`, `StrangerDies`, `Expire`, `Late`, `Leave`, `Rejoin` are the
world: claude starting and ending, a week passing, a pass that outlasts `PIDFILE_STALE`
(which `Heartbeat` shows to be possible), the user.  The deliberate abstractions:

- the mtime, the owner and the probe of `heartbeat_alive()` are one step, the stamp
  another; so are the owner check and the `os.utime` of a pass;
- `ensure_daemon()`'s look at the budget and its `Popen` are one step;
- a daemon that hands on spawns its successor into its own place, since all it does
  after the `Popen` is find a pidfile that is not its own; this keeps the number of pids
  at two, and takes the successor's pid for its own;
- a pid is used again only when the pidfile does not name it;
- every session runs the new version; a daemon of the old one may be there to begin with;
- a `session-start` is a turn that may give up when it cannot mark;
- the rest of a pass, with its failures, keeps the daemon where it is (`pass`);
- the temp file of a `mark_session()` that is not killed is not seen: it would only keep a
  daemon for one more pass;
- a kill, a failed call, a wrong pid, a late pass and a `leave` are faults, `MaxFaults` of
  which happen.

### `Delivery` - the hooks and the chain cap

`chain` is `chain.json`, `n[s]` the count a Stop hook has read, `driver[s]` who drives the
turn of session s (`user`, or `chain` when a hook blocked it, which is
`stop_hook_active`).  `Prompt`, `Forget`, `Rides`, `Shows` are `prompt_submit_hook()`; `Count`,
`Take`, `Miss`, `HoldEnds`, `Quits`, `Save`, `Block` are `stop_hook()`, where `Standby` is
`chat_mode()` over both of its variables.  `KillHook` and `SaveFails` end a hook anywhere
(`Ends`): a claimed mention stays behind in `processing/` until `Sweep`.  `Miss` and the
miss of `Rides` may come with mentions in `inbox/`, when a listing was stale.  Mentions are only
counted, since `Inbox` says how one moves; marking and spawning are `Presence`.  An
unreadable `chain.json` reads as 0, like none.  `run` and `mingled` are history.

### `Digest`

`compose_digest()` as operators, over texts whose lines are sequences of character widths
in UTF-8.  A character remembers the line it came from, which is how the properties tell a
line that is whole from one that is cut.  `Body`, `Newest` and `Shown` are sets of line
numbers, since `Lines` puts what is shown in the order of the room.  `Bytes` counts pairs of
a character and one of its bytes.  `Bounded` is the byte cap: bytes are cut, a split
character is dropped.  The client's own lines are given by their length (`Size`), and
`HintFits` says that the hint is within `DIGEST_MAX_BYTES` (16384; the hint has 217).
Both statements about it, `HintLast` and `SaysWhatIsOut`, quantify over all the texts of the
instance; `Delivery` states them of every hook that prints.

### MC modules and faulty variants

`MCInbox` adds the symmetry set, `MCDelivery` the two sessions' environments and the texts
of `Digest`, `MCPresence` whose the temp files may be; the other MC modules only give TLC a root module.  Readers are interchangeable: no action and no property
names a particular one, and symmetry is not used in a run that checks liveness.

Some modules hold operators such as `NoArbitration`, `LoadAcks` or `CopyNotRename`.
No action uses them.  Each is a plausible bug standing before the definition it
would replace, and was used to confirm that a property notices it.

## 3. Runs

| Run | Configuration | Shows |
|---|---|---|
| `inbox_single` | 1 daemon, 2 readers of either `hook` or `read`, cap 1, 2 mentions, 1 crash, 1 failed put | types; `NothingVanishes`, `LandedSurvives`, `DuplicatesAreRecovered`, `LandedBeforeListen`, `CapHolds` through crashes, failed puts, evictions, slow readers |
| `inbox_handover` | 2 daemons at once, 1 `wait` reader, cap 2, 3 mentions, nobody killed | `NothingVanishes`, `OnePlace`, `NewestKept`, `OldestFirst` with two daemons evicting, sweeping and writing out of order under stale listings |
| `inbox_live` | 1 daemon, 1 reader of `hook` or `standby`, 2 mentions, 1 crash, fairness | `Delivered`, `Drained`, and `KeepsPromise`: every step is one move of `MentionQueue` or none |
| `inbox_once` | 2 hooks, 1 mention, nobody dies or stalls | violation of `DeliveredOnce` (section 6) |
| `inbox_faults` | 1 failed put, nobody killed | violation of `FaultsOnlyDelay` (section 6) |
| `dropped_one` | daemons one after the other, 2 hooks, 3 evictions, 2 crashes, 1 failed save, fairness | `Conserved`, `DeadAreSwept` |
| `heartbeat_shipped` | `Pass` with the shipped times, at most 3 lines from the bridge in a call | types, `DeadTunnelReadsAlive`, `SilenceBounded`, `BackoffCounts`, `NoAnswerLost`, and `PassesInTime`: every step is one of `Heartbeat` or none |
| `member_daemon` | 1 daemon, budget 2, 3 requests, 1 eviction, 1 crash, fairness | `OneRequest`, `BudgetKept`, `Rejoins` through refusals, lapses, lost answers and a restart of BCT |
| `member_leave` | 1 daemon and 1 caller of `join`, `leave`, `send`, budget 2, 2 requests, 1 eviction, 1 crash | types, a spent budget being suspended; `LeaveStays` beside a daemon |
| `presence_host` | 1 session, 2 daemon pids, one temp name, an old daemon or none, 1 fault, fairness | types, and `LetGo`; `NeverDeaf`; `MarkedHeard`, `EarReturns`, `LeftStaysOut`, `PhantomLeaves` |
| `presence_upgrade` | the same without faults or temp files | violation of `UpgradeHeard` (section 6) |
| `delivery_chain` | 2 sessions in standby, cap 3, 2 mentions, 1 fault; rooms of up to 4 lines against caps of 2 lines and 19 bytes | `CapKept`, `TurnsRunOut`, `HumanlessStops`; `HintSurvives`, `NothingSilent` |

Bounds.  `MaxMentions`, `MaxCrashes`, `MaxFaults` and `MaxCounted` limit counters that
have no limit in the code; each appears as a guard.  Two mentions over a cap of one,
and three over a cap of two, are the smallest instances in which a put must evict, in
which the evicted file can be one that a reader claims, and in which there is a
younger file that must survive.  A cap of two is what tells an off-by-one in the
number of victims from the right number; with three mentions one put evicts, and a
recovered file makes an overfull inbox.  Two readers give every claim race, the third
party of a race being the sweep of either.  One crash suffices to leave a claim,
a listing or a half-done put behind; what a second crash adds is a repetition of it.
`Verbs` picks, run by run, which loops the readers run, since the four of them differ
only in whether they sweep, poll or ask the room.  `SlowReaders` allows a living reader to be
overtaken by `ORPHAN_AGE`.  `silent` in `Heartbeat` stops counting at 4, after the wait
has reached its cap.

In `Membership`, `MaxAttempts` is the code's `JOIN_MAX_ATTEMPTS`, small so that it is
reached; `MaxRequests`, `MaxEvictions` and `MaxCrashes` bound the room's counters and the
deaths.  Three requests with a budget of two are one more than `BudgetKept` allows, so
a budget that leaked would show.  One eviction covers a seat taken away and a restart
that also forgets the requests.  A single id makes every reseat hand back the id the
wire disproved, the hard case of `Rejoins`.  `member_daemon` has no caller, because with both
`OneRequest` and `BudgetKept` reach the disagreements of section 6; `member_leave` has both.  There
two requests are one for the daemon and one for a `join`, and a budget of two lets one refusal
be noted without ending all asking.

In `Pass` the times are the shipped ones, since their sums are the point; a wait of 0, of 1 or of all it may last is enough for every way in which a
deadline can be missed or just met.  Three lines let two keepalives and an answer, or what
follows an answer, share a read or come in several.

In `Presence` two pids are a daemon and its rival, or a daemon and the successor it spawns
while a hook spawns another; the hook of one session is the other party.  Other sessions
matter to a daemon only by their markers, which the temp name also stands for; the proof
of `NeverDeaf` covers any number.  One fault of the seven kinds is followed by everything
the host does on its own.  `MARKER_TTL` is a week, in which a session in use runs a hook,
hence `Expire` spares the living.

In `Delivery` the cap is the shipped one.  Two sessions are what a shared count needs; two
mentions keep both of them going, `Heard` refilling without end.  `run` is counted to one
beyond the cap, which is as far as `CapKept` looks.  In `Digest` four lines are twice the line
cap, with empty lines among them, and 19 bytes put texts with characters of one and three
bytes below, at and above the byte cap, with the cut inside a character.

`CHECK_DEADLOCK FALSE` in `Inbox`, `DroppedCounter`, `Membership` and `Presence`: once the bounded mentions are
delivered and the bounded deaths spent, a host with no session and no daemon is at
rest, which is how the program ends; in `DroppedCounter` pids are used once; in `Membership` a suspended host
without an identity has no daemon and waits for its user; in `Presence` a host on which no session begins is at rest.  `Pass` and
`Delivery` never stop and are checked for deadlock.

Fairness, used in five runs.  In `Inbox`: sessions keep having turns and a process that
runs takes its steps (weak fairness of `Start` and of a reader's steps), files grow
old, and a held wait reaches its deadline (strong fairness of `GiveUp`, because polling
makes it enabled only now and again).  Loading, printing and acking while the claimed
file is still there are strongly fair: these are consecutive statements,
milliseconds apart, and a sweep comes once per pass or turn, so a sweep cannot get
in between every time.  Nothing at all is assumed of the daemon, so delivery of what has landed
does not depend on one running.  In `DroppedCounter`: files grow old and somebody runs
the janitor, which every pass and every hook does.  In `Membership`: hooks start a
daemon and a running one takes its steps (weak fairness), a backoff ends, and the
tunnel lets a probe of a valid seat and a `chat-join` through now and again (strong fairness of
`ProbeOk` and `Ask`, since each alternates with failures).  Nothing is assumed of the
person: `Rejoins` excepts a host whose budget is suspended, whose seat goes away, or
which has made all `MaxRequests` requests.
In `Presence`: what runs takes its steps (weak fairness of a daemon's and of a hook's
steps, the collection of a marker that expires included), and a daemon comes to the top
of a pass again and again (strong fairness of `List`, since `Chunk` may alternate with it:
a backoff is finite).  Nobody is promised a turn: the properties that need turns say so
(`InUse`).  `HumanlessStops` needs none: it holds of every behaviour.

## 4. Proofs

All for arbitrary values of the constants, from the named assumptions of each module.

- `InboxProofs.TypeCorrect`: the type invariant, one step per action (`TypedStep`).
- `InboxProofs.NothingEverVanishes`, `LandedAlwaysSurvives`, `AlwaysOnePlace`: from one
  inductive invariant, `Kept`.  None of the three is inductive.  That an `Ack` does not destroy
  a mention needs "at `ack`, what is in hand was shown" (`AckShown`); that a `Land` does
  not create a second file needs that a mention in a daemon's hand has never landed
  (`HeldFresh`) and is in one hand only (`OneHand`); that a file on disk was landed
  (`DiskLanded`) and that mentions beyond the cursor are nowhere (`Unheard`) close the
  argument.  `KeptStep` has one step per action and one per conjunct the
  action disturbs.  They hold with any number of daemons and readers.
- `InboxProofs.OnlySweepsDuplicate`: from `Once`, which adds that a mention with no
  recovery behind it and not yet printed is either still in place or in the hands
  of the reader whose claim stands.  It includes that nothing is both printed and counted as
  dropped.
- `InboxProofs.SoleDaemonLandsFirst`: with a single daemon, `LandedBeforeListen`; the only step
  that moves the cursor into a daemon's hand is `Hear` (`CursorMoves`).  The assumption
  is necessary: two daemons in a hand-over each hold one.
- `InboxProofs.PromiseIsKept`: the refinement `KeepsPromise`, step by step from `Kept` and
  `Once`: each action of `Inbox` moves at most one mention along an edge of `MentionQueue`.
  `Ended` makes the ends final: what was lost with its holder never landed and nobody holds
  it, what the cap threw away landed and is in no file.
- `InboxProofs.CapKeepsNewest`, `ClaimsInOrder`: `NewestKept` and `OldestFirst`, with any number
  of daemons and readers, although every listing may be stale, from `Ordered`.  `StampsApart`: the
  times of files written, and of names made and not yet written, all differ.  `VictimsOutlived`:
  whatever is on an eviction list has `INBOX_CAP - 1` younger ones.  `OlderListed`: a file older
  than one a reader has yet to try is on the reader's list as well, or came in after it was made
  (`arrived`), by a sweep or by a daemon that was overtaken between naming a file and writing it.
- `InboxProofs.SoleDaemonKeepsCap`: `CapHolds`, from `RoomLeft`: the files a put does not
  mean to evict are at most `INBOX_CAP - 1`.  It supposes at most one daemon, since two that
  list before either lands leave one file too many.
- `HeartbeatProofs.HeartbeatTypes`, `DeadTunnelAlwaysAlive`, `SilenceIsBounded`: for every choice of
  the timeouts with `2 * SockTimeout < PidfileStale`.  `AgeBound` bounds the age of the pidfile at each
  point of the pass, by what has been called since the last `os.utime`.  With the shipped times
  `SilenceBounded` allows 108 s, more than `PIDFILE_STALE`: only while the tunnel is down does
  a waiting daemon always read as alive (section 6).
- `HeartbeatProofs.WaitsCountFailures`, `PassProofs.PassCountsBackoff`: `BackoffCounts`, for all
  bounds of the backoff.  `Counting` adds that a wait begins by counting its pass, and that the
  doubling comes after it.  The second carries it over the refinement to `Pass`.
- `PassProofs.PassTypes`, `AnswersAreKept`: the types of `Pass`, and `NoAnswerLost`.  `Looked` says
  that the buffer is the end of what came, and that every line before it is a keepalive; the
  first line that is none is therefore still to be returned.
- `MentionQueueProofs.PromiseIsAtLeastOnce`: in the abstract queue, done means shown.

- `MembershipProofs.MembershipTypes`: the type invariant, with a budget that is
  suspended whenever it is spent, for any number of daemons and callers: although
  `note_join_outcome()` and `do_leave()` read, change and save without a lock, no lost
  update leaves a spent budget that is not suspended.  The strengthening `HeldKnown` says that a process
  between a poll or an answer and its last use of the request has one in hand.
- `MembershipProofs.SoleDaemonAsksOnce`: with one daemon and no caller, `OneRequest`.
  `Filed` says that an open request whose id arrived is the young one in
  `pending-join.json`, or in hand on its way there, and that the daemon is nowhere from
  where it could ask or forget it; `Closed` that what a claim forgets is what it
  polled, and no longer open.  That nobody else asks is necessary (section 6).
- `MembershipProofs.LeavesStayLeft`: `LeaveStays`, for any daemons and other processes, any of
  them killed anywhere.  `Gone` adds that after such a leave the budget stays suspended and the
  host `Settled`: with both files empty, a suspended budget and nobody `Busy`, a daemon in the
  middle of its tick finds nothing to poll and may not ask, so nobody becomes `Busy` but by
  a manual join.  A leave that overtakes a `Busy` process is left out: there the code reseats
  (section 6).
- `MembershipProofs.SoleRequesterKeepsBudget`: `BudgetKept` for one process, daemon or person.
  `Spends` says that `join-state.json` counts every refusal received but the one on its way to
  being noted (`Noting`), and that nobody asks, or has a request out, on a spent budget.
- `Lapse`, in all of these, keeps BCT and `do_join()` within `PENDING_TTL`; `OneRequest` needs it.

- `PresenceProofs.PresenceTypes`, `NoSessionLeftDeaf`: for any numbers of daemons, sessions
  and temp files, the types with `LetGo`, and `NeverDeaf`.  The latter is not inductive: a hook defers to whoever is in the
  pidfile, so the invariant `Ear` adds that while nothing has failed the owner of the
  pidfile is on its rounds (`OwnerServes`: it will look at the markers again, or release the
  file before it does) and the room has not been left.  `EnsureEar`, `SessionEar` and
  `DaemonEar` take the steps of hooks, sessions and daemons in turn.
- `DeliveryProofs.DeliveryTypes`, `ChainIsCapped`: for every cap and any number of sessions,
  `CapKept`.  The invariant `Kept` says where the account of a session's automatic turns is:
  in `chain.json` between its hooks, in the count its hook has read until the save, and one
  ahead in the file between the save and the print; a kill between these two overcounts.
- `DeliveryProofs.TurnsAlwaysRunOut`: `TurnsRunOut`, the step behind `HumanlessStops`, for every
  cap and any finite number of sessions.  `Ahead` is what a session may yet run, and cause others
  to run, from the count it is at: a save or a reset costs it a level, which is worth one turn
  more than the level below for each session (`Turns`), so that whatever the others read anew is paid for
  (`SharedOut`); all other steps leave every share as it was or smaller (`SharesShrink`).  `Climb`
  gives the recursive function `Turns` its equation (`TurnsAre`).
- `DroppedCounterProofs.CounterTypes`, `CountsAreNeverDoubled`: with any number of overlapping
  daemons no eviction is counted twice, whichever of `dropped.json`, the sidecars, the digests
  and the losses it is in.  `Stolen` says that what a bump saves starts from what it
  stole.  Each step moves units between these places or overwrites some (`TotalStep`).
- `DroppedCounterProofs.CountsAreConserved`: `Conserved`, none being overwritten when
  daemons come one after the other (`Overlap = FALSE`): then `dropped.json` stays away between the
  steal and the save of a bump (`Absent`).  With two daemons it does not (section 6).
- `DeliveryProofs.HintAlwaysSurvives`, `NothingIsSilent`: `HintSurvives` and `NothingSilent` for all
  texts, any number of lines of any length, and all caps the hint fits under.  No state
  enters these: they are about `Compose`.  `BytesAdd` says that bytes add up over a
  concatenation; `Flattened` gives the function by which the library joins lines, and
  `LinesInFull` climbs along it: after each line, every shown line so far is there in one
  piece.  `OutForNewer` finds, for a line that is out, a full cap of newer ones that are in:
  those after the last line that is out.
- `PassProofs.PassImplements`: the refinement `PassSpec => PassesInTime`, for all timeouts
  and whatever the bridge sends.  `InTime` says that a call has spent at most its limit, and
  that the limit is the one of its point in the pass.  `PassReadsAlive` and
  `PassSilenceIsBounded` then carry `DeadTunnelReadsAlive` and `SilenceBounded` over from
  `Heartbeat` to the pass with its calls in full.

Under the assumptions named, every invariant and every action property of the passing runs is
thus also proved, and so are both refinements.  Where a proof goes through all numbers up to
some length, it takes the least counterexample, which the library's theorem on well-founded relations gives (`Least`, `Climb`):
its induction theorems have an operator as a parameter, which the provers cannot instantiate.

Only model-checked: liveness (`Delivered`, `Drained`, `DeadAreSwept`, `Rejoins`, `MarkedHeard`,
`EarReturns`, `LeftStaysOut`, `PhantomLeaves`, `HumanlessStops`), which with its fairness is out of the
provers' reach.  The properties of the `violation` runs have counterexamples, and no proofs.

## 5. What is not modelled, and why

- Config lookup, `tcp_target()`, argparse, `hook_session_id()` and the BCT-pane test are
  parsing of one input with no state; the build script and the hook registration package
  the same code.  `ensure_stable_copy()` copies the client for people to run.
- `socket.create_connection()` gives each address of a name the whole timeout; `Wire` has one
  address per name.  A name with several can make `rpc()` outlast its deadline in the
  connect.
- A kill in `Inbox` and `Delivery` ends the hook with the shell that runs it.  One that ends the
  interpreter alone lets the `||` of the hook registration run the hook a second time, on a
  stdin already read: `stop_hook_active` then reads as false, and the chain count starts
  over (`delivery.py:122-123`).
- Windows renames, which fail while a reader has the file open: the guards are those of
  POSIX.  Recycled pids and clocks that run backwards are excluded.
- The bridge is external: what is assumed of it is that its cursor moves with a reply and
  never back.
- The modules are not composed into one host: `Inbox`, `Membership` and `Presence` each have
  the whole interleaving of their own files, and the others' effect as a choice (a daemon
  may start or stop at any pass in `Inbox`; `left` may change at any time in `Presence`).

## 6. Where the code and its documents disagree

1. `inbox_once`: `recover_orphans` judges a claim by an mtime that the claim's rename
   kept from the put.  An item that waited two minutes is an orphan the moment it is
   claimed, and is delivered twice by two prompt, living readers, against "exactly one
   session ever delivers a given mention" (`inbox.py:98-99`).
2. `inbox_faults`: the daemon's three exits come before the retry of `unlanded`, so a put
   that failed once is lost when the last session ends during the backoff, against
   "a transient disk failure costs a delay, not a message" (`docs/SPEC.md:235-236`).
3. `presence_upgrade`: the two writes of a starting daemon are two steps.  An old version's
   daemon that finds its session gone and then back hands its marker on to a daemon of its
   own version, just as a hook of the new version spawns one: both find no pidfile, and
   with claim (new), claim (old), stamp (old), stamp (new) the pidfile names the old daemon
   and the stamp the new version.  The new one stands down, every hook defers to the
   old one, and nothing repairs it, against `docs/SPEC.md:270-276`: with the stamp a hook does
   not "defer to that stale daemon" and the session does not "stay deaf".  `EarReturns`, which
   excludes exactly this hand-over, holds through one fault of any kind.

These need larger or other instances than the runs have; each line gives the constants that
reproduce it.

- Two daemons alive for a moment lose a count: one bump overwrites the other's, against
  "neither a concurrent reader nor a concurrent bump can lose or double-report a count"
  (`docs/SPEC.md:191-193`).  `DroppedCounter`, `Conserved`: `Bumpers = {b1, b2}`,
  `Takers = {t1}`, `Overlap = TRUE`, `MaxCounted = 3`, no crash, no failed save.
- A healthy daemon reads as dead: connect (3 s), presence tick (10 s), a listen that fails at its
  deadline (40 s) and a chunk (45 s) are 98 s between two refreshes of the pidfile, and an asking
  pass (3, 10, 10, 40, 45) takes 108 s, against a `PIDFILE_STALE` of 90.  `docs/SPEC.md:251-257`
  chunks the wait so that this cannot happen.  It cannot with a tunnel that is down
  (`DeadTunnelReadsAlive`); with a bridge that is up and slow it can, and `age < PidfileStale`
  as an invariant of `heartbeat_shipped` gives the trace.  `SilenceBounded` says what holds instead.
- A daemon inside `claim_pending()` puts the identity back, and lifts the suspension, after
  `do_leave()` returned, against "Leaving must STAY left" (`membership.py:173`).
  `Membership`, `LeaveStays` with `left` set by every leave, `Settled` or not:
  `Daemons = {d1}`, `Callers = {c1}`, `Verbs = {"leave"}`,
  `Ids = {1}`, `MaxAttempts = 3`, `MaxRequests = 1`, `MaxEvictions = 1`, `MaxCrashes = 0`.
- With two sessions a session may run more than the cap of automatic turns: another
  session's prompt forgets `chain.json`, or another's hold overwrites it with an older count
  (`delivery.py:145`, `164`).  `Delivery` with the constants of `delivery_chain`: `CapKept`
  without `s \notin mingled`.  On the same instance, counted from the last prompt of either, the two run
  at most 13 such turns between them.
- A leaving daemon deletes a successor's pidfile written between its owner check and its
  `forget` (`presence.py:152-153`, `251-252`), against "It never deletes a pidfile it does not
  own" (`docs/SPEC.md:260`).  Visible in `presence_host`; the successor goes on, since a missing
  file is nobody's, and the next hook spawns a rival that takes over.
- With a digest over the byte cap it is the newest line that is cut, since the cap keeps
  the head of a text whose line cap keeps its tail (`delivery.py:85`, `93`): `Digest`.

Four more show in `Membership` when a daemon and a caller are given together, or a property is
asked of it that no run has:

- With one daemon, one caller of `send`, two requests and one eviction, `OneRequest` fails: finding
  nothing pending and asking are separate steps, so both ask, against "a second
  `chat-join` can never fire while one is already outstanding" (`docs/SPEC.md:333-337`).
- A refusal is forgotten from `pending-join.json` before it is noted in `join-state.json`, and a
  `join` that looks in between, while a daemon polls the same request, reports an approval
  (`membership.py:99-100`, `138-149`): a caller at `Look` with the daemon at `note`.  What is
  printed is not in the model.
- With one daemon, one caller of `join` and two requests, `claim_pending()` forgets
  `pending-join.json` by path after its poll and its save, and a request filed in between is
  forgotten with the one that was answered (`membership.py:95`, `99`).
- `dead_id` outlives the reseat that made it stale: after a reseat with the same id
  and one probe without an answer the daemon asks for a second seat, against the reason
  `docs/SPEC.md:341-344` gives for `force`.

## 7. Plan

1. `Membership` with several processes, beyond `LeaveStays`: what still holds of the count of
   refusals when two of them poll one request, and of an approval whose id a second request
   overwrote.
2. Composition of `Presence` with `Pass`: a late pass as the ages that `Heartbeat` allows, and
   not as a choice; and of `Presence` with `Membership`, for the leave.
3. `Presence` with two sessions and two faults, where the instance is still tractable without
   the liveness properties.

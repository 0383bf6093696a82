----------------------------- MODULE Membership -----------------------------
(***************************************************************************)
(* The host's seat in the room: identity.json, pending-join.json and        *)
(* join-state.json, shared without a lock by the daemon and by the verbs    *)
(* join, leave and those that need a seat ("send": send, list, read).       *)
(* BCT is external: it takes requests, a person answers them, and it may    *)
(* evict a seat or restart and forget both seats and requests.              *)
(***************************************************************************)
EXTENDS Naturals, FiniteSets

CONSTANTS
  Daemons, Callers,
  Verbs,          \* what the callers run, of {"join", "leave", "send"}
  Ids,            \* participantIDs BCT hands out
  MaxAttempts,    \* JOIN_MAX_ATTEMPTS
  MaxRequests,    \* bound: chat-join replies
  MaxEvictions,   \* bound: evictions and restarts of BCT
  MaxCrashes      \* bound: processes killed

ASSUME MembershipAssumption ==
  /\ Daemons \cap Callers = {}
  /\ Verbs \subseteq {"join", "leave", "send"}
  /\ 0 \notin Ids
  /\ MaxAttempts \in Nat \ {0}
  /\ MaxRequests \in Nat /\ MaxEvictions \in Nat /\ MaxCrashes \in Nat

VARIABLES
  (* the files *)
  identity,       \* participantID, 0 when there is no file
  pending,        \* requestID, 0 when there is no file
  old,            \* requestedAt is PENDING_TTL ago
  budget,         \* join-state.json
  (* the room *)
  status,         \* of each request
  grant,          \* the id an approved request hands back
  seats,          \* ids BCT knows
  requests, evictions,
  (* the processes *)
  pc,
  after,          \* where claim_pending() returns to
  held,           \* the request claim_pending() last loaded, or chat-join answered
  note,           \* the outcome and the join state noted or left from
  seated, dead,   \* the daemon's
  crashes,
  (* history, read by properties only *)
  unfiled,        \* requests whose id never reached pending-join.json
  refused,        \* refusals received since the last clean slate, those aside that
                  \* a death kept from being noted
  left            \* a leave returned, Settled, and no manual join since

files   == <<identity, pending, old, budget>>
room    == <<status, grant, seats, requests, evictions>>
local   == <<after, held, note, seated, dead, crashes>>
history == <<unfiled, refused, left>>
vars    == <<files, room, pc, local, history>>

Procs    == Daemons \cup Callers
Requests == 1..MaxRequests
Refusals == {"denied", "expired"}
Statuses == {"none", "open", "approved", "forgotten"} \cup Refusals
Clean    == [attempts |-> 0, backing |-> FALSE, suspended |-> FALSE, outcome |-> "none"]

Init ==
  /\ identity \in Ids \cup {0}
  /\ pending = 0 /\ old = FALSE /\ budget = Clean
  /\ status = [r \in Requests |-> "none"] /\ grant = [r \in Requests |-> 0]
  /\ seats = {identity} \ {0} /\ requests = 0 /\ evictions = 0
  /\ pc = [p \in Procs |-> "off"]
  /\ after = [p \in Procs |-> "off"] /\ held = [p \in Procs |-> 0]
  /\ note = [p \in Procs |-> Clean]
  /\ seated = [d \in Daemons |-> FALSE] /\ dead = [d \in Daemons |-> 0]
  /\ crashes = 0
  /\ unfiled = {} /\ refused = {} /\ left = FALSE

At(p, l)   == pc[p] = l
Goto(p, l) == pc' = [pc EXCEPT ![p] = l]
Step(p, from, to) == At(p, from) /\ Goto(p, to)

(* A faulty variant of a definition stands before it, named for its fault;  *)
(* no action uses one.                                                     *)

(* may_request_join()                                                      *)
BackoffOnly == ~ budget.backing
MayRequest  == ~ budget.suspended /\ ~ budget.backing

-----------------------------------------------------------------------------
(* claim_pending(), from a call with `after` set: only do_join(), which is    *)
(* then done, tells TRUE, seated, from FALSE.  Its locals go as it returns.  *)

Claim(p, back) == Goto(p, "pend") /\ after' = [after EXCEPT ![p] = back]

Return(p, ok) == /\ Goto(p, IF ok /\ after[p] = "look" THEN "off" ELSE after[p])
                 /\ after' = [after EXCEPT ![p] = "off"]
                 /\ held' = [held EXCEPT ![p] = 0]
                 /\ note' = [note EXCEPT ![p] = Clean]

(* pending(): a request past its TTL is forgotten, by path, a call later.   *)
Pend(p) == /\ At(p, "pend")
           /\ \/ pending = 0 /\ Return(p, FALSE)
              \/ /\ pending # 0 /\ ~ old /\ Goto(p, "poll")
                 /\ held' = [held EXCEPT ![p] = pending]
                 /\ UNCHANGED <<after, note>>
              \/ pending # 0 /\ old /\ Goto(p, "retire") /\ UNCHANGED <<after, held, note>>
           /\ UNCHANGED <<files, room, seated, dead, crashes, history>>

Unpend == pending' = 0 /\ old' = FALSE /\ UNCHANGED <<identity, budget>>

Retire(p) == /\ \/ At(p, "retire") /\ Return(p, FALSE)
                \/ Step(p, "eretire", "may") /\ UNCHANGED <<after, held, note>>
             /\ Unpend
             /\ UNCHANGED <<room, seated, dead, crashes, history>>

(* No answer, "pending", or an id BCT has forgotten.                       *)
PollNothing(p) == /\ At(p, "poll")
                  /\ Return(p, FALSE)
                  /\ UNCHANGED <<files, room, seated, dead, crashes, history>>

PollApproved(p) == /\ Step(p, "poll", "keep")
                   /\ status[held[p]] = "approved"
                   /\ UNCHANGED <<files, room, local, history>>

PollRefused(p) == /\ Step(p, "poll", "drop")
                  /\ status[held[p]] \in Refusals
                  /\ note' = [note EXCEPT ![p].outcome = status[held[p]]]
                  /\ refused' = refused \cup {held[p]}
                  /\ UNCHANGED <<files, room, after, held, seated, dead, crashes,
                                 unfiled, left>>

Keep(p) == /\ Step(p, "keep", "unpend")
           /\ identity' = grant[held[p]]
           /\ UNCHANGED <<pending, old, budget, room, local, history>>

Forget(p) == /\ \/ Step(p, "unpend", "clear")
                \/ Step(p, "drop", "note")
             /\ Unpend
             /\ UNCHANGED <<room, local, history>>

Clear(p) == /\ At(p, "clear") /\ Return(p, TRUE)
            /\ budget' = Clean /\ refused' = {}
            /\ UNCHANGED <<identity, pending, old, room, seated, dead, crashes, unfiled, left>>

(* note_join_outcome(): read, count, save.                                 *)
Note(p) == /\ Step(p, "note", "noted")
           /\ note' = [note EXCEPT ![p] = [budget EXCEPT !.outcome = note[p].outcome]]
           /\ UNCHANGED <<files, room, after, held, seated, dead, crashes, history>>

NotedLate(p) == /\ At(p, "noted") /\ Return(p, FALSE)
                /\ LET n == note[p].attempts + 1
                   IN  budget' = [attempts |-> n, backing |-> TRUE,
                                  suspended |-> n > MaxAttempts,
                                  outcome |-> note[p].outcome]
                /\ UNCHANGED <<identity, pending, old, room, seated, dead, crashes, history>>

Noted(p) == /\ At(p, "noted") /\ Return(p, FALSE)
            /\ LET n == note[p].attempts + 1
               IN  budget' = [attempts |-> n, backing |-> TRUE,
                              suspended |-> n >= MaxAttempts,
                              outcome |-> note[p].outcome]
            /\ UNCHANGED <<identity, pending, old, room, seated, dead, crashes, history>>

ClaimStep(p) == \/ Pend(p) \/ Retire(p) \/ PollNothing(p) \/ PollApproved(p)
                \/ PollRefused(p) \/ Keep(p) \/ Forget(p) \/ Clear(p)
                \/ Note(p) \/ Noted(p)

-----------------------------------------------------------------------------
(* ensure_membership() and do_join()                                       *)

Unanswered(p) == IF p \in Daemons THEN "top" ELSE "off"

AsksAnyway(p) == /\ Step(p, "epend", "may")
                 /\ UNCHANGED <<files, room, local, history>>

(* A request is in flight: poll it, never re-ask.                          *)
EnsurePends(p) == /\ At(p, "epend")
                  /\ \/ pending = 0 /\ Goto(p, "may") /\ UNCHANGED after
                     \/ pending # 0 /\ old /\ Goto(p, "eretire") /\ UNCHANGED after
                     \/ /\ pending # 0 /\ ~ old
                        /\ Claim(p, IF p \in Daemons THEN "probe" ELSE "off")
                  /\ UNCHANGED <<files, room, held, note, seated, dead, crashes, history>>

EnsureMay(p) == /\ At(p, "may")
                /\ Goto(p, IF MayRequest THEN "ask" ELSE Unanswered(p))
                /\ UNCHANGED <<files, room, local, history>>

(* chat-join: no answer, a request and an answer, or a request whose        *)
(* answer is lost.                                                         *)
AskFails(p) == /\ Step(p, "ask", Unanswered(p))
               /\ UNCHANGED <<files, room, local, history>>

Ask(p) == /\ At(p, "ask")
          /\ requests < MaxRequests
          /\ requests' = requests + 1
          /\ status' = [status EXCEPT ![requests + 1] = "open"]
          /\ \/ /\ Goto(p, "file")
                /\ held' = [held EXCEPT ![p] = requests + 1]
                /\ UNCHANGED unfiled
             \/ /\ Goto(p, Unanswered(p))
                /\ unfiled' = unfiled \cup {requests + 1}
                /\ UNCHANGED held
          /\ UNCHANGED <<files, grant, seats, evictions, after, note, seated, dead,
                         crashes, refused, left>>

File(p) == /\ Step(p, "file", IF p \in Daemons THEN "probe" ELSE "wait")
           /\ pending' = held[p] /\ old' = FALSE
           /\ held' = [held EXCEPT ![p] = 0]
           /\ UNCHANGED <<identity, budget, room, after, note, seated, dead, crashes, history>>

JoinStep(p) == EnsurePends(p) \/ EnsureMay(p) \/ AskFails(p) \/ Ask(p) \/ File(p)

-----------------------------------------------------------------------------
(* do_daemon(), the part that seats it                                     *)

Start(d) == /\ Step(d, "off", "top")
            /\ ~ (budget.suspended /\ identity = 0)
            /\ seated' = [seated EXCEPT ![d] = identity # 0]
            /\ dead' = [dead EXCEPT ![d] = 0]
            /\ UNCHANGED <<files, room, after, held, note, crashes, history>>

Exit(d) == /\ Step(d, "top", "off")
           /\ budget.suspended /\ identity = 0
           /\ UNCHANGED <<files, room, local, history>>

NotLeft == ~ (budget.suspended /\ identity = 0)

Forced(d) == dead[d] # 0 /\ identity = dead[d]

(* Unseated: an identity is a reason to probe, unless the wire disproved it. *)
Ensure(d) == /\ At(d, "top") /\ NotLeft /\ ~ seated[d]
             /\ Goto(d, IF identity # 0 /\ ~ Forced(d) THEN "probe" ELSE "epend")
             /\ UNCHANGED <<files, room, local, history>>

ProbeGated(d) == /\ Step(d, "probe", "top")
                 /\ identity \in seats /\ identity # dead[d]
                 /\ seated' = [seated EXCEPT ![d] = TRUE]
                 /\ dead' = [dead EXCEPT ![d] = 0]
                 /\ UNCHANGED <<files, room, after, held, note, crashes, history>>

(* chat-list: only the wire seats it.                                      *)
ProbeOk(d) == /\ Step(d, "probe", "top")
              /\ identity \in seats
              /\ seated' = [seated EXCEPT ![d] = TRUE]
              /\ dead' = [dead EXCEPT ![d] = 0]
              /\ UNCHANGED <<files, room, after, held, note, crashes, history>>

(* NOT_INVITED to the probe, or to a seated daemon's tick or listen; the    *)
(* identity it blames is read after the reply.                             *)
NotInvited(d) == /\ \/ Step(d, "probe", "disproved") /\ identity # 0
                    \/ Step(d, "top", "disproved") /\ NotLeft /\ seated[d]
                 /\ identity \notin seats
                 /\ seated' = [seated EXCEPT ![d] = FALSE]
                 /\ UNCHANGED <<files, room, after, held, note, dead, crashes, history>>

Disprove(d) == /\ Step(d, "disproved", "top")
               /\ dead' = [dead EXCEPT ![d] = identity]
               /\ UNCHANGED <<files, room, after, held, note, seated, crashes, history>>

(* No identity yet, or no answer.                                          *)
ProbeNothing(d) == /\ Step(d, "probe", "top")
                   /\ UNCHANGED <<files, room, local, history>>

DaemonStep(d) == \/ Start(d) \/ Exit(d) \/ Ensure(d) \/ ProbeOk(d) \/ NotInvited(d)
                 \/ Disprove(d) \/ ProbeNothing(d)

-----------------------------------------------------------------------------
(* The verbs: authed(), `join`, do_leave()                                 *)

Run(c, v) == /\ At(c, "off")
             /\ \/ /\ v = "send"
                   /\ IF identity = 0 THEN Claim(c, "send") ELSE Goto(c, "send") /\ UNCHANGED after
                   /\ UNCHANGED <<budget, refused, left>>
                \/ /\ v = "join"
                   /\ Goto(c, "ask")
                   /\ budget' = Clean /\ refused' = {} /\ left' = FALSE
                   /\ UNCHANGED after
                \/ /\ v = "leave"
                   /\ Goto(c, "leave")
                   /\ UNCHANGED <<after, budget, refused, left>>
             /\ UNCHANGED <<identity, pending, old, room, held, note, seated, dead, crashes,
                            unfiled>>

(* NOT_INVITED with an identity file: one bounded re-join, and the retry     *)
(* changes nothing here.                                                   *)
Send(c) == /\ At(c, "send")
           /\ \/ Goto(c, "off")
              \/ /\ identity # 0 /\ identity \notin seats /\ MayRequest
                 /\ Goto(c, "epend")
           /\ UNCHANGED <<files, room, local, history>>

(* do_join() waits: poll, then look whether the request is still there.     *)
Wait(c) == /\ At(c, "wait")
           /\ \/ Claim(c, "look")
              \/ Goto(c, "off") /\ UNCHANGED after
           /\ UNCHANGED <<files, room, held, note, seated, dead, crashes, history>>

(* A request that has gone was answered to somebody else; join-state.json     *)
(* says what do_join() prints.                                             *)
Look(c) == /\ Step(c, "look", IF pending = 0 THEN "off" ELSE "wait")
           /\ UNCHANGED <<files, room, local, history>>

(* chat-leave, then the two files, then the suspension.                     *)
Leave(c) == /\ Step(c, "leave", "unseat")
            /\ \/ seats' = seats \ {identity}
               \/ UNCHANGED seats
            /\ UNCHANGED <<files, status, grant, requests, evictions, local, history>>

Unseat(c) == /\ Step(c, "unseat", "withdraw")
             /\ identity' = 0
             /\ UNCHANGED <<pending, old, budget, room, local, history>>

Withdraw(c) == /\ Step(c, "withdraw", "recall")
               /\ Unpend
               /\ UNCHANGED <<room, local, history>>

Recall(c) == /\ Step(c, "recall", "suspend")
             /\ note' = [note EXCEPT ![c] = budget]
             /\ UNCHANGED <<files, room, after, held, seated, dead, crashes, history>>

(* With a reply, or the leave to ask, in hand: what follows brings back an    *)
(* identity or a request, or saves a budget that is not suspended.           *)
Busy(p) == pc[p] \in {"ask", "file", "poll", "keep", "unpend", "clear",
                      "drop", "note", "noted"}

Settled == identity = 0 /\ pending = 0 /\ \A p \in Procs : ~ Busy(p)

Leaves(c) == /\ Step(c, "suspend", "off")
             /\ left' = (left \/ Settled)
             /\ note' = [note EXCEPT ![c] = Clean]
             /\ UNCHANGED <<identity, pending, old, room, after, held, seated, dead, crashes,
                            unfiled, refused>>

NotesOnly(c) == /\ Leaves(c)
                /\ budget' = [note[c] EXCEPT !.outcome = "left"]

Suspend(c) == /\ Leaves(c)
              /\ budget' = [note[c] EXCEPT !.suspended = TRUE, !.outcome = "left"]

CallerStep(c) == \/ \E v \in Verbs : Run(c, v)
                 \/ Send(c) \/ Wait(c) \/ Look(c)
                 \/ Leave(c) \/ Unseat(c) \/ Withdraw(c) \/ Recall(c) \/ Suspend(c)

-----------------------------------------------------------------------------
(* The person at the dock, BCT, time and death                             *)

Answer(r) == /\ status[r] = "open"
             /\ \/ \E i \in Ids : /\ status' = [status EXCEPT ![r] = "approved"]
                                  /\ grant' = [grant EXCEPT ![r] = i]
                                  /\ seats' = seats \cup {i}
                \/ \E s \in Refusals : /\ status' = [status EXCEPT ![r] = s]
                                       /\ UNCHANGED <<grant, seats>>
             /\ UNCHANGED <<files, requests, evictions, pc, local, history>>

Evict == /\ evictions < MaxEvictions
         /\ evictions' = evictions + 1
         /\ \/ \E i \in seats : seats' = seats \ {i} /\ UNCHANGED status
            \/ /\ seats' = {}
               /\ status' = [r \in Requests |-> IF status[r] = "none" THEN "none" ELSE "forgotten"]
         /\ UNCHANGED <<files, grant, requests, pc, local, history>>

Waiting(c) == \/ pc[c] \in {"wait", "look"}
              \/ /\ after[c] = "look"
                 /\ pc[c] \in {"pend", "poll", "drop", "note", "noted"}

(* BCT answers or expires a request, and do_join() gives up, within five    *)
(* minutes, half of PENDING_TTL.                                           *)
Lapse == /\ pending # 0 /\ ~ old
         /\ status[pending] # "open"
         /\ \A c \in Callers : ~ Waiting(c)
         /\ old' = TRUE
         /\ UNCHANGED <<identity, pending, budget, room, pc, local, history>>

BackoffOver == /\ budget.backing
               /\ budget' = [budget EXCEPT !.backing = FALSE]
               /\ UNCHANGED <<identity, pending, old, room, pc, local, history>>

Crash(p) == /\ ~ At(p, "off")
            /\ crashes < MaxCrashes
            /\ crashes' = crashes + 1
            /\ Goto(p, "off")
            /\ unfiled' = IF At(p, "file") THEN unfiled \cup {held[p]} ELSE unfiled
            /\ refused' = IF pc[p] \in {"drop", "note", "noted"}
                          THEN refused \ {held[p]} ELSE refused
            /\ after' = [after EXCEPT ![p] = "off"]
            /\ held' = [held EXCEPT ![p] = 0]
            /\ note' = [note EXCEPT ![p] = Clean]
            /\ UNCHANGED <<files, room, seated, dead, left>>

Next ==
  \/ \E p \in Procs : ClaimStep(p) \/ JoinStep(p) \/ Crash(p)
  \/ \E d \in Daemons : DaemonStep(d)
  \/ \E c \in Callers : CallerStep(c)
  \/ \E r \in Requests : Answer(r)
  \/ Evict \/ Lapse \/ BackoffOver

Spec == Init /\ [][Next]_vars

(* Hooks start a daemon, and a daemon that runs takes its steps; the tunnel  *)
(* lets a probe and a request through now and again, and backoffs end.      *)
FairSpec ==
  /\ Spec
  /\ WF_vars(BackoffOver)
  /\ \A d \in Daemons : /\ WF_vars(DaemonStep(d) \/ ClaimStep(d) \/ JoinStep(d))
                        /\ SF_vars(ProbeOk(d))
                        /\ SF_vars(Ask(d))
-----------------------------------------------------------------------------
(* A spent budget is a suspended one.                                      *)
JoinStates ==
  {b \in [attempts : Nat, backing : BOOLEAN, suspended : BOOLEAN,
          outcome : Refusals \cup {"none", "left"}] :
     b.attempts >= MaxAttempts => b.suspended}

TypeOK ==
  /\ identity \in Ids \cup {0}
  /\ pending \in Requests \cup {0} /\ old \in BOOLEAN
  /\ budget \in JoinStates
  /\ status \in [Requests -> Statuses] /\ grant \in [Requests -> Ids \cup {0}]
  /\ seats \subseteq Ids /\ requests \in 0..MaxRequests /\ evictions \in 0..MaxEvictions
  /\ pc \in [Procs -> {"off", "top", "epend", "eretire", "may", "ask", "file", "probe",
                       "disproved", "pend", "retire", "poll", "keep", "unpend", "clear",
                       "drop", "note", "noted", "send", "wait", "look",
                       "leave", "unseat", "withdraw", "recall", "suspend"}]
  /\ after \in [Procs -> {"off", "probe", "look", "send"}]
  /\ held \in [Procs -> Requests \cup {0}]
  /\ note \in [Procs -> JoinStates]
  /\ seated \in [Daemons -> BOOLEAN] /\ dead \in [Daemons -> Ids \cup {0}]
  /\ crashes \in 0..MaxCrashes
  /\ unfiled \subseteq Requests /\ refused \subseteq Requests /\ left \in BOOLEAN

(* docs/SPEC.md 8: "a second chat-join can never fire while one is already  *)
(* outstanding".  No two requests are open in the dock, leaving out those   *)
(* whose id a crash or a lost answer kept from this host.                   *)
OneRequest == Cardinality({r \in Requests : status[r] = "open"} \ unfiled) <= 1

(* The budget: JOIN_MAX_ATTEMPTS refusals since the last approval or manual  *)
(* join and nobody asks again, but for those a death kept from being noted. *)
BudgetKept == Cardinality(refused) <= MaxAttempts

(* membership.py:173, "Leaving must STAY left ... even a daemon that outlives  *)
(* them finds may_request_join() False and never re-requests": once a leave has *)
(* returned, no daemon or verb, wherever in its tick or its call it was and    *)
(* whatever it read before, brings back an identity until a manual join.  A    *)
(* process the leave overtook while Busy may, and such leaves are left out.   *)
LeaveStays == left => identity = 0

(* A daemon whose identity has a seat comes to hear on it, also when the     *)
(* reseat hands back the very id the wire disproved; unless the seat goes,  *)
(* the budget is spent, or the bounded requests are.                        *)
Rejoins ==
  \A d \in Daemons :
    identity \in seats ~> \/ seated[d] /\ identity \in seats
                         \/ identity \notin seats
                         \/ budget.suspended \/ requests = MaxRequests
=============================================================================

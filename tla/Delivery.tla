------------------------------ MODULE Delivery ------------------------------
(***************************************************************************)
(* The two delivery hooks and the chain cap.  A Stop hook that finds a      *)
(* mention blocks the turn, so claude goes on without its user; chain.json  *)
(* counts such turns, one count for all the sessions of the host.  A hook   *)
(* reads the count, may hold for STANDBY_HOLD, and only then writes it.     *)
(* How a mention moves between files is Inbox's, how a session is marked    *)
(* Presence's; here inbox/ is a number of mentions.                         *)
(***************************************************************************)
EXTENDS Naturals, FiniteSets, Digest

CONSTANTS
  Sessions,
  Env,          \* of each session: BCT_CHAT_MODE and BCT_CHAT_STANDBY
  ChainCap,     \* CHAIN_CAP
  MaxQueue,     \* bound: mentions on disk
  MaxFaults     \* bound: hooks killed, saves that raise

Environments == [mode : {"", "work", "standby", "unknown"}, legacy : {"", "off", "on"}]

ASSUME DeliveryAssumption ==
  /\ Env \in [Sessions -> Environments]
  /\ ChainCap \in Nat \ {0} /\ MaxQueue \in Nat /\ MaxFaults \in Nat

VARIABLES
  chain,        \* n of chain.json, 0 when there is no file
  inbox,        \* mentions in inbox/
  stuck,        \* mentions in processing/ whose hook has ended
  driver,       \* who drives each session's turn: "none" while it is idle
  pc,           \* each session's hook
  n,            \* the count a Stop hook has read
  faults,
  (* history, read by properties only *)
  run,          \* automatic turns of a session since its user's last prompt, counted
                \* as far as one beyond ChainCap
  mingled       \* sessions whose chain another has written since that prompt

hooks == <<driver, pc, n>>
vars  == <<chain, inbox, stuck, hooks, faults, run, mingled>>

Init == /\ chain \in 0..ChainCap /\ inbox = 0 /\ stuck = 0
        /\ driver = [s \in Sessions |-> "none"]
        /\ pc = [s \in Sessions |-> "off"]
        /\ n = [s \in Sessions |-> 0]
        /\ faults = 0
        /\ run = [s \in Sessions |-> 0] /\ mingled = {}

At(s, l)   == pc[s] = l
Goto(s, l) == pc' = [pc EXCEPT ![s] = l]
Step(s, from, to) == At(s, from) /\ Goto(s, to)
Drives(s, d) == driver' = [driver EXCEPT ![s] = d]

Fault == faults < MaxFaults /\ faults' = faults + 1

(* save(CHAIN, c), or forget(CHAIN) with 0.                                *)
Write(s, c) == chain' = c /\ mingled' = mingled \cup (Sessions \ {s})

(* chat_mode(): a recognised BCT_CHAT_MODE wins, else the legacy variable.  *)
Standby(s) == \/ Env[s].mode = "standby"
              \/ Env[s].mode # "work" /\ Env[s].legacy = "on"

(* A faulty variant of a definition stands before it, named for its fault;  *)
(* no action uses one.                                                     *)

-----------------------------------------------------------------------------
(* prompt_submit_hook(): the user's prompt ends the chain, and takes a       *)
(* mention along as context.                                               *)

Prompt(s) == /\ driver[s] = "none" /\ Step(s, "off", "forget")
             /\ Drives(s, "user")
             /\ run' = [run EXCEPT ![s] = 0] /\ mingled' = mingled \ {s}
             /\ UNCHANGED <<chain, inbox, stuck, n, faults>>

Forget(s) == /\ Step(s, "forget", "rides")
             /\ Write(s, 0)
             /\ UNCHANGED <<inbox, stuck, driver, n, faults, run>>

(* inbox_claim() also comes back empty when every name of its listing is     *)
(* gone, whatever has landed since.                                        *)
Rides(s) == /\ At(s, "rides")
            /\ \/ Goto(s, "off") /\ UNCHANGED inbox
               \/ inbox > 0 /\ Goto(s, "shows") /\ inbox' = inbox - 1
            /\ UNCHANGED <<chain, stuck, driver, n, faults, run, mingled>>

Shows(s) == /\ Step(s, "shows", "off")
            /\ UNCHANGED <<chain, inbox, stuck, driver, n, faults, run, mingled>>

-----------------------------------------------------------------------------
(* stop_hook()                                                             *)

CapPassed(c) == c > ChainCap

Capped(c) == c >= ChainCap

(* chain_count(active): a turn the user drove is no chain, whatever the file. *)
Count(s) == /\ At(s, "off") /\ driver[s] # "none"
            /\ LET c == IF driver[s] = "user" THEN 0 ELSE chain
               IN  IF Capped(c)
                   THEN Drives(s, "none") /\ UNCHANGED <<pc, n>>
                   ELSE Goto(s, "claim") /\ n' = [n EXCEPT ![s] = c] /\ UNCHANGED driver
            /\ UNCHANGED <<chain, inbox, stuck, faults, run, mingled>>

Take(s) == /\ pc[s] \in {"claim", "hold"} /\ Goto(s, "save")
           /\ inbox > 0 /\ inbox' = inbox - 1
           /\ UNCHANGED <<chain, stuck, driver, n, faults, run, mingled>>

Miss(s) == /\ Step(s, "claim", IF Standby(s) THEN "hold" ELSE "none")
           /\ UNCHANGED <<chain, inbox, stuck, driver, n, faults, run, mingled>>

(* A mention that lands after the last look stays for the next hook.        *)
HoldEnds(s) == /\ Step(s, "hold", "none")
               /\ UNCHANGED <<chain, inbox, stuck, driver, n, faults, run, mingled>>

Quits(s) == /\ Step(s, "none", "off")
            /\ IF driver[s] = "user" THEN Write(s, 0) ELSE UNCHANGED <<chain, mingled>>
            /\ Drives(s, "none")
            /\ UNCHANGED <<inbox, stuck, n, faults, run>>

SavesSame(s) == /\ Step(s, "save", "block")
                /\ Write(s, n[s])
                /\ UNCHANGED <<inbox, stuck, driver, n, faults, run>>

Save(s) == /\ Step(s, "save", "block")
           /\ Write(s, n[s] + 1)
           /\ UNCHANGED <<inbox, stuck, driver, n, faults, run>>

(* {"decision": "block"}: the turn goes on, and its own Stop is "active".   *)
Block(s) == /\ Step(s, "block", "off")
            /\ Drives(s, "chain")
            /\ run' = [run EXCEPT ![s] = IF @ > ChainCap THEN @ ELSE @ + 1]
            /\ UNCHANGED <<chain, inbox, stuck, n, faults, mingled>>

-----------------------------------------------------------------------------
(* Failures, and the rest of the host.  A kill takes the hook's shell along. *)

Claimed(s) == pc[s] \in {"shows", "save", "block"}

(* A Stop hook that ends without an answer lets the turn end; the prompt     *)
(* goes ahead whatever its hook did.                                       *)
Ends(s) == /\ Goto(s, "off")
           /\ stuck' = stuck + (IF Claimed(s) THEN 1 ELSE 0)
           /\ Drives(s, IF pc[s] \in {"forget", "rides", "shows"} THEN "user" ELSE "none")
           /\ UNCHANGED <<chain, inbox, n, run, mingled>>

KillHook(s)  == ~ At(s, "off") /\ Fault /\ Ends(s)
SaveFails(s) == At(s, "save") /\ Fault /\ Ends(s)

(* The user stops claude.                                                  *)
Interrupt(s) == /\ At(s, "off") /\ driver[s] # "none"
                /\ Drives(s, "none")
                /\ UNCHANGED <<chain, inbox, stuck, pc, n, faults, run, mingled>>

(* The daemon lands a mention.                                             *)
Heard == /\ inbox + stuck < MaxQueue /\ inbox' = inbox + 1
         /\ UNCHANGED <<chain, stuck, hooks, faults, run, mingled>>

(* recover_orphans(), in a hook or in the daemon.                          *)
Sweep == /\ stuck > 0 /\ stuck' = stuck - 1 /\ inbox' = inbox + 1
         /\ UNCHANGED <<chain, hooks, faults, run, mingled>>

StopStep(s) == \/ Count(s) \/ Take(s) \/ Miss(s) \/ HoldEnds(s) \/ Quits(s)
               \/ Save(s) \/ Block(s)

PromptStep(s) == Forget(s) \/ Rides(s) \/ Shows(s)

Next == \/ \E s \in Sessions : \/ Prompt(s) \/ PromptStep(s) \/ StopStep(s)
                               \/ KillHook(s) \/ SaveFails(s) \/ Interrupt(s)
        \/ Heard \/ Sweep

Spec == Init /\ [][Next]_vars
-----------------------------------------------------------------------------
Labels == {"off", "forget", "rides", "shows", "claim", "hold", "none", "save", "block"}

TypeOK ==
  /\ chain \in 0..ChainCap /\ inbox \in Nat /\ stuck \in Nat
  /\ driver \in [Sessions -> {"none", "user", "chain"}]
  /\ pc \in [Sessions -> Labels]
  /\ n \in [Sessions -> 0..(ChainCap - 1)]
  /\ faults \in 0..MaxFaults
  /\ run \in [Sessions -> 0..(ChainCap + 1)] /\ mingled \subseteq Sessions

(* docs/SPEC.md 5, "at CHAIN_CAP the hook stops delivering": no session runs *)
(* more than CHAIN_CAP turns without its user, through claims, holds, kills *)
(* and failed saves, for as long as no other session writes the count.      *)
CapKept == \A s \in Sessions : s \notin mingled => run[s] <= ChainCap

Prints(s) == pc[s] \in {"shows", "block"}

(* docs/SPEC.md 9: a turn that a hook goes on with, or adds to, whatever the *)
(* room sent, is told how to answer: the instruction survives both caps.    *)
HintSurvives == \A s \in Sessions : Prints(s) => HintLast

(* A hook never keeps a line or a count of dropped mentions from claude      *)
(* without saying so.                                                      *)
NothingSilent == \A s \in Sessions : Prints(s) => SaysWhatIsOut

(* How many automatic turns the sessions may yet have between them, were no   *)
(* user to prompt again.  Turns[k] of them can come of one session whose     *)
(* count is k below the cap: every other may read what that one writes.  A    *)
(* user's turn that ends, or whose prompt is still to be noted, sets the file *)
(* back to 0 for all.                                                      *)
Turns[k \in 0..(ChainCap + 2)] ==
  IF k = 0 THEN 0 ELSE Cardinality(Sessions) * (Turns[k - 1] + 1)

Below(s) == IF At(s, "forget") THEN ChainCap + 2
            ELSE IF driver[s] = "user" /\ ~ At(s, "block") THEN ChainCap + 1
            ELSE ChainCap - (IF pc[s] \in {"off", "block"} THEN chain ELSE n[s])

Ahead(s) == IF driver[s] = "none" THEN 0
            ELSE Turns[Below(s)] + (IF At(s, "block") THEN 1 ELSE 0)

TurnsLeft == Cardinality(UNION {{s} \X (1..Ahead(s)) : s \in Sessions})

(* No step of any hook, however stale the count it read, and no failure gives *)
(* the sessions more turns than they had left, and every automatic turn is    *)
(* taken from them; only a user's prompt does.                              *)
TurnsRunOut ==
  [][(\A s \in Sessions : ~ Prompt(s)) =>
       /\ TurnsLeft' <= TurnsLeft
       /\ (\E s \in Sessions : Block(s)) => TurnsLeft' < TurnsLeft]_vars

(* docs/SPEC.md 5, remotes that mention each other "must not bill turns       *)
(* forever with no human in the loop": however many sessions share the       *)
(* count and overwrite it from stale readings, once no user prompts any of   *)
(* them, automatic turns come to an end.                                   *)
HumanlessStops ==
  <>[][\A s \in Sessions : ~ Prompt(s)]_vars => <>[][\A s \in Sessions : ~ Block(s)]_vars
=============================================================================

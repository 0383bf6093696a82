-------------------------------- MODULE Wire --------------------------------
(***************************************************************************)
(* One call to the bridge at a time: sock_available(), a connect and no     *)
(* more, and rpc(), a request and the first line that is an answer, within  *)
(* one deadline.  Times are whole seconds; the bridge, external, accepts,   *)
(* dribbles, repeats itself, falls silent or hangs up as it likes.  Steps   *)
(* are taken between those of the process that calls: see Pass.             *)
(***************************************************************************)
EXTENDS Integers, Sequences

CONSTANTS
  ConnectCap,     \* the most rpc() grants a connect
  Beats,          \* bound: what a wait lasts, if not all it may
  MaxFrames       \* bound: lines the bridge sends in a call

VARIABLES
  phase,          \* "idle" between calls, "done" when one returns
  verb,           \* "sock" or "rpc"
  limit,          \* the timeout of the call
  spent,          \* seconds of it gone
  buf,            \* the complete lines not yet looked at
  came,           \* every complete line of the call, in order
  result

wire == <<phase, verb, limit, spent, buf, came, result>>

(* A complete line is a keepalive, JSON or neither.                         *)
Frames == {"blank", "json", "junk"}
(* One read brings any number of them.                                      *)
Chunks == UNION {[1..n -> Frames] : n \in 0..MaxFrames}

Init == /\ phase = "idle" /\ verb = "sock" /\ limit = 0 /\ spent = 0
        /\ buf = <<>> /\ came = <<>> /\ result = "none"

Goto(from, to) == phase = from /\ phase' = to
Ends(from, as) == Goto(from, "done") /\ result' = as

Lesser(a, b) == IF a < b THEN a ELSE b

(* What settimeout(left) lets a socket call last; its last beat may be the   *)
(* time-out itself.                                                        *)
Left     == limit - spent
Lasts(t) == \E d \in (Beats \cap 0..t) \cup {t} : spent' = spent + d

(* The deadline is set as the call begins.                                 *)
Dial(v, t) == /\ Goto("idle", "connect")
              /\ verb' = v /\ limit' = t
              /\ UNCHANGED <<spent, buf, came, result>>

Connects == /\ Lasts(Lesser(limit, ConnectCap))
            /\ IF verb = "sock" THEN Ends("connect", "up")
                                ELSE Goto("connect", "send") /\ UNCHANGED result
            /\ UNCHANGED <<verb, limit, buf, came>>

ConnectFails == /\ Ends("connect", "failed")
                /\ Lasts(Lesser(limit, ConnectCap))
                /\ UNCHANGED <<verb, limit, buf, came>>

(* A faulty variant of a definition stands before it, named for its fault;  *)
(* no action uses one.                                                     *)
ClockFirst == /\ Left <= 0
              /\ \E from \in {"send", "read"} : Ends(from, "failed")
              /\ UNCHANGED <<verb, limit, spent, buf, came>>

(* The deadline has passed before the write, or before a read.              *)
TimeUp == /\ Left <= 0 /\ buf = <<>>
          /\ \E from \in {"send", "read"} : Ends(from, "failed")
          /\ UNCHANGED <<verb, limit, spent, buf, came>>

Sends == /\ Left > 0
         /\ Goto("send", "read")
         /\ Lasts(Left)
         /\ UNCHANGED <<verb, limit, buf, came, result>>

SendFails == /\ Left > 0
             /\ Ends("send", "failed")
             /\ Lasts(Left)
             /\ UNCHANGED <<verb, limit, buf, came>>

(* Every complete line is looked at before the clock is; the first that is   *)
(* no keepalive answers.                                                   *)
Keepalive == /\ phase = "read" /\ buf # <<>> /\ Head(buf) = "blank"
             /\ buf' = Tail(buf)
             /\ UNCHANGED <<phase, verb, limit, spent, came, result>>

Answer == /\ buf # <<>> /\ Head(buf) # "blank"
          /\ Ends("read", IF Head(buf) = "json" THEN "reply" ELSE "malformed")
          /\ UNCHANGED <<verb, limit, spent, buf, came>>

EachReadAnew == limit

RecvLasts == Left

(* A dribble that completes no line is a chunk without one.                 *)
Recv == /\ phase = "read" /\ buf = <<>> /\ Left > 0
        /\ Lasts(RecvLasts)
        /\ \E c \in Chunks : /\ Len(came) + Len(c) <= MaxFrames
                             /\ buf' = c /\ came' = came \o c
        /\ UNCHANGED <<phase, verb, limit, result>>

(* Nothing in time, closed without a reply, or an OSError.                  *)
RecvFails == /\ buf = <<>> /\ Left > 0
             /\ Ends("read", "failed")
             /\ Lasts(RecvLasts)
             /\ UNCHANGED <<verb, limit, buf, came>>

Step == \/ Connects \/ ConnectFails \/ TimeUp \/ Sends \/ SendFails
        \/ Keepalive \/ Answer \/ Recv \/ RecvFails

(* The socket is closed and the caller has the result.                      *)
Return == /\ Goto("done", "idle")
          /\ verb' = "sock" /\ limit' = 0 /\ spent' = 0
          /\ buf' = <<>> /\ came' = <<>> /\ result' = "none"
-----------------------------------------------------------------------------
WireTypeOK ==
  /\ phase \in {"idle", "connect", "send", "read", "done"}
  /\ verb \in {"sock", "rpc"} /\ limit \in Nat /\ spent \in 0..limit
  /\ buf \in Seq(Frames) /\ came \in Seq(Frames)
  /\ result \in {"none", "up", "reply", "malformed", "failed"}

(* The answer among the lines of a call, if any: a reference for rpc()'s loop. *)
Said(lines) ==
  LET real == {i \in DOMAIN lines : lines[i] # "blank"}
  IN  IF real = {} THEN "none" ELSE lines[CHOOSE i \in real : \A j \in real : i <= j]

(* rpc()'s contract, over keepalives, several lines in one read, and a       *)
(* deadline that passes while lines wait: the first line that is no keepalive *)
(* answers, and no answer that reached this host is ever given up as an error. *)
NoAnswerLost ==
  phase = "done" /\ verb = "rpc" =>
    result = CASE Said(came) = "json" -> "reply"
               [] Said(came) = "junk" -> "malformed"
               [] OTHER               -> "failed"
=============================================================================

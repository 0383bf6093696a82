----------------------------- MODULE Heartbeat -----------------------------
(***************************************************************************)
(* One pass of the daemon against the clock.  The mtime of heartbeat.pid is *)
(* the only sign of life heartbeat_alive() reads; a pass refreshes it once  *)
(* at the top and a backoff once per chunk, and in between come calls that  *)
(* may each take their whole timeout.  Times are whole seconds; what runs   *)
(* on the local disk takes none.  What the calls answer is any answer.      *)
(***************************************************************************)
EXTENDS Integers

CONSTANTS
  PidfileStale,    \* PIDFILE_STALE
  SockTimeout,     \* sock_available()'s connect
  RpcTimeout,      \* rpc()'s default deadline
  ListenTimeout,   \* the deadline of chat-listen, --listen-timeout
  JoinPoll,        \* JOIN_POLL
  BackoffMin, BackoffMax

ASSUME HeartbeatAssumption ==
  /\ PidfileStale \in Nat \ {0, 1} /\ JoinPoll \in Nat
  /\ SockTimeout \in Nat /\ RpcTimeout \in Nat /\ ListenTimeout \in Nat \ {0}
  /\ BackoffMin \in Nat \ {0} /\ BackoffMax \in Nat /\ BackoffMin <= BackoffMax
  /\ 2 * SockTimeout < PidfileStale

VARIABLES
  pc,
  age,             \* seconds since the last os.utime(PIDFILE)
  seated,
  backoff,         \* the next wait
  left,            \* what is left of the current wait
  (* history, read by properties only *)
  silent,          \* passes that ended in backoff_wait() since the last good listen
  tunnel           \* "up" if it was since the last os.utime(PIDFILE)

vars == <<pc, age, seated, backoff, left, silent, tunnel>>

(* A faulty variant of a definition stands before it, named for its fault;  *)
(* no action uses one.                                                     *)
OneSleep == BackoffMax

Chunk == PidfileStale \div 2

Lesser(a, b) == IF a < b THEN a ELSE b

(* The pidfile is written and the first pass begins.                       *)
Init == /\ pc = "top" /\ age = 0 /\ seated \in BOOLEAN
        /\ backoff = BackoffMin /\ left = 0 /\ silent = 0
        /\ tunnel = "down"

Goto(from, to) == pc = from /\ pc' = to

(* A call that took d seconds.                                             *)
Took(d) == age' = age + d /\ UNCHANGED tunnel

Utime == age' = 0 /\ tunnel' = "down"

(* os.utime(PIDFILE), past the three exits; a failed put goes to the wait.  *)
Touch == /\ Goto("top", "sock")
         /\ Utime
         /\ UNCHANGED <<seated, backoff, left, silent>>

BeginWait(from) == /\ Goto(from, "wait")
                   /\ left' = backoff
                   /\ silent' = Lesser(silent + 1, 4)
                   /\ UNCHANGED <<seated, backoff>>

PassFails == BeginWait("sock") /\ UNCHANGED <<age, tunnel>>

SockDown(d) == BeginWait("sock") /\ Took(d)

SockUp(d) == /\ Goto("sock", IF seated THEN "tick" ELSE "join")
             /\ age' = age + d
             /\ tunnel' = "up"
             /\ UNCHANGED <<seated, backoff, left, silent>>

(* ensure_membership(): at most one rpc; then the probe, a wait for          *)
(* JOIN_POLL, or the exception of a refused join.                           *)
Join(d) == /\ \E to \in {"probe", "poll"} : Goto("join", to)
           /\ Took(d)
           /\ UNCHANGED <<seated, backoff, left, silent>>

JoinRaises(d) == BeginWait("join") /\ Took(d)

(* The chat-list that seats: a presence tick is not due right after it.    *)
ProbeSeats(d) == /\ Goto("probe", "listen")
                 /\ Took(d)
                 /\ seated' = TRUE
                 /\ UNCHANGED <<backoff, left, silent>>

ProbeFails(d) == /\ Goto("probe", "poll")
                 /\ Took(d)
                 /\ UNCHANGED <<seated, backoff, left, silent>>

(* A reply that is no object: r.get() raises.                               *)
ProbeRaises(d) == BeginWait("probe") /\ Took(d)

Poll == /\ Goto("poll", "top")
        /\ Took(JoinPoll)
        /\ UNCHANGED <<seated, backoff, left, silent>>

NotDue == /\ Goto("tick", "listen")
          /\ UNCHANGED <<age, seated, backoff, left, silent, tunnel>>

(* A presence chat-list that fails for any reason but NOT_INVITED is ignored. *)
Tick(d) == /\ Goto("tick", "listen")
           /\ Took(d)
           /\ UNCHANGED <<seated, backoff, left, silent>>

TickUnseats(d) == /\ Goto("tick", "top")
                  /\ Took(d)
                  /\ seated' = FALSE
                  /\ UNCHANGED <<backoff, left, silent>>

TickRaises(d) == BeginWait("tick") /\ Took(d)

(* The re-arm floor is at most a second and a tenth of the window.         *)
Floor == IF ListenTimeout >= 10 THEN 1 ELSE 0

NoReset(d) == /\ Goto("listen", "top")
              /\ Took(IF d < Floor THEN Floor ELSE d)
              /\ silent' = 0
              /\ UNCHANGED <<seated, backoff, left>>

ListenAnswers(d) == /\ Goto("listen", "top")
                    /\ Took(IF d < Floor THEN Floor ELSE d)
                    /\ backoff' = BackoffMin
                    /\ silent' = 0
                    /\ UNCHANGED <<seated, left>>

(* A mention lands at once and the next pass begins without the floor.     *)
ListenHears(d) == /\ Goto("listen", "top")
                  /\ Took(d)
                  /\ backoff' = BackoffMin
                  /\ silent' = 0
                  /\ UNCHANGED <<seated, left>>

(* ... or the put raises, after the backoff was reset.                      *)
LandFails(d) == /\ Goto("listen", "wait")
                /\ Took(d)
                /\ backoff' = BackoffMin /\ left' = BackoffMin
                /\ silent' = 1
                /\ UNCHANGED seated

ListenUnseats(d) == /\ Goto("listen", "top")
                    /\ Took(d)
                    /\ seated' = FALSE
                    /\ UNCHANGED <<backoff, left, silent>>

(* No answer, an error, or a reply that is no object.                       *)
ListenFails(d) == BeginWait("listen") /\ Took(d)

(* backoff_wait(): sleep a chunk, touch, and again until none is left or   *)
(* the last session is gone; then double.                                  *)
Sleep == /\ Goto("wait", "touch")
         /\ Took(Lesser(Chunk, left))
         /\ left' = left - Chunk
         /\ UNCHANGED <<seated, backoff, silent>>

NextChunk == /\ left > 0
             /\ Goto("touch", "wait")
             /\ Utime
             /\ UNCHANGED <<seated, backoff, left, silent>>

Uncapped == backoff' = 2 * backoff

Widen == backoff' = Lesser(2 * backoff, BackoffMax)

EndWait == /\ Goto("touch", "top")
           /\ Utime
           /\ left' = 0
           /\ Widen
           /\ UNCHANGED <<seated, silent>>

Next == \/ Touch \/ PassFails \/ Poll \/ NotDue \/ Sleep \/ NextChunk \/ EndWait
        \/ \E d \in 0..SockTimeout : SockDown(d) \/ SockUp(d)
        \/ \E d \in 0..RpcTimeout :
             \/ Join(d) \/ JoinRaises(d) \/ ProbeSeats(d) \/ ProbeFails(d)
             \/ ProbeRaises(d) \/ Tick(d) \/ TickUnseats(d) \/ TickRaises(d)
        \/ \E d \in 0..ListenTimeout :
             \/ ListenAnswers(d) \/ ListenHears(d) \/ LandFails(d)
             \/ ListenUnseats(d) \/ ListenFails(d)

Spec == Init /\ [][Next]_vars
-----------------------------------------------------------------------------
TypeOK == /\ pc \in {"top", "sock", "join", "probe", "poll", "tick", "listen",
                     "wait", "touch"}
          /\ age \in Nat
          /\ seated \in BOOLEAN
          /\ backoff \in BackoffMin..BackoffMax
          /\ left \in Int
          /\ silent \in 0..4 /\ tunnel \in {"up", "down"}

(* docs/SPEC.md 7: the backoff is chunked because a single long sleep would  *)
(* make "a perfectly healthy daemon - one waiting out a dead tunnel" read as  *)
(* dead to heartbeat_alive().  Unless the tunnel was up since the pidfile was *)
(* last touched, it is younger than PIDFILE_STALE, however wide the backoff. *)
DeadTunnelReadsAlive == tunnel = "down" => age < PidfileStale

(* With calls in between it may be older, but a living daemon never leaves it *)
(* untouched for longer than one pass's calls, each at its deadline, and the  *)
(* first chunk of the backoff or the poll of an unseated one: 108 s as        *)
(* shipped, whatever the bridge does.                                      *)
SilenceBounded ==
  \/ age <= SockTimeout + 2 * RpcTimeout + ListenTimeout + PidfileStale \div 2
  \/ age <= SockTimeout + 2 * RpcTimeout + JoinPoll

(* Waits widen 60, 120, 240, 300 and stay there, and only a listen that the *)
(* bridge answered starts them over: a backoff is never wider or narrower   *)
(* than the failed passes since then account for.                           *)
BackoffCounts ==
  LET waited == IF pc \in {"wait", "touch"} THEN silent - 1 ELSE silent
  IN  silent < 4 => backoff = Lesser(BackoffMin * 2^waited, BackoffMax)
=============================================================================

-------------------------------- MODULE Pass --------------------------------
(***************************************************************************)
(* A pass of the daemon with its calls in full: where Heartbeat says that a *)
(* call took some seconds, here the steps of Wire are taken, and what the   *)
(* pass does next depends on what they brought.                             *)
(***************************************************************************)
EXTENDS Heartbeat, Sequences

CONSTANTS ConnectCap, Beats, MaxFrames

ASSUME PassAssumption ==
  ConnectCap \in Nat /\ Beats \subseteq Nat /\ MaxFrames \in Nat

VARIABLES phase, verb, limit, spent, buf, came, result

W == INSTANCE Wire

wire == <<phase, verb, limit, spent, buf, came, result>>
pass == <<vars, wire>>

PassInit == Init /\ W!Init

(* No call in between, also when ensure_membership() makes none.            *)
Local == /\ phase = "idle"
         /\ \/ Touch \/ PassFails \/ Poll \/ NotDue \/ Sleep \/ NextChunk \/ EndWait
            \/ Join(0) \/ JoinRaises(0)
         /\ UNCHANGED wire

Calls == /\ \/ pc = "sock" /\ W!Dial("sock", SockTimeout)
            \/ pc \in {"join", "probe", "tick"} /\ W!Dial("rpc", RpcTimeout)
            \/ pc = "listen" /\ W!Dial("rpc", ListenTimeout)
         /\ UNCHANGED vars

Talks == W!Step /\ UNCHANGED vars

Replied == result = "reply"

(* A reply may say no, NOT_INVITED among others, or be no object at all;     *)
(* what is no reply says no.                                               *)
Returns == /\ W!Return
           /\ \/ IF result = "up" THEN SockUp(spent) ELSE SockDown(spent)
              \/ Join(spent) \/ JoinRaises(spent)
              \/ Replied /\ ProbeSeats(spent)
              \/ ProbeFails(spent) \/ Tick(spent)
              \/ Replied /\ (ProbeRaises(spent) \/ TickUnseats(spent) \/ TickRaises(spent))
              \/ Replied /\ (\/ ListenAnswers(spent) \/ ListenHears(spent)
                             \/ LandFails(spent) \/ ListenUnseats(spent))
              \/ ListenFails(spent)

PassNext == Local \/ Calls \/ Talks \/ Returns

PassSpec == PassInit /\ [][PassNext]_pass
-----------------------------------------------------------------------------
TypeOKInFull == TypeOK /\ W!WireTypeOK

NoAnswerLost == W!NoAnswerLost

(* wire.py:55-56, the deadline is one "a bridge dribbling bytes could keep   *)
(* resetting forever" were it set per read: whatever the bridge sends and    *)
(* when, each call of a pass takes what Heartbeat allows it, and the pass is *)
(* one of Heartbeat's.                                                     *)
PassesInTime == Spec
=============================================================================

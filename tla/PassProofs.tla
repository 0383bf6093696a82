----------------------------- MODULE PassProofs -----------------------------
(* A pass with its calls in full is a pass of Heartbeat, for all values of    *)
(* the timeouts and whatever the bridge sends: no call outlasts its deadline. *)
EXTENDS Pass, HeartbeatProofs

(* A call has used no more than its limit, which is the one its place in the *)
(* pass gives it.                                                          *)
InCall ==
  \/ pc = "sock" /\ limit = SockTimeout
  \/ pc \in {"join", "probe", "tick"} /\ limit = RpcTimeout
  \/ pc = "listen" /\ limit = ListenTimeout

InTime ==
  /\ limit \in Nat /\ spent \in 0..limit
  /\ phase \in {"idle", "connect"} => spent = 0
  /\ phase # "idle" => InCall

LEMMA Waits ==
  ASSUME InTime, NEW t \in 0..(limit - spent), W!Lasts(t)
  PROVE  spent' \in 0..limit
<1>1. PICK d \in (Beats \cap 0..t) \cup {t} : spent' = spent + d
  BY DEF W!Lasts
<1>2. d \in 0..t
  BY PassAssumption
<1> QED
  BY <1>1, <1>2 DEF InTime

LEMMA InitInTime == PassInit => InTime
BY DEF PassInit, W!Init, InTime, Init, InCall

(* A step of the call.                                                     *)
LEMMA TalkInTime == ASSUME InTime, Talks PROVE InTime'
<1> USE DEF W!Goto, W!Ends
<1>1. limit' = limit /\ pc' = pc /\ phase # "idle" /\ phase' \notin {"idle", "connect"}
  BY DEF Talks, vars, W!Step, W!Connects, W!ConnectFails, W!TimeUp, W!Sends, W!SendFails,
     W!Keepalive, W!Answer, W!Recv, W!RecvFails
<1>2. spent' \in 0..limit
  <2>1. CASE W!Connects \/ W!ConnectFails
    <3>1. W!Lesser(limit, ConnectCap) \in 0..(limit - spent)
      BY <2>1, PassAssumption DEF InTime, W!Connects, W!ConnectFails, W!Lesser
    <3> QED
      BY <2>1, <3>1, Waits DEF W!Connects, W!ConnectFails
  <2>2. CASE W!Sends \/ W!SendFails \/ W!Recv \/ W!RecvFails
    <3>1. W!Left \in 0..(limit - spent)
      BY DEF InTime, W!Left
    <3>2. W!Lasts(W!Left)
      BY <2>2 DEF W!Sends, W!SendFails, W!Recv, W!RecvFails, W!RecvLasts
    <3> QED
      BY <3>1, <3>2, Waits
  <2>3. CASE W!TimeUp \/ W!Keepalive \/ W!Answer
    BY <2>3 DEF InTime, W!TimeUp, W!Keepalive, W!Answer
  <2> QED
    BY <2>1, <2>2, <2>3 DEF Talks, W!Step
<1> QED
  BY <1>1, <1>2 DEF InTime, InCall

LEMMA StepInTime == InTime /\ [PassNext]_pass => InTime'
<1> SUFFICES ASSUME InTime, [PassNext]_pass PROVE InTime'
  OBVIOUS
<1>1. CASE Local
  BY <1>1 DEF Local, wire, InTime, InCall
<1>2. CASE Calls
  BY <1>2, HeartbeatAssumption DEF Calls, W!Dial, W!Goto, vars, InTime, InCall
<1>3. CASE Talks
  BY <1>3, TalkInTime
<1>4. CASE Returns
  BY <1>4 DEF Returns, W!Return, W!Goto, InTime, InCall
<1>5. CASE UNCHANGED pass
  BY <1>5 DEF pass, vars, wire, InTime, InCall
<1> QED
  BY <1>1, <1>2, <1>3, <1>4, <1>5 DEF PassNext

(* A step maps to a step of Heartbeat or to a stutter.                      *)
LEMMA StepMaps == InTime /\ [PassNext]_pass => [Next]_vars
<1> SUFFICES ASSUME InTime, [PassNext]_pass PROVE [Next]_vars
  OBVIOUS
<1>1. CASE Local
  <2>1. 0 \in 0..RpcTimeout
    BY HeartbeatAssumption
  <2> QED
    BY <1>1, <2>1 DEF Local, Next
<1>2. CASE Calls \/ Talks
  BY <1>2 DEF Calls, Talks
<1>3. CASE Returns
  <2>1. InCall
    BY <1>3 DEF Returns, W!Return, W!Goto, InTime
  <2>2. ASSUME SockUp(spent) \/ SockDown(spent) PROVE Next
    <3>1. spent \in 0..SockTimeout
      BY <2>1, <2>2 DEF SockUp, SockDown, BeginWait, Goto, InCall, InTime
    <3> QED
      BY <2>2, <3>1 DEF Next
  <2>3. ASSUME \/ Join(spent) \/ JoinRaises(spent) \/ ProbeSeats(spent)
               \/ ProbeFails(spent) \/ ProbeRaises(spent) \/ Tick(spent)
               \/ TickUnseats(spent) \/ TickRaises(spent)
        PROVE  Next
    <3>1. spent \in 0..RpcTimeout
      BY <2>1, <2>3 DEF Join, JoinRaises, ProbeSeats, ProbeFails, ProbeRaises, Tick, TickUnseats,
         TickRaises, BeginWait, Goto, InCall, InTime
    <3> QED
      BY <2>3, <3>1 DEF Next
  <2>4. ASSUME \/ ListenAnswers(spent) \/ ListenHears(spent) \/ LandFails(spent)
               \/ ListenUnseats(spent) \/ ListenFails(spent)
        PROVE  Next
    <3>1. spent \in 0..ListenTimeout
      BY <2>1, <2>4 DEF ListenAnswers, ListenHears, LandFails, ListenUnseats, ListenFails,
         BeginWait, Goto, InCall, InTime
    <3> QED
      BY <2>4, <3>1 DEF Next
  <2> QED
    BY <1>3, <2>2, <2>3, <2>4 DEF Returns
<1>4. CASE UNCHANGED pass
  BY <1>4 DEF pass
<1> QED
  BY <1>1, <1>2, <1>3, <1>4 DEF PassNext

(* rpc()'s one deadline is what Heartbeat relies on: the pass with its calls  *)
(* in full implements the pass whose calls just take their time.            *)
THEOREM PassImplements == PassSpec => PassesInTime
<1>1. PassInit => Init
  BY DEF PassInit
<1>2. InTime /\ [PassNext]_pass => InTime' /\ [Next]_vars
  BY StepInTime, StepMaps
<1> QED
  BY <1>1, <1>2, InitInTime, PTL DEF PassSpec, PassesInTime, Spec

(* ... so that a daemon in front of a dead tunnel reads as alive through      *)
(* every connect of its calls,                                             *)
THEOREM PassReadsAlive == PassSpec => []DeadTunnelReadsAlive
<1>1. Spec => []DeadTunnelReadsAlive
  BY DeadTunnelAlwaysAlive
<1> QED
  BY <1>1, PassImplements, PTL DEF PassesInTime

(* ... and one behind a tunnel that is up touches its pidfile in bounded time *)
(* whatever the bridge dribbles.                                           *)
THEOREM PassSilenceIsBounded == PassSpec => []SilenceBounded
<1>1. Spec => []SilenceBounded
  BY SilenceIsBounded
<1> QED
  BY <1>1, PassImplements, PTL DEF PassesInTime

(* ... and with waits that count its failed passes.                         *)
THEOREM PassCountsBackoff == PassSpec => []BackoffCounts
<1>1. Spec => []BackoffCounts
  BY WaitsCountFailures
<1> QED
  BY <1>1, PassImplements, PTL DEF PassesInTime

-----------------------------------------------------------------------------
(* What rpc() has looked at so far: the lines before buf, each a keepalive.  *)
Behind == Len(came) - Len(buf)

Looked ==
  /\ verb = "sock" => phase \in {"idle", "connect", "done"}
  /\ phase \in {"idle", "connect", "send"} => came = <<>> /\ buf = <<>>
  /\ phase = "read" =>
       /\ Behind \in Nat
       /\ \A i \in 1..Behind : came[i] = "blank"
       /\ \A i \in 1..Len(buf) : buf[i] = came[Behind + i]
  /\ W!NoAnswerLost

LEMMA ChunkLines == \A c \in W!Chunks : c \in Seq(W!Frames)
BY PassAssumption DEF W!Chunks

LEMMA WireTyped ==
  ASSUME InTime, InTime', TypeOKInFull, [PassNext]_pass PROVE W!WireTypeOK'
<1> USE DEF W!WireTypeOK, TypeOKInFull, W!Goto, W!Ends, InTime
<1>1. CASE Talks
  <2>1. CASE W!Recv
    <3>1. PICK c \in W!Chunks : buf' = c /\ came' = came \o c
      BY <2>1 DEF W!Recv
    <3>2. buf' \in Seq(W!Frames) /\ came' \in Seq(W!Frames)
      BY <3>1, ChunkLines
    <3> QED
      BY <2>1, <3>2 DEF W!Recv
  <2>2. CASE W!Keepalive
    BY <2>2 DEF W!Keepalive
  <2>3. CASE W!Connects \/ W!ConnectFails \/ W!TimeUp \/ W!Sends \/ W!SendFails
             \/ W!Answer \/ W!RecvFails
    BY <2>3 DEF W!Connects, W!ConnectFails, W!TimeUp, W!Sends, W!SendFails, W!Answer,
       W!RecvFails
  <2> QED
    BY <1>1, <2>1, <2>2, <2>3 DEF Talks, W!Step
<1>2. CASE Local \/ Calls
  BY <1>2 DEF Local, Calls, wire, W!Dial
<1>3. CASE Returns
  BY <1>3 DEF Returns, W!Return
<1>4. CASE UNCHANGED pass
  BY <1>4 DEF pass, wire
<1> QED
  BY <1>1, <1>2, <1>3, <1>4 DEF PassNext

(* Types of a pass with its calls in full.                                  *)
THEOREM PassTypes == PassSpec => []TypeOKInFull
<1>1. PassInit => TypeOKInFull
  BY HeartbeatAssumption DEF PassInit, TypeOKInFull, TypeOK, Init, W!WireTypeOK, W!Init
<1>2. Spec => []TypeOK
  BY HeartbeatTypes
<1>3. InTime /\ TypeOKInFull /\ [PassNext]_pass /\ TypeOK' => InTime' /\ TypeOKInFull'
  BY StepInTime, WireTyped DEF TypeOKInFull
<1> QED
  BY <1>1, <1>2, <1>3, InitInTime, PassImplements, PTL DEF PassSpec, PassesInTime

(* The first line that is no keepalive, when the lines before it all are.   *)
LEMMA SaidFirst ==
  ASSUME W!WireTypeOK, NEW k \in Nat, k < Len(came), came[k + 1] # "blank",
         \A j \in 1..k : came[j] = "blank"
  PROVE  W!Said(came) = came[k + 1]
<1> DEFINE real == {j \in DOMAIN came : came[j] # "blank"}
<1>1. k + 1 \in real /\ \A j \in real : k + 1 <= j /\ j \in Int
  BY DEF W!WireTypeOK
<1>2. (CHOOSE i \in real : \A j \in real : i <= j) = k + 1
  BY <1>1
<1> QED
  BY <1>1, <1>2 DEF W!Said

LEMMA SaidNothing ==
  ASSUME W!WireTypeOK, \A j \in 1..Len(came) : came[j] = "blank"
  PROVE  W!Said(came) = "none"
BY DEF W!WireTypeOK, W!Said

LEMMA LookedStep == TypeOKInFull /\ Looked /\ [PassNext]_pass => Looked'
<1> SUFFICES ASSUME TypeOKInFull, Looked, [PassNext]_pass PROVE Looked'
  OBVIOUS
<1> USE DEF W!WireTypeOK, TypeOKInFull, W!Goto, W!Ends, Looked
<1>1. CASE Talks
  <2>1. CASE W!Recv
    <3>1. PICK c \in W!Chunks : buf' = c /\ came' = came \o c
      BY <2>1 DEF W!Recv
    <3>2. c \in Seq(W!Frames) /\ Len(came') = Len(came) + Len(c) /\ buf = <<>>
      BY <2>1, <3>1, ChunkLines DEF W!Recv
    <3>3. Behind' = Len(came) /\ Behind = Len(came)
      BY <3>1, <3>2 DEF Behind
    <3>4. /\ \A i \in 1..Len(came) : came'[i] = came[i]
          /\ \A i \in 1..Len(c) : came'[Len(came) + i] = c[i]
      BY <3>1, <3>2
    <3> QED
      BY <2>1, <3>1, <3>2, <3>3, <3>4 DEF W!Recv, W!NoAnswerLost
  <2>2. CASE W!Keepalive
    <3>1. /\ Len(buf') = Len(buf) - 1 /\ came' = came /\ buf[1] = "blank" /\ Len(buf) > 0
          /\ \A i \in 1..Len(buf') : buf'[i] = buf[i + 1]
      BY <2>2 DEF W!Keepalive
    <3>2. /\ Behind' = Behind + 1 /\ came[Behind + 1] = "blank" /\ Behind \in Nat
          /\ \A i \in 1..Behind : came[i] = "blank"
          /\ \A i \in 1..Len(buf) : buf[i] = came[Behind + i]
      BY <2>2, <3>1 DEF Behind, W!Keepalive
    <3>3. \A i \in 1..Len(buf') : buf'[i] = came'[Behind' + i]
      <4> SUFFICES ASSUME NEW i \in 1..Len(buf') PROVE buf'[i] = came'[Behind' + i]
        OBVIOUS
      <4>1. i + 1 \in 1..Len(buf) /\ Behind' + i = Behind + (i + 1)
        BY <3>1, <3>2
      <4> QED
        BY <3>1, <3>2, <4>1
    <3>4. \A i \in 1..Behind' : came'[i] = "blank"
      BY <3>1, <3>2
    <3>5. phase' = "read" /\ verb' = verb /\ phase = "read"
      BY <2>2 DEF W!Keepalive
    <3> QED
      BY <3>2, <3>3, <3>4, <3>5 DEF W!NoAnswerLost
  <2>3. CASE W!Connects \/ W!Sends
    BY <2>3 DEF W!Connects, W!Sends, Behind, W!NoAnswerLost
  <2>4. CASE W!ConnectFails \/ W!TimeUp \/ W!SendFails \/ W!RecvFails
    <3>1. verb = "rpc" => W!Said(came) = "none"
      <4>1. verb = "rpc" => \A j \in 1..Len(came) : came[j] = "blank"
        BY <2>4 DEF W!ConnectFails, W!TimeUp, W!SendFails, W!RecvFails, Behind
      <4> QED
        BY <4>1, SaidNothing
    <3>2. phase' = "done" /\ result' = "failed" /\ UNCHANGED <<verb, buf, came>>
      BY <2>4 DEF W!ConnectFails, W!TimeUp, W!SendFails, W!RecvFails
    <3>3. W!NoAnswerLost'
      BY <3>1, <3>2 DEF W!NoAnswerLost
    <3> QED
      BY <3>2, <3>3
  <2>5. CASE W!Answer
    <3>1. /\ Behind \in Nat /\ Behind < Len(came) /\ came[Behind + 1] = Head(buf)
          /\ Head(buf) \in {"json", "junk"}
          /\ \A j \in 1..Behind : came[j] = "blank"
      BY <2>5 DEF W!Answer, Behind, W!Frames
    <3>2. W!Said(came) = Head(buf)
      BY <3>1, SaidFirst
    <3>3. W!NoAnswerLost'
      BY <2>5, <3>1, <3>2 DEF W!Answer, W!NoAnswerLost
    <3> QED
      BY <2>5, <3>3 DEF W!Answer
  <2> QED
    BY <1>1, <2>1, <2>2, <2>3, <2>4, <2>5 DEF Talks, W!Step
<1>2. CASE Local \/ Calls
  BY <1>2 DEF Local, Calls, wire, W!Dial, W!NoAnswerLost, Behind
<1>3. CASE Returns
  BY <1>3 DEF Returns, W!Return, W!NoAnswerLost
<1>4. CASE UNCHANGED pass
  BY <1>4 DEF pass, wire, W!NoAnswerLost, Behind
<1> QED
  BY <1>1, <1>2, <1>3, <1>4 DEF PassNext

(* rpc() returns the first line that is no keepalive, whatever the bridge    *)
(* sends, in whatever chunks, and whenever the deadline passes.             *)
THEOREM AnswersAreKept == PassSpec => []NoAnswerLost
<1>1. PassInit => Looked
  BY DEF PassInit, W!Init, Looked, W!NoAnswerLost
<1>2. Looked => NoAnswerLost
  BY DEF Looked, NoAnswerLost
<1> QED
  BY <1>1, <1>2, LookedStep, PassTypes, PTL DEF PassSpec
=============================================================================

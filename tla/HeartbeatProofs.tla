-------------------------- MODULE HeartbeatProofs --------------------------
(* How old the pidfile of a living daemon can get, for all values of the     *)
(* timeouts.                                                               *)
EXTENDS Heartbeat, TLAPS

(* How old the pidfile can be at each point of a pass.                      *)
AgeBound ==
  /\ pc = "sock" => age = 0
  /\ pc \in {"tick", "join"} => age <= SockTimeout
  /\ pc = "probe" => age <= SockTimeout + RpcTimeout
  /\ pc \in {"poll", "listen"} => age <= SockTimeout + 2 * RpcTimeout
  /\ pc = "wait" => left > 0
  /\ pc = "wait" => age <= SockTimeout + 2 * RpcTimeout + ListenTimeout
  /\ pc = "touch" => age <= SockTimeout + 2 * RpcTimeout + ListenTimeout + Chunk
  /\ pc = "top" => \/ age <= SockTimeout + 2 * RpcTimeout + ListenTimeout
                   \/ age <= SockTimeout + 2 * RpcTimeout + JoinPoll
  /\ tunnel = "down" =>
       /\ pc \in {"top", "sock", "wait", "touch"}
       /\ (pc = "top" => age = 0)
       /\ (pc = "wait" => age <= SockTimeout)
       /\ (pc = "touch" => age <= SockTimeout + Chunk)

LEMMA ChunkNat == Chunk \in Nat /\ SockTimeout + Chunk < PidfileStale
  BY HeartbeatAssumption DEF Chunk

LEMMA BoundedStep == TypeOK /\ AgeBound /\ [Next]_vars => TypeOK' /\ AgeBound'
<1> SUFFICES ASSUME TypeOK, AgeBound, [Next]_vars PROVE TypeOK' /\ AgeBound'
  OBVIOUS
<1> USE HeartbeatAssumption, ChunkNat DEF TypeOK, AgeBound, Goto, Took, Utime
<1>1. CASE Touch
  BY <1>1 DEF Touch
<1>2. CASE PassFails
  BY <1>2 DEF PassFails, BeginWait, Lesser
<1>3. ASSUME NEW d \in 0..SockTimeout, SockDown(d) PROVE TypeOK' /\ AgeBound'
  BY <1>3 DEF SockDown, BeginWait, Lesser
<1>4. ASSUME NEW d \in 0..SockTimeout, SockUp(d) PROVE TypeOK' /\ AgeBound'
  BY <1>4 DEF SockUp
<1>5. ASSUME NEW d \in 0..RpcTimeout, Join(d) PROVE TypeOK' /\ AgeBound'
  BY <1>5 DEF Join
<1>6. ASSUME NEW d \in 0..RpcTimeout, JoinRaises(d) PROVE TypeOK' /\ AgeBound'
  BY <1>6 DEF JoinRaises, BeginWait, Lesser
<1>7. ASSUME NEW d \in 0..RpcTimeout, ProbeSeats(d) PROVE TypeOK' /\ AgeBound'
  BY <1>7 DEF ProbeSeats
<1>8. ASSUME NEW d \in 0..RpcTimeout, ProbeFails(d) PROVE TypeOK' /\ AgeBound'
  BY <1>8 DEF ProbeFails
<1>9. CASE Poll
  BY <1>9 DEF Poll
<1>10. CASE NotDue
  BY <1>10 DEF NotDue
<1>11. ASSUME NEW d \in 0..RpcTimeout, Tick(d) PROVE TypeOK' /\ AgeBound'
  BY <1>11 DEF Tick
<1>12. ASSUME NEW d \in 0..RpcTimeout, TickUnseats(d) PROVE TypeOK' /\ AgeBound'
  <2>1. age' = age + d
    BY <1>12 DEF TickUnseats
  <2>2. TypeOK'
    <3>1. seated' \in BOOLEAN
      BY <1>12, Zenon DEF TickUnseats
    <3> QED
      BY <1>12, <2>1, <3>1 DEF TickUnseats
  <2>3. pc' = "top" /\ age' <= SockTimeout + 2 * RpcTimeout + ListenTimeout
    BY <1>12, <2>1 DEF TickUnseats
  <2>4. tunnel' # "down"
    BY <1>12 DEF TickUnseats
  <2> QED
    BY <2>2, <2>3, <2>4
<1>13. ASSUME NEW d \in 0..ListenTimeout, ListenAnswers(d) PROVE TypeOK' /\ AgeBound'
  BY <1>13 DEF ListenAnswers, Floor
<1>14. ASSUME NEW d \in 0..ListenTimeout, ListenHears(d) PROVE TypeOK' /\ AgeBound'
  BY <1>14 DEF ListenHears
<1>15. ASSUME NEW d \in 0..ListenTimeout, LandFails(d) PROVE TypeOK' /\ AgeBound'
  BY <1>15 DEF LandFails
<1>16. ASSUME NEW d \in 0..ListenTimeout, ListenUnseats(d) PROVE TypeOK' /\ AgeBound'
  <2>1. age' = age + d
    BY <1>16 DEF ListenUnseats
  <2>2. TypeOK'
    <3>1. seated' \in BOOLEAN
      BY <1>16, Zenon DEF ListenUnseats
    <3> QED
      BY <1>16, <2>1, <3>1 DEF ListenUnseats
  <2>3. pc' = "top" /\ age' <= SockTimeout + 2 * RpcTimeout + ListenTimeout
    BY <1>16, <2>1 DEF ListenUnseats
  <2>4. tunnel' # "down"
    BY <1>16 DEF ListenUnseats
  <2> QED
    BY <2>2, <2>3, <2>4
<1>17. ASSUME NEW d \in 0..ListenTimeout, ListenFails(d) PROVE TypeOK' /\ AgeBound'
  BY <1>17 DEF ListenFails, BeginWait, Lesser
<1>18. CASE Sleep
  <2>1. Lesser(Chunk, left) <= Chunk
    BY DEF Lesser
  <2>2. age' \in Nat /\ age' <= age + Chunk /\ left' \in Int
    BY <1>18, <2>1 DEF Sleep, Lesser
  <2>3. pc = "wait" /\ pc' = "touch" /\ UNCHANGED <<seated, backoff, silent, tunnel>>
    BY <1>18 DEF Sleep
  <2> QED
    BY <2>2, <2>3
<1>19. CASE NextChunk
  BY <1>19 DEF NextChunk
<1>20. CASE EndWait
  BY <1>20 DEF EndWait, Widen, Lesser
<1>21. CASE UNCHANGED vars
  BY <1>21 DEF vars
<1>22. ASSUME NEW d \in 0..RpcTimeout, ProbeRaises(d) \/ TickRaises(d)
       PROVE  TypeOK' /\ AgeBound'
  BY <1>22 DEF ProbeRaises, TickRaises, BeginWait, Lesser
<1> QED
  BY <1>1, <1>2, <1>3, <1>4, <1>5, <1>6, <1>7, <1>8, <1>9, <1>10, <1>11, <1>12, <1>13,
     <1>14, <1>15, <1>16, <1>17, <1>18, <1>19, <1>20, <1>21, <1>22
  DEF Next

(* Types, for all values of the timeouts.                                   *)
THEOREM HeartbeatTypes == Spec => []TypeOK
<1>1. Init => TypeOK /\ AgeBound
  BY HeartbeatAssumption, ChunkNat DEF Init, TypeOK, AgeBound
<1> QED
  BY <1>1, BoundedStep, PTL DEF Spec

(* A daemon that waits out a dead tunnel reads as alive throughout, for all  *)
(* values of the timeouts, so that no hook spawns a rival over it.          *)
THEOREM DeadTunnelAlwaysAlive == Spec => []DeadTunnelReadsAlive
<1>1. Init => TypeOK /\ AgeBound
  BY HeartbeatAssumption, ChunkNat DEF Init, TypeOK, AgeBound
<1>2. ASSUME TypeOK, AgeBound, tunnel = "down" PROVE age < PidfileStale
  <2>1. /\ SockTimeout \in Nat /\ PidfileStale \in Nat /\ Chunk \in Nat
        /\ SockTimeout + Chunk < PidfileStale
    BY HeartbeatAssumption, ChunkNat
  <2>2. age \in Nat
    BY <1>2 DEF TypeOK
  <2>3. age = 0 \/ age <= SockTimeout \/ age <= SockTimeout + Chunk
    BY <1>2 DEF AgeBound
  <2> QED
    BY <2>1, <2>2, <2>3
<1> QED
  BY <1>1, <1>2, BoundedStep, PTL DEF Spec, DeadTunnelReadsAlive

(* Whatever the calls answer and however long they take within their         *)
(* deadlines, no pass leaves the pidfile untouched for longer.              *)
THEOREM SilenceIsBounded == Spec => []SilenceBounded
<1>1. Init => TypeOK /\ AgeBound
  BY HeartbeatAssumption, ChunkNat DEF Init, TypeOK, AgeBound
<1>2. TypeOK /\ AgeBound => SilenceBounded
  BY HeartbeatAssumption, ChunkNat DEF TypeOK, AgeBound, SilenceBounded, Chunk
<1> QED
  BY <1>1, <1>2, BoundedStep, PTL DEF Spec

(* Why the waits count the failed passes.  A wait begins by counting its     *)
(* pass, and the doubling comes after it.                                   *)
Counting == BackoffCounts /\ (pc \in {"wait", "touch"} => silent >= 1)

LEMMA Powers == 2^0 = 1 /\ 2^1 = 2 /\ 2^2 = 4 /\ 2^3 = 8
  OBVIOUS

LEMMA CountingStep == TypeOK /\ Counting /\ [Next]_vars => Counting'
<1> SUFFICES ASSUME TypeOK, Counting, [Next]_vars PROVE Counting'
  OBVIOUS
<1> USE HeartbeatAssumption, Powers DEF TypeOK, Counting, BackoffCounts, Goto, Lesser
<1>1. ASSUME NEW from \in {"sock", "join", "probe", "tick", "listen"}, BeginWait(from) PROVE Counting'
  <2>1. CASE silent >= 3
    BY <1>1, <2>1 DEF BeginWait
  <2>2. CASE silent < 3
    BY <1>1, <2>2 DEF BeginWait
  <2> QED
    BY <2>1, <2>2
<1>2. CASE EndWait
  <2>1. silent \in {1, 2, 3, 4} /\ silent' = silent
    BY <1>2 DEF EndWait
  <2>2. backoff' = Lesser(2 * backoff, BackoffMax) /\ pc = "touch" /\ pc' = "top"
    BY <1>2 DEF EndWait, Widen
  <2>3. CASE silent = 1
    BY <2>1, <2>2, <2>3
  <2>4. CASE silent = 2
    BY <2>1, <2>2, <2>4
  <2>5. CASE silent = 3
    BY <2>1, <2>2, <2>5
  <2>6. CASE silent = 4
    BY <2>1, <2>2, <2>6
  <2> QED
    BY <2>1, <2>3, <2>4, <2>5, <2>6
<1>3. ASSUME backoff' = BackoffMin, silent' = 0, pc' \notin {"wait", "touch"}
      PROVE  Counting'
  BY <1>3
<1>4. CASE \E d \in 0..ListenTimeout : LandFails(d)
  BY <1>4 DEF LandFails
<1>5. ASSUME UNCHANGED <<backoff, silent>>,
             pc \in {"wait", "touch"} <=> pc' \in {"wait", "touch"}
      PROVE  Counting'
  BY <1>5
<1>6. ASSUME NEW d \in 0..SockTimeout, SockDown(d) \/ SockUp(d) PROVE Counting'
  BY <1>1, <1>5, <1>6 DEF SockDown, SockUp
<1>7. ASSUME NEW d \in 0..RpcTimeout,
             \/ Join(d) \/ JoinRaises(d) \/ ProbeSeats(d) \/ ProbeFails(d)
             \/ ProbeRaises(d) \/ Tick(d) \/ TickUnseats(d) \/ TickRaises(d)
      PROVE  Counting'
  BY <1>1, <1>5, <1>7
  DEF Join, JoinRaises, ProbeSeats, ProbeFails, ProbeRaises, Tick, TickUnseats, TickRaises
<1>8. ASSUME NEW d \in 0..ListenTimeout,
             \/ ListenAnswers(d) \/ ListenHears(d) \/ ListenUnseats(d) \/ ListenFails(d)
      PROVE  Counting'
  BY <1>1, <1>3, <1>5, <1>8 DEF ListenAnswers, ListenHears, ListenUnseats, ListenFails
<1>9. CASE Touch \/ Poll \/ NotDue \/ Sleep \/ NextChunk \/ PassFails
  BY <1>1, <1>5, <1>9 DEF Touch, Poll, NotDue, Sleep, NextChunk, PassFails
<1>10. CASE UNCHANGED vars
  BY <1>5, <1>10 DEF vars
<1> QED
  BY <1>2, <1>4, <1>6, <1>7, <1>8, <1>9, <1>10 DEF Next

(* A wait is as wide as the failed passes since the last good listen make    *)
(* it, and never wider than BACKOFF_MAX, for all values of the bounds.      *)
THEOREM WaitsCountFailures == Spec => []BackoffCounts
<1>1. Init => Counting
  BY HeartbeatAssumption, Powers DEF Init, Counting, BackoffCounts, Lesser
<1>2. Counting => BackoffCounts
  BY DEF Counting
<1> QED
  BY <1>1, <1>2, CountingStep, HeartbeatTypes, PTL DEF Spec
=============================================================================

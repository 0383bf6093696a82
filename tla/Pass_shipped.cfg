SPECIFICATION PassSpec
CONSTANTS
  PidfileStale = 90
  SockTimeout = 3
  RpcTimeout = 10
  ListenTimeout = 40
  JoinPoll = 15
  BackoffMin = 60
  BackoffMax = 300
  ConnectCap = 10
  Beats = {0, 1}
  MaxFrames = 3
INVARIANTS TypeOKInFull DeadTunnelReadsAlive SilenceBounded BackoffCounts NoAnswerLost
PROPERTIES PassesInTime

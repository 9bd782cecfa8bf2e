CONSTANTS
  Keys = {k1, k2}
  NoKey = NoKey
  Fds = {5, 6}
  NoFd = NoFd
  kPressurePerPeer = 4
  kSendPressureMax = 8
  kRecvPauseMinBatches = 2
  kMaxSendQueueDepth = 6
  kRecvBudget = 3
  kRecvDeferSize = 4
  Burst = 2
  MaxDrops = 2
  MaxReadds = 2
  Envs = {{"leave"}}
SPECIFICATION Spec
PROPERTY PauseEnds
CHECK_DEADLOCK FALSE

CONSTANTS
  Keys = {k1, k2}
  Fds = {5, 6}
  NoKey = NoKey
  MaxConns = 3
  MaxFrames = 1
  Envs = {{"overlap"}}
SPECIFICATION Spec
PROPERTY ClosedForCause
CHECK_DEADLOCK FALSE

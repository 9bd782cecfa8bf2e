CONSTANTS
  Keys = {k1, k2}
  Fds = {5, 6}
  NoKey = NoKey
  MaxConns = 3
  MaxFrames = 1
  Envs = {{"note", "recverr"}, {"note", "recverr", "early"}, {"close"}, {"senderr"},
          {"badlen"}, {"peergone"}, {"revoke"}}
SPECIFICATION Spec
INVARIANTS TypeOK FrameCreditedToSender RegisteredIsConnected ConnectedIsServed
PROPERTIES OrderlyClosedForCause ClosedIsReleased
CHECK_DEADLOCK FALSE

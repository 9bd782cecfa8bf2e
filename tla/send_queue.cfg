CONSTANTS
  NumFrames = 4
  MaxInflight = 2
  PollBatch = 2
  MaxDepth = 3
  Envs <- MCEnvs
SPECIFICATION Spec
INVARIANTS TypeOK WireInOrder CountsExact FreedAfterUse
PROPERTY AcceptedIsSent
CHECK_DEADLOCK FALSE

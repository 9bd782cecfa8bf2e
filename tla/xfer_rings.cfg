CONSTANTS
  NumWorkers = 2
  RingSize = 3
  MaxFrames = 3
SPECIFICATION Spec
INVARIANT RingHoldsUndelivered
PROPERTIES
  FifoDelivery
  SignalDrains
  AcceptedIsDelivered
  QueueSpec

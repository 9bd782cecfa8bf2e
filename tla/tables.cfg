CONSTANTS
  k1 = k1
  k2 = k2
  k3 = k3
  k4 = k4
  Keys <- MCKeys
  Hash <- MCHash
  f1 = f1
  f2 = f2
  f3 = f3
  Fds <- MCFds
  TableSize = 3
  MaxWatchers = 2
SPECIFICATION MCSpec
SYMMETRY MCSymmetry
INVARIANTS
  MCTypeOK
  LiveIsFound
  FdMapConsistent
  CountsLive
PROPERTY MapSpec

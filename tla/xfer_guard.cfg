CONSTANTS
  Keys = {k1, k2}
  Fds = {5, 6}
  NoKey = NoKey
  Slots = {s1, s2}
  NoSlot = NoSlot
  MaxAdds = 3
  MaxQueue = 2
SPECIFICATION Spec
SYMMETRY MCSymmetry
INVARIANT GenerationGuards
CHECK_DEADLOCK FALSE

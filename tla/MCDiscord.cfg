SPECIFICATION Spec
CONSTANTS
  Spacing = 3
  Interval = 4
INVARIANTS TypeOK PaceInv
PROPERTIES BurstBounded

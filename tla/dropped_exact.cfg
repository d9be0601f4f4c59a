SPECIFICATION Spec
CONSTANTS
  Records = {r1, r2}
  Capacity = 1
  BatchSize = 1
SYMMETRY Symmetry
INVARIANT DroppedIsExact

SPECIFICATION Spec
CONSTANTS
  d1 = d1
  d2 = d2
  Devs = {d1, d2}
  N = 5
  Thresh = 1
  Budget = 2
  Nobody = nobody
SYMMETRY DevSymmetry
INVARIANTS
  TypeOK
  RingExact
  HardwareHolds
  RingThere

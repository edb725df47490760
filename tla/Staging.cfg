CONSTANTS
  Bufs = {b1, b2}
  Views = {v1, v2}
  Blocks = {k1, k2, k3, k4, k5}
  NoBlock = none
  Warm = 2
  Ceiling = 4
  Shared = 1
  Spare = 2
  Modes = {"local", "accounted"}
SPECIFICATION StagingSpec
INVARIANTS
  BytesAreKept
  WarmIsReserved
  CeilingIsReserved
SYMMETRY StagingSymmetry
VIEW Legible
CONSTRAINT FewInHand

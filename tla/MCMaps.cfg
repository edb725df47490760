CONSTANTS
  NONE = NONE
  END = END
  MCKeys = {k1, k2, k3}
  MCValues = {a}
SPECIFICATION Spec
INVARIANTS
  PlanesAreSound
PROPERTIES
  ImplementsMaps
SYMMETRY Symmetry

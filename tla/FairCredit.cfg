CONSTANTS
  NoLane = NoLane
  Lanes = {l1, l2}
  Handles = {h1, h2, h3, h4}
  N = 2
  MaxWord = 3
  Limit <- SmallLimit
  Reserve <- SmallReserve
  Requests <- SmallRequests
SPECIFICATION Spec
SYMMETRY HandleSymmetry
INVARIANTS
  Conserved
  AdmissionIsExact
  MergeNeverWraps

SPECIFICATION Spec
CONSTANTS
  Lanes = {0, 1, 2}
  G = 2
  Slots = {s1, s2, s3, s4}
  Vals = {v1}
  MaxDepth = 1
  None = None
  END = END
SYMMETRY SlotSymmetry
VIEW Recorded
INVARIANTS ScheduledIsInitialized
PROPERTIES WaitersKeepTheirTurn ImplementsFairLanes

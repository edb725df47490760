SPECIFICATION RoomSpec
CONSTANTS
  Slots = {0, 1, 2}
  Lanes = {0, 1}
  G = 1
  Regs = {r1,r2,r3,r4}
  Grants = {g1}
  None = None
  END = END
INVARIANTS PayloadFollowsTopology
PROPERTIES ImplementsFairLanes DrainEnds

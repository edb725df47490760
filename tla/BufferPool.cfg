CONSTANTS
  Cores = {c1, c2}
  Handles = {h1, h2, h3, h4, h5}
  Domains = {d1, d2}
  NoDomain = NoDomain
  SlotCounts = {0, 2, 3}
  Caps = {1, 2}
  Tallies = {0, 1, 2}
  Limits = {2, 5}
  MaxRefs = 2
SPECIFICATION Spec
SYMMETRY Symmetry
VIEW Interchanged
CONSTRAINT Scope
INVARIANTS
  TablesAgree
  SpansAreSole
  FreeListsAreExact
  FreedWithItsLastUser
  ResidentIsExact
CHECK_DEADLOCK FALSE

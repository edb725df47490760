CONSTANTS
  Root = Root
  Handles = {h1, h2, h3, h4, h5}
  MaxWord = 5
  Sizes = {0, 2, 5}
  Starts = {1, 5}
  MaxDepth = 3
SPECIFICATION Spec
SYMMETRY HandleSymmetry
INVARIANTS
  Conserved
  ReservationsAreClosed
  CallsAreBacked

SPECIFICATION Spec
CONSTANTS
  Capacity = 4
  Plain = {"a", "b"}
  Counted = {"c"}
  Rings = {"r"}
  Lists = {"l"}
  Free = "free"
  NoUndo = NoUndo
  END = END
INVARIANTS Reciprocal MarksAreTrue
PROPERTY ImplementsOrders
VIEW Readable
CHECK_DEADLOCK FALSE

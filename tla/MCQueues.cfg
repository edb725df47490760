SPECIFICATION Spec
CONSTANTS
  NONE = NONE
  END = END
  TOP = 4
  MCValues = {a, b}
INVARIANTS
  QueuesAreSound
  HeapsAreSound
  GroupsAreSound
PROPERTIES
  ImplementsQueues
  ChangesAreReported
CHECK_DEADLOCK FALSE

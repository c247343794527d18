SPECIFICATION Spec
CONSTANTS
  x = x
  y = y
  None = None
  MaxWorkers = 2
  Payload = {x, y}
INVARIANTS
  StartedOnce
  BringsItsOwnMesh
  KeptUntilHome
PROPERTIES
  WorkIsNotThrownAway
SYMMETRY Symmetry
CHECK_DEADLOCK FALSE

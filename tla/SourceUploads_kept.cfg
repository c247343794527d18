SPECIFICATION Spec
CONSTANTS
  Finisher = {f1}
  Purger = {p1}
  Good = {x}
  Bad = {bad}
  None = None
  Sweep = Sweep
  MaxPuts = 1
  MaxRetries = 2
PROPERTIES
  SourceKeepsItsBytes
CHECK_DEADLOCK FALSE

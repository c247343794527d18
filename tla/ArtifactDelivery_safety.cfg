SPECIFICATION Spec
CONSTANTS
  x = x
  y = y
  None = None
  Content = {x, y}
  Forms <- MCForms
  MaxGen = 2
  Tries = 2
SYMMETRY
  Symmetry
INVARIANTS
  SucceededWasDelivered
  EvidenceIsNotOverwritten
PROPERTIES
  LoserLeavesNoRow
CHECK_DEADLOCK FALSE

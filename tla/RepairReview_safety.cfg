SPECIFICATION Spec
CONSTANTS
  a = a
  b = b
  c1 = c1
  c2 = c2
  r1 = r1
  None = None
  Item = {a, b}
  Sample = {a}
  Client = {c1, c2}
  Runner = {r1}
  MaxParks = 2
  MaxAnswers = 2
SYMMETRY
  Symmetry
INVARIANTS
  ReviewTypeOK
  PayloadIsTheAnswers
  PairedIsAnsweredAlone
PROPERTIES
  LeftIsNotAskedAgain
CHECK_DEADLOCK FALSE

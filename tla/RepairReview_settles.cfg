SPECIFICATION FairSpec
CONSTANTS
  a = a
  c1 = c1
  r1 = r1
  r2 = r2
  None = None
  Item = {a}
  Sample = {a}
  Client = {c1}
  Runner = {r1, r2}
  MaxParks = 1
  MaxAnswers = 1
INVARIANTS
  ParkedIsReviewable
PROPERTIES
  NobodyWaitsForEver
  KeepsTheLifecycle
CHECK_DEADLOCK FALSE

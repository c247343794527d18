SPECIFICATION Spec
CONSTANTS
  None = None
  j1 = j1
  j2 = j2
  Plans = {team}
  Included <- PlansIncluded
  Pack = 1
  Signup = 2
  Handlers = {h1, h2}
  Subs = {s1}
  MaxEvents = 2
  Job = {j1, j2}
  Price <- Prices
  PerJob = 2
  Metered = {team}
  Approver = {a1, a2}
  Sweeper = {w1, w2}
  SweepBatch = 2
  Poison = {j2}
SYMMETRY Symmetry
CHECK_DEADLOCK FALSE
INVARIANTS
  PurchaseIsGrantedOnce
  GateHoldsEnoughBack
  BilledChargesStopAtZero
  StampedIsCounted
PROPERTIES
  KeepsTheAccount

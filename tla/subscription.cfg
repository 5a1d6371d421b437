CONSTANTS
  h1 = h1
  h2 = h2
  NumSubs = 2
  NumPlans = 2
  Offered = {1}
  Hooks = {h1, h2}
  MaxChanges = 1
  MaxLost = 1
  MaxBusy = 2
  MaxPending = 1
SPECIFICATION SubFairSpec
INVARIANTS BilledRightly
PROPERTIES RowConverges
CHECK_DEADLOCK FALSE

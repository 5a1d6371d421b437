CONSTANTS
    basic = basic
    plus = plus
    h1 = h1
    h2 = h2
    Plans = {basic, plus}
    NoPlan = NoPlan
    Limit <- MCLimit
    Cap = 2
    NumCycles = 2
    Amounts = {2, 3}
    MaxCharged = 3
    Handlers = {h1, h2}
    FirstPlan = plus
    FirstRollover = 1
    FirstPurchased = 1
SPECIFICATION Spec
SYMMETRY HandlerSymmetry
INVARIANTS UsageInv ChargesAccountedUnlessOvertaken AllowanceSpentOnce
CHECK_DEADLOCK FALSE

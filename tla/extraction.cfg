CONSTANTS
    u1 = u1
    u2 = u2
    c1 = c1
    c2 = c2
    r1 = r1
    r2 = r2
    NoPrompt = NoPrompt
    custom = custom
    NoJob = NoJob
    Requests = {r1, r2}
    Users = {u1, u2}
    Contents = {c1, c2}
    Pages = {1, 2}
    Prompts = {NoPrompt, custom}
    Asks <- MixedAsks
    FigurePages = {1}
    MaxSlots = 1
    Allowance = 2
    Estimate = 2
    Tolerance = 1
    Cost = 2
    MaxEvents = 1
SPECIFICATION Spec
INVARIANTS HoldingsOwned SpendingBounded ServedAsAsked
PROPERTIES RequestsSettle
CHECK_DEADLOCK FALSE

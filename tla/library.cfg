CONSTANTS
    g = g
    u = u
    NoValue = NoValue
    Guests = {g}
    Accounts = {u}
    Handlers = {h1, h2}
    Contents = {c}
    Urls = {a}
    Limit <- Limits
    MaxDocs = 2
    MaxRequests = 3
    MaxEvents = 1
SPECIFICATION Spec
INVARIANTS LibraryInv ImagesServed
PROPERTIES RowsOutlive
CHECK_DEADLOCK FALSE

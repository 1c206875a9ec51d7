SPECIFICATION Spec
CONSTANTS
    Requests = {r1}
    Workers = {w1}
    Products = {p1}
    Quantities = {1}
    Storable = {TRUE}
    InitialStock = {1}
    AdminStock = {}
    StatusColumn = {"pending", "processing", "confirmed", "failed"}
    MaxAttempts = 3
    MaxStalls = 1
    Faults = {"metrics"}
    None = None
INVARIANTS FailedTookNothing

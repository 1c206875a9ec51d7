SPECIFICATION Spec
CONSTANTS
    Requests = {r1, r2}
    Workers = {w1}
    Products = {p1}
    Quantities = {1}
    Storable = {TRUE}
    InitialStock = {2}
    AdminStock = {}
    StatusColumn = {"pending", "processing", "confirmed", "failed"}
    MaxAttempts = 3
    MaxStalls = 1
    Faults = {}
    None = None
INVARIANTS FailedForWantOfStock

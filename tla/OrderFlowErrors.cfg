SPECIFICATION Spec
CONSTANTS
    Requests = {r1, r2}
    Workers = {w1, w2}
    Products = {p1}
    Quantities = {1, 2}
    Storable = {TRUE}
    InitialStock = {1, 2}
    AdminStock = {}
    StatusColumn = {"pending", "processing", "confirmed", "failed"}
    MaxAttempts = 2
    MaxStalls = 1
    Faults = {"db", "lock", "queue"}
    None = None
SYMMETRY Symmetry
VIEW WithoutMetrics
INVARIANTS MutualExclusion ConfirmedIsDebited AtMostOneDebit FailedKeepsNoStock IInv
PROPERTIES LocksServe

SPECIFICATION Spec
CONSTANTS
    Requests = {r1, r2}
    Workers = {w1, w2}
    Products = {p1}
    Quantities = {1}
    Storable = {TRUE}
    InitialStock = {1, 2}
    AdminStock = {}
    StatusColumn = {"pending", "processing", "confirmed", "failed"}
    MaxAttempts = 1
    MaxStalls = 1
    Faults = {"slow"}
    None = None
SYMMETRY Symmetry
VIEW WithoutMetrics
INVARIANTS NoOversell ConfirmedAreCovered OneDebitPerRun IInv
PROPERTIES AtomicSale

SPECIFICATION ReadsSpec
CONSTANTS
    Requests = {r1, r2, r3}
    Workers = {w1, w2}
    Products = {p1}
    Quantities = {1}
    Storable = {TRUE, FALSE}
    InitialStock = {2}
    AdminStock = {}
    StatusColumn = {"pending", "processing", "confirmed", "failed"}
    MaxAttempts = 2
    MaxStalls = 1
    Faults = {}
    None = None
VIEW WithoutMetrics
SYMMETRY Symmetry
INVARIANTS TypeOK LeftOnlyByRefusedRow ZeroMeansCompleted NeverTooOptimistic CountedTwiceOnlyIfSaved
PROPERTIES AdmittedWithStock

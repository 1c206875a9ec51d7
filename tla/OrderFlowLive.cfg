SPECIFICATION FairSpec
CONSTANTS
    Requests = {r1}
    Workers = {w1}
    Products = {p1}
    Quantities = {1}
    Storable = {TRUE, FALSE}
    InitialStock = {2}
    AdminStock = {1}
    StatusColumn = {"pending", "processing", "confirmed", "failed"}
    MaxAttempts = 2
    MaxStalls = 1
    Faults = {"db", "commit", "queue", "metrics", "crash"}
    None = None
INVARIANTS OneDebitPerRun NoSilentOrphan IInv
PROPERTIES JobsSettle LockFreed HandlersReturn AtomicSale

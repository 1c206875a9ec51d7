SPECIFICATION MetricsSpec
CONSTANTS
    Calls = {c1, c2}
    Unlucky = {c2}
    Products = {p1}
    Levels = {0}
    KeepLast = 1
    MaxSecond = 1
    MaxClears = 1
    None = None
CHECK_DEADLOCK FALSE
INVARIANTS NewestKept EveryKeyExpires ClearForgets ReportIsComplete

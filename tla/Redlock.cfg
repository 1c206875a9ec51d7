SPECIFICATION RedlockSpec
CONSTANTS
    Calls = {c1, c2}
    Nodes = {n1, n2, n3}
    Attempts = 2
    Flaky = {n3}
    Volatile = {n3}
    None = None
SYMMETRY Symmetry
CHECK_DEADLOCK FALSE
INVARIANTS OneLease LoneCallGranted OneOfTwoWins NothingLeftBehind RedlockInv
PROPERTIES NodesServe

SPECIFICATION TicksSpec
CONSTANTS
    Clients = {c1, c2}
    MaxSubscribes = 2
    Hasty = {c2}
    Unlucky = {c1}
    Counts = {0, 1}
    None = None
CHECK_DEADLOCK FALSE
INVARIANTS OneStream StopMeansStop SubscribedIsServed GaugesAgree ConnectionsAreCurrent
PROPERTIES UpdatesKeepComing

SPECIFICATION GatewaySpec
CONSTANTS
    Clients = {c1, c2, c3}
    MaxSubscribes = 2
    Hasty = {c1}
    Unlucky = {}
CHECK_DEADLOCK FALSE
INVARIANTS GoneIsSilent

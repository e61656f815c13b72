SPECIFICATION GatewaySpec
CONSTANTS
    Sessions = {s1}
    Ttl = 3
    Idle = 2
    MaxTime = 5
PROPERTIES
    EvictionClosesStream
CHECK_DEADLOCK FALSE

SPECIFICATION Spec
CONSTANTS
    s1 = s1
    s2 = s2
    alice = alice
    bob = bob
    carol = carol
    Calls = {c1, c2}
    Sessions = {s1, s2}
    Agents = {alice, bob}
    AgentOf <- MCAgentOf
    Approvers = {}
    Modes = {"blocking"}
    Ttl = 2
    Idle = 2
    MaxTime = 2
    MaxPending = 1
    MaxRegistrations = 2
PROPERTIES
    CallsAnswered
    ImplementsGate
CHECK_DEADLOCK FALSE

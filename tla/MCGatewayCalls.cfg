SPECIFICATION Spec
CONSTANTS
    s1 = s1
    s2 = s2
    alice = alice
    bob = bob
    carol = carol
    Calls = {c1, c2}
    Sessions = {s1, s2}
    Agents = {alice, bob, carol}
    AgentOf <- MCAgentOf
    Approvers = {bob, carol}
    Modes = {"blocking", "detached", "plain"}
    Ttl = 3
    Idle = 2
    MaxTime = 3
    MaxPending = 2
    MaxRegistrations = 2
INVARIANTS
    RunsOnlyAuthorised
    TruthfulAnswers
    TableMatchesWaits
PROPERTIES
    ApprovedRunsInLiveSession
    HookSettlesSession
    ImplementsRegistry
CHECK_DEADLOCK FALSE

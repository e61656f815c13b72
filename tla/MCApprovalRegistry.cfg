SPECIFICATION Spec
CONSTANTS
    s1 = s1
    s2 = s2
    alice = alice
    bob = bob
    Sessions = {s1, s2}
    Agents = {alice, bob}
    AgentOf <- MCAgentOf
    MaxPending = 2
    MaxRegistrations = 3
INVARIANTS
    TypeOK
    HistoryMirrorsDeque
    NoLostWakeup
    AcceptedDecisionReturned
    HistoryAgrees
PROPERTIES
    DecisionsFinal
    RemovalsRemembered
    WaitEnds
CHECK_DEADLOCK FALSE

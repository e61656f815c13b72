\* The parts of the process around the handlers.  Requests, lives and the one
\* evaluation are bounded: the system stops.
SPECIFICATION Spec
CONSTANTS
    Requests = {r1, r2}
    Limit = 2
    InnerLimit = 1
    MaxMessage = 2
    MaxLives = 2
INVARIANTS
    SubprocessReaped
    SessionInUseIsOpen
    SizeVerdictsRight
    OutputMatchesExit
    RepliesHonoured
PROPERTY RequestsAnswered
CHECK_DEADLOCK FALSE

\* The plugin's promises, and that every permission is decided as long as no
\* response is cut.  The activations and the asks are bounded: the system stops.
SPECIFICATION Spec
CONSTANTS
    Activations = {a1, a2, a3}
    Events = {shared, bare}
    Capable = {shared}
    Asks = {p1}
INVARIANTS
    AllowIsEarned
    RepliesConsistent
    EventsAnswered
    OneStartPerLatch
PROPERTY AsksDecidedUnlessCut
CHECK_DEADLOCK FALSE

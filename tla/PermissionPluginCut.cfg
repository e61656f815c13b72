\* Is every permission decided, whatever happens to the response?
SPECIFICATION Spec
CONSTANTS
    Activations = {a1}
    Events = {shared}
    Capable = {shared}
    Asks = {p1}
PROPERTY AsksDecided
CHECK_DEADLOCK FALSE

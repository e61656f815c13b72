\* The verdicts of the policy engine under every constraint a file can state.
\* A policy file that is refused stops the system.
SPECIFICATION Spec
CONSTANTS
    a = a  b = b  stranger = stranger
    reader = reader  writer = writer  missing = missing
    save = save  search = search  other = other
    p = p  q = q
    short = short  long = long  one = one  real = real  true = true  list = list
    None = None
    MaxLength = 2
    RefusedPatterns = {"refused"}
    Agents <- MCAgents
    Intents <- MCIntents
    Tools <- MCTools
    Params <- MCParams
    Values <- MCValues
    TypeOf <- MCTypeOf
    EqualTo <- MCEqualTo
    Length <- MCLength
    Matching <- MCMatching
    Policies <- MCPolicies
INVARIANTS
    TypeOK
    VerdictsRight
    NarrowingOnlyRestricts
    LoadedListsUsable
CHECK_DEADLOCK FALSE

--------------------------- MODULE MCPolicyEngine ---------------------------
(***************************************************************************)
(* PolicyEngine on the policy files with one guardrail, whose parameter p  *)
(* has any constraint at all and whose parameter q is forbidden.           *)
(***************************************************************************)
EXTENDS PolicyEngine, TLC

CONSTANTS
    a, b, stranger,                  \* agents; the policy knows a and b
    reader, writer, missing,         \* intents; the policy has the first two
    save, search, other,             \* tools
    p, q,                            \* parameters
    short, long, one, real, true, list

MCAgents == {a, b, stranger}
MCIntents == {reader, writer, missing}
MCTools == {save, search, other}
MCParams == {p, q}
MCValues == {short, long, one, real, true, list}

MCTypeOf == short :> "string" @@ long :> "string" @@ one :> "int"
            @@ real :> "float" @@ true :> "bool" @@ list :> "other"

MCEqualTo == [v \in MCValues |-> IF v \in {one, real, true} THEN {one, real, true} ELSE {v}]

MCLength == [v \in MCValues |-> IF v = long THEN 2 ELSE 1]

MCMatching == "good" :> {short} @@ "refused" :> {}

Constraints ==
    [type : {None, "string", "integer", "number", "boolean"},
     maxLength : {None, 1, 3},
     pattern : {None, "good", "refused"},
     allowed : {None, {}, {long}, {one}, {one, real}, {one, true}},
     forbidden : BOOLEAN]

Forbidden == [type |-> None, maxLength |-> None, pattern |-> None, allowed |-> None,
              forbidden |-> TRUE]

Policy(c, manual, readers) ==
    [intents |-> reader :> [tools |-> {search}, guardrails |-> <<>>]
                 @@ writer :> [tools |-> {save, search},
                               guardrails |-> save :> [params |-> p :> c @@ q :> Forbidden,
                                                       requiresApproval |-> manual]],
     agents |-> a :> readers @@ b :> {writer}]

MCPolicies ==
    {Policy(c, manual, {reader}) : c \in Constraints, manual \in BOOLEAN}
    \cup {Policy(Forbidden, FALSE, {reader, missing})}
=============================================================================

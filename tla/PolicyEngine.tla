---------------------------- MODULE PolicyEngine ----------------------------
(***************************************************************************)
(* The deterministic policy: the validation of the policy file at start-up *)
(* (policy/models.py), the grant of a handshake (auth/headers.py,          *)
(* PolicyEngine.evaluate_grant) and the verdict on a tool call             *)
(* (PolicyEngine.evaluate_call).  GatewayCalls and EvaluatorCoalescing     *)
(* take these verdicts as given; here they are computed.                   *)
(*                                                                         *)
(* A JSON value is what the checks can tell of it: its type, the values    *)
(* that Python's == equates it with (1, 1.0 and True), and of a string its *)
(* length and the patterns it matches.                                     *)
(***************************************************************************)
EXTENDS Naturals

CONSTANTS
    Agents, Intents, Tools, Params,
    None,             \* Python's None
    Values,           \* JSON values
    TypeOf,           \* TypeOf[v]: type(v)
    EqualTo,          \* EqualTo[v]: the values w with v == w
    Length,           \* Length[v]: len(v), for strings
    Matching,         \* Matching[p]: the strings that pattern p matches fully
    RefusedPatterns,  \* patterns that are too long or do not compile
    MaxLength,        \* the smaller limit on max_length, RE_DOS_MAX_LENGTH
    Policies          \* the policy files to start from

Strings == {v \in Values : TypeOf[v] = "string"}

ParamTypes == {"string", "integer", "number", "boolean"}

(* ParamConstraint, before its validators have run.                        *)
Constraint ==
    [type : {None} \cup ParamTypes, maxLength : {None} \cup Nat,
     pattern : {None} \cup DOMAIN Matching, allowed : {None} \cup SUBSET Values,
     forbidden : BOOLEAN]

ASSUME ValueAssumption ==
    /\ TypeOf \in [Values -> {"string", "int", "float", "bool", "other"}]
    /\ EqualTo \in [Values -> SUBSET Values]
    /\ \A v \in Values : {w \in EqualTo[v] : TypeOf[w] = TypeOf[v]} = {v}
    /\ Length \in [Values -> Nat]
    /\ \A r \in DOMAIN Matching : Matching[r] \subseteq Strings
    /\ RefusedPatterns \subseteq DOMAIN Matching
    /\ MaxLength \in Nat
    /\ None \notin ParamTypes \cup Nat \cup DOMAIN Matching
    /\ \A s \in SUBSET Values : s # None

(* What pydantic makes of a file: a policy [intents, agents] gives agents  *)
(* their intents, an intent [tools, guardrails] its tools and some of them *)
(* a guardrail [params, requiresApproval].                                 *)
ASSUME PolicyAssumption ==
    \A file \in Policies : \A i \in DOMAIN file.intents :
        LET intent == file.intents[i]
        IN  /\ intent.tools \subseteq Tools
            /\ \A t \in DOMAIN intent.guardrails :
                   LET guardrail == intent.guardrails[t]
                   IN  /\ guardrail.requiresApproval \in BOOLEAN
                       /\ \A x \in DOMAIN guardrail.params :
                              guardrail.params[x] \in Constraint

VARIABLES
    policy,    \* the policy file
    phase,     \* "starting", then "serving" or "refused"
    session,   \* the grant of the session, with the header that asked for it
    answer     \* a call of the session and its EvaluationResult

vars == <<policy, phase, session, answer>>

Init ==
    /\ policy \in Policies
    /\ phase = "starting"
    /\ session = None
    /\ answer = None

-----------------------------------------------------------------------------
(* Start-up.                                                               *)

(* The Python types of a value that a declared type lists; a bool is an    *)
(* int to isinstance.                                                      *)
Instances(type) ==
    CASE type = "string" -> {"string"}
      [] type = "integer" -> {"int", "bool"}
      [] type = "number" -> {"int", "bool", "float"}
      [] type = "boolean" -> {"bool"}

(* Mutant: True passes for an integer.                                     *)
ListedValueLoadsLoosely(v, type) == TypeOf[v] \in Instances(type)

ListedValueLoads(v, type) ==
    /\ type \in {"integer", "number"} => TypeOf[v] # "bool"
    /\ TypeOf[v] \in Instances(type)

AllowedValuesLoad(c) ==
    c.allowed # None =>
        /\ c.allowed # {}
        /\ IF c.type = None
           THEN \A v, w \in c.allowed : TypeOf[v] = TypeOf[w]
           ELSE \A v \in c.allowed : ListedValueLoads(v, c.type)

ConstraintLoads(c) ==
    /\ c.type \notin {None, "string"} => c.pattern = None /\ c.maxLength = None
    /\ AllowedValuesLoad(c)
    /\ c.pattern # None => c.maxLength # None /\ c.pattern \notin RefusedPatterns
    /\ c.maxLength # None => c.maxLength <= MaxLength

IntentLoads(i) ==
    /\ i.tools # {}
    /\ DOMAIN i.guardrails \subseteq i.tools
    /\ \A t \in DOMAIN i.guardrails : \A p \in DOMAIN i.guardrails[t].params :
          ConstraintLoads(i.guardrails[t].params[p])

PolicyLoads ==
    /\ \A i \in DOMAIN policy.intents : IntentLoads(policy.intents[i])
    /\ \A a \in DOMAIN policy.agents : policy.agents[a] \subseteq DOMAIN policy.intents

Start ==
    /\ phase = "starting"
    /\ phase' = IF PolicyLoads THEN "serving" ELSE "refused"
    /\ UNCHANGED <<policy, session, answer>>

-----------------------------------------------------------------------------
(* The handshake.                                                          *)

(* header is the set of names between the commas, or None without header.  *)
ParseRequestedTools(header) == IF header = {} THEN None ELSE header

(* Mutant: what is requested is granted.                                   *)
CapsAsRequested(intent, requested) ==
    IF requested = None THEN policy.intents[intent].tools ELSE requested

Caps(intent, requested) ==
    IF requested = None
    THEN policy.intents[intent].tools
    ELSE requested \cap policy.intents[intent].tools

(* Mutant: nothing may be left of what is requested.                       *)
EvaluateGrantOfNothing(agent, intent, header) ==
    /\ agent \in DOMAIN policy.agents
    /\ intent \in DOMAIN policy.intents
    /\ intent \in policy.agents[agent]
    /\ session' = [agent |-> agent, intent |-> intent, header |-> header,
                   caps |-> Caps(intent, ParseRequestedTools(header)),
                   guardrails |-> policy.intents[intent].guardrails]

(* evaluate_grant raises, and there is no session, unless the agent may    *)
(* use the intent and something is left to grant.                          *)
EvaluateGrant(agent, intent, header) ==
    /\ agent \in DOMAIN policy.agents
    /\ intent \in DOMAIN policy.intents
    /\ intent \in policy.agents[agent]
    /\ Caps(intent, ParseRequestedTools(header)) # {}
    /\ session' = [agent |-> agent, intent |-> intent, header |-> header,
                   caps |-> Caps(intent, ParseRequestedTools(header)),
                   guardrails |-> policy.intents[intent].guardrails]

Handshake(agent, intent, header) ==
    /\ phase = "serving"
    /\ session = None
    /\ EvaluateGrant(agent, intent, header)
    /\ UNCHANGED <<policy, phase, answer>>

-----------------------------------------------------------------------------
(* A call.                                                                 *)
ExpectedType(c) ==
    IF c.type # None THEN c.type
    ELSE IF c.maxLength # None \/ c.pattern # None THEN "string" ELSE None

(* The same rule again, in the engine: it has a type table of its own.     *)
HasType(v, type) ==
    CASE type = "string" -> TypeOf[v] = "string"
      [] type = "integer" -> TypeOf[v] # "bool" /\ TypeOf[v] \in {"int", "bool"}
      [] type = "number" -> TypeOf[v] # "bool" /\ TypeOf[v] \in {"int", "bool", "float"}
      [] type = "boolean" -> TypeOf[v] = "bool"

(* One of the listed values is equal and of the same type.                 *)
Listed(c, v) ==
    c.allowed # None => \E w \in c.allowed : w \in EqualTo[v] /\ TypeOf[w] = TypeOf[v]

(* The first complaint of _validate_param_constraint about value v.        *)
Complaint(c, v) ==
    IF c.forbidden THEN "forbidden_param"
    ELSE IF ExpectedType(c) # None /\ ~HasType(v, ExpectedType(c))
         THEN "param_type_mismatch"
    ELSE IF ~Listed(c, v) THEN "param_not_in_allowed_values"
    ELSE IF v \in Strings /\ c.maxLength # None /\ Length[v] > c.maxLength
         THEN "param_too_long"
    ELSE IF v \in Strings /\ c.pattern # None /\ v \notin Matching[c.pattern]
         THEN "param_pattern_mismatch"
    ELSE "none"

(* Parameters are checked in the order of the policy file and the first    *)
(* complaint is raised; the model leaves that order open.                  *)
Complaints(guardrail, args) ==
    {Complaint(guardrail.params[p], args[p]) :
        p \in DOMAIN guardrail.params \cap DOMAIN args} \ {"none"}

Result(status, reason) == [status |-> status, reason |-> reason]

(* Mutant: the need for approval is seen before the parameters are.        *)
ValidateCallApprovalFirst(guardrail, args) ==
    IF guardrail.requiresApproval
    THEN {Result("REQUIRES_APPROVAL", "requires_approval")}
    ELSE IF Complaints(guardrail, args) # {}
    THEN {Result("DENY", r) : r \in Complaints(guardrail, args)}
    ELSE {Result("ALLOW", "none")}

ValidateCall(guardrail, args) ==
    IF Complaints(guardrail, args) # {}
    THEN {Result("DENY", r) : r \in Complaints(guardrail, args)}
    ELSE IF guardrail.requiresApproval
    THEN {Result("REQUIRES_APPROVAL", "requires_approval")}
    ELSE {Result("ALLOW", "none")}

EvaluateCall(caps, guardrails, tool, args) ==
    IF tool \notin caps THEN {Result("DENY", "tool_not_in_caps")}
    ELSE IF tool \in DOMAIN guardrails THEN ValidateCall(guardrails[tool], args)
    ELSE {Result("ALLOW", "none")}

ArgumentSets == UNION {[P -> Values] : P \in SUBSET Params}

(* Bound of the model: one call of a session, as verdicts leave no trace.  *)
Call(tool, args) ==
    /\ session # None
    /\ answer = None
    /\ \E r \in EvaluateCall(session.caps, session.guardrails, tool, args) :
          answer' = [tool |-> tool, args |-> args, result |-> r]
    /\ UNCHANGED <<policy, phase, session>>

-----------------------------------------------------------------------------
Next ==
    \/ Start
    \/ \E a \in Agents, i \in Intents, h \in (SUBSET Tools) \cup {None} : Handshake(a, i, h)
    \/ \E t \in Tools, args \in ArgumentSets : Call(t, args)

Spec == Init /\ [][Next]_vars

-----------------------------------------------------------------------------
(* What a constraint admits, said without the order of the checks.         *)
Admitted(c) ==
    {v \in Values :
        /\ ~c.forbidden
        /\ c.type = "string" => v \in Strings
        /\ c.type = "integer" => TypeOf[v] = "int"
        /\ c.type = "number" => TypeOf[v] \in {"int", "float"}
        /\ c.type = "boolean" => TypeOf[v] = "bool"
        /\ c.maxLength # None => v \in Strings /\ Length[v] <= c.maxLength
        /\ c.pattern # None => v \in Strings /\ v \in Matching[c.pattern]
        /\ c.allowed # None => v \in c.allowed}

IntentOf == policy.intents[session.intent]

Guarded(tool) == tool \in DOMAIN IntentOf.guardrails

Obeyed(tool, args) ==
    Guarded(tool) =>
        LET params == IntentOf.guardrails[tool].params
        IN  \A p \in DOMAIN params \cap DOMAIN args : args[p] \in Admitted(params[p])

TypeOK ==
    /\ phase \in {"starting", "serving", "refused"}
    /\ session # None =>
          /\ phase = "serving"
          /\ session.caps \in (SUBSET Tools) \ {{}}
    /\ answer # None => session # None

(* A call is allowed, or put before an approver, only if the intent lets   *)
(* its tool be used, its arguments obey every constraint, and it needs no  *)
(* approval or exactly needs one.  An approved call is not validated again *)
(* (tools/proxy.py:62-69), so that no approver may be asked for less.      *)
VerdictsRight ==
    answer # None =>
        LET tool == answer.tool
            ok == tool \in session.caps /\ Obeyed(tool, answer.args)
            manual == Guarded(tool) /\ IntentOf.guardrails[tool].requiresApproval
        IN  /\ answer.result.status = "ALLOW" <=> ok /\ ~manual
            /\ answer.result.status = "REQUIRES_APPROVAL" <=> ok /\ manual

(* A session has at most the tools of its intent, and of those only what   *)
(* its header names, when it names any; what it may do with a tool is what *)
(* POST /evaluate, which always grants all of the intent, says of it.      *)
NarrowingOnlyRestricts ==
    session # None =>
        /\ session.intent \in policy.agents[session.agent]
        /\ session.caps \subseteq IntentOf.tools
        /\ session.header \notin {None, {}} => session.caps \subseteq session.header
        /\ (answer # None /\ answer.result.reason # "tool_not_in_caps") =>
               answer.result \in EvaluateCall(IntentOf.tools, IntentOf.guardrails,
                                              answer.tool, answer.args)

(* The loader and the engine agree on types: in a policy that was loaded,  *)
(* a value that a constraint with a type lists is never refused for its    *)
(* type or for not being listed.                                           *)
LoadedListsUsable ==
    phase = "serving" =>
        \A i \in DOMAIN policy.intents : \A t \in DOMAIN policy.intents[i].guardrails :
            LET params == policy.intents[i].guardrails[t].params
            IN  \A p \in DOMAIN params :
                    (params[p].type # None /\ params[p].allowed # None) =>
                        \A v \in params[p].allowed :
                            Complaint(params[p], v) \notin
                                {"param_type_mismatch", "param_not_in_allowed_values"}
=============================================================================

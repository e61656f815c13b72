------------------------- MODULE PolicyEngineProofs -------------------------
(***************************************************************************)
(* Theorems about PolicyEngine: for every policy file, every set of values *)
(* and every header, the verdicts are right and narrowing only restricts.  *)
(***************************************************************************)
EXTENDS PolicyEngine, TLAPS

(* The grant of a session is a function of the file and of the handshake.  *)
GrantInv ==
    session # None =>
        /\ phase = "serving"
        /\ session.agent \in DOMAIN policy.agents
        /\ session.intent \in DOMAIN policy.intents
        /\ session.intent \in policy.agents[session.agent]
        /\ session.header \in (SUBSET Tools) \cup {None}
        /\ session.caps = Caps(session.intent, ParseRequestedTools(session.header))
        /\ session.caps # {}
        /\ session.guardrails = IntentOf.guardrails

(* What was answered is what the engine says under the session's grant.    *)
AnswerInv ==
    answer # None =>
        /\ session # None
        /\ answer.args \in ArgumentSets
        /\ answer.result \in EvaluateCall(session.caps, session.guardrails,
                                          answer.tool, answer.args)

PhaseInv == phase \in {"starting", "serving", "refused"}

ServingInv == phase = "serving" => PolicyLoads

IInv ==
    /\ policy \in Policies
    /\ PhaseInv
    /\ ServingInv
    /\ GrantInv
    /\ AnswerInv

-----------------------------------------------------------------------------
(* Equality and type together single out one value.                        *)
LEMMA ListedLemma ==
    ASSUME NEW c \in Constraint, NEW v \in Values
    PROVE  Listed(c, v) <=> (c.allowed # None => v \in c.allowed)
<1> USE ValueAssumption
<1>1. c.allowed # None => c.allowed \subseteq Values
  BY DEF Constraint
<1>2. ASSUME NEW w \in Values
      PROVE  w \in EqualTo[v] /\ TypeOf[w] = TypeOf[v] <=> w = v
  <2>1. {u \in EqualTo[v] : TypeOf[u] = TypeOf[v]} = {v}
    OBVIOUS
  <2> QED BY <2>1
<1> QED BY <1>1, <1>2 DEF Listed

(* The engine's type rule, with its clause for bools, is the plain one.    *)
LEMMA TypeLemma ==
    ASSUME NEW v \in Values, NEW t \in ParamTypes
    PROVE  HasType(v, t) <=>
               /\ t = "string" => v \in Strings
               /\ t = "integer" => TypeOf[v] = "int"
               /\ t = "number" => TypeOf[v] \in {"int", "float"}
               /\ t = "boolean" => TypeOf[v] = "bool"
  BY DEF HasType, Strings, ParamTypes

(* A constraint that was loaded complains of exactly the values that it    *)
(* does not admit.                                                         *)
LEMMA ComplaintLemma ==
    ASSUME NEW c \in Constraint, NEW v \in Values, ConstraintLoads(c)
    PROVE  Complaint(c, v) = "none" <=> v \in Admitted(c)
<1>1. /\ c.type \in {None} \cup ParamTypes
      /\ c.maxLength \in {None} \cup Nat
      /\ c.forbidden \in BOOLEAN
      /\ Length[v] \in Nat
      /\ None \notin ParamTypes \cup Nat
  BY ValueAssumption DEF Constraint
<1>2. Complaint(c, v) = "none" <=>
          /\ ~c.forbidden
          /\ ExpectedType(c) # None => HasType(v, ExpectedType(c))
          /\ Listed(c, v)
          /\ v \in Strings /\ c.maxLength # None => Length[v] <= c.maxLength
          /\ v \in Strings /\ c.pattern # None => v \in Matching[c.pattern]
  BY <1>1 DEF Complaint
<1>3. Listed(c, v) <=> (c.allowed # None => v \in c.allowed)
  BY ListedLemma
<1>4. CASE c.type = None
  <2>1. ExpectedType(c) # None <=> c.maxLength # None \/ c.pattern # None
    BY <1>1, <1>4 DEF ExpectedType, ParamTypes
  <2>2. ExpectedType(c) # None => (HasType(v, ExpectedType(c)) <=> v \in Strings)
    BY <1>4, TypeLemma DEF ExpectedType, ParamTypes
  <2>3. c.type \notin ParamTypes
    BY <1>1, <1>4
  <2> QED BY <1>2, <1>3, <2>1, <2>2, <2>3 DEF Admitted, ParamTypes
<1>5. CASE c.type = "string"
  <2>1. ExpectedType(c) = "string" /\ "string" # None
    BY <1>1, <1>5 DEF ExpectedType, ParamTypes
  <2>2. HasType(v, "string") <=> v \in Strings
    BY TypeLemma DEF ParamTypes
  <2> QED BY <1>2, <1>3, <1>5, <2>1, <2>2 DEF Admitted
<1>6. CASE c.type \in ParamTypes \ {"string"}
  <2>1. ExpectedType(c) = c.type /\ c.type # None
    BY <1>1, <1>6 DEF ExpectedType
  <2>2. c.pattern = None /\ c.maxLength = None
    BY <1>6, <2>1 DEF ConstraintLoads
  <2>3. HasType(v, c.type) <=>
            /\ c.type = "integer" => TypeOf[v] = "int"
            /\ c.type = "number" => TypeOf[v] \in {"int", "float"}
            /\ c.type = "boolean" => TypeOf[v] = "bool"
    BY <1>6, TypeLemma
  <2> QED BY <1>2, <1>3, <1>6, <2>1, <2>2, <2>3 DEF Admitted
<1> QED BY <1>1, <1>4, <1>5, <1>6

-----------------------------------------------------------------------------
(* What pydantic makes of the intents of a file, and what the validators   *)
(* add to it.                                                              *)
LEMMA PolicyLemma ==
    ASSUME policy \in Policies, NEW i \in DOMAIN policy.intents
    PROVE  /\ policy.intents[i].tools \subseteq Tools
           /\ \A t \in DOMAIN policy.intents[i].guardrails :
                 LET guardrail == policy.intents[i].guardrails[t]
                 IN  /\ guardrail.requiresApproval \in BOOLEAN
                     /\ \A x \in DOMAIN guardrail.params :
                           /\ guardrail.params[x] \in Constraint
                           /\ PolicyLoads => ConstraintLoads(guardrail.params[x])
  BY PolicyAssumption DEF PolicyLoads, IntentLoads

(* Before a policy file is loaded the invariant asks for nothing.          *)
LEMMA InitInv == Init => IInv
  BY DEF Init, IInv, PhaseInv, ServingInv, GrantInv, AnswerInv

(* Loading a file, opening a session and judging a call keep the           *)
(* invariant.                                                              *)
LEMMA NextInv == IInv /\ [Next]_vars => IInv'
<1> SUFFICES ASSUME IInv, [Next]_vars
             PROVE  IInv'
  OBVIOUS
<1> USE DEF IInv
<1>1. CASE Start
  <2>1. session = None /\ answer = None
    BY <1>1 DEF Start, GrantInv, AnswerInv
  <2>2. PhaseInv' /\ GrantInv' /\ AnswerInv' /\ policy' \in Policies
    BY <1>1, <2>1 DEF Start, PhaseInv, GrantInv, AnswerInv
  <2>3. ServingInv'
    BY <1>1 DEF Start, ServingInv, PolicyLoads
  <2> QED BY <2>2, <2>3
<1>2. ASSUME NEW a \in Agents, NEW i \in Intents, NEW h \in (SUBSET Tools) \cup {None},
             Handshake(a, i, h)
      PROVE  IInv'
  <2>1. answer' = None
    BY <1>2 DEF Handshake, AnswerInv
  <2>2. GrantInv'
    BY <1>2 DEF Handshake, EvaluateGrant, GrantInv, Caps, ParseRequestedTools, IntentOf
  <2>3. PhaseInv' /\ ServingInv' /\ policy' \in Policies
    BY <1>2 DEF Handshake, PhaseInv, ServingInv, PolicyLoads
  <2> QED BY <2>1, <2>2, <2>3 DEF AnswerInv
<1>3. ASSUME NEW t \in Tools, NEW args \in ArgumentSets, Call(t, args)
      PROVE  IInv'
  <2>1. PhaseInv' /\ ServingInv' /\ GrantInv' /\ policy' \in Policies
    BY <1>3 DEF Call, PhaseInv, ServingInv, PolicyLoads, GrantInv, Caps, IntentOf
  <2>2. AnswerInv'
    BY <1>3 DEF Call, AnswerInv
  <2> QED BY <2>1, <2>2
<1>4. CASE UNCHANGED vars
  BY <1>4 DEF vars, PhaseInv, ServingInv, PolicyLoads, GrantInv, AnswerInv, Caps, IntentOf
<1> QED BY <1>1, <1>2, <1>3, <1>4 DEF Next

(* The invariant holds in every state the engine reaches.                  *)
LEMMA Inductive == Spec => []IInv
  BY InitInv, NextInv, PTL DEF Spec

(* A session has what its intent allows, or the part of it that the header *)
(* names.                                                                  *)
LEMMA CapsLemma ==
    ASSUME IInv, session # None
    PROVE  /\ session.caps \subseteq IntentOf.tools
           /\ session.header \notin {None, {}} => session.caps \subseteq session.header
           /\ IntentOf.tools \subseteq Tools
<1>1. policy \in Policies /\ session.intent \in DOMAIN policy.intents
  BY DEF IInv, GrantInv
<1>2. IntentOf.tools \subseteq Tools
  BY <1>1, PolicyLemma DEF IntentOf
<1>3. session.caps = Caps(session.intent, ParseRequestedTools(session.header))
  BY DEF IInv, GrantInv
<1> QED BY <1>2, <1>3 DEF Caps, ParseRequestedTools, IntentOf

-----------------------------------------------------------------------------
(* Sessions exist only while the gateway serves, with a non-empty set of   *)
(* tools (auth/handshake.py, policy/engine.py).                            *)
THEOREM TypeCorrect == Spec => []TypeOK
<1>1. IInv => TypeOK
  <2> SUFFICES ASSUME IInv PROVE TypeOK
    OBVIOUS
  <2>1. session # None => session.caps \in (SUBSET Tools) \ {{}}
    BY CapsLemma DEF IInv, GrantInv
  <2> QED BY <2>1 DEF TypeOK, IInv, PhaseInv, GrantInv, AnswerInv
<1> QED BY <1>1, Inductive, PTL

(* Narrowing by X-MCP-Requested-Tools takes tools away and changes no      *)
(* other verdict (evaluate_grant, evaluate_call).                          *)
THEOREM NarrowingSound == Spec => []NarrowingOnlyRestricts
<1>1. IInv => NarrowingOnlyRestricts
  <2> SUFFICES ASSUME IInv, session # None PROVE NarrowingOnlyRestricts
    BY DEF NarrowingOnlyRestricts
  <2>1. ASSUME answer # None, answer.result.reason # "tool_not_in_caps"
        PROVE  answer.result \in EvaluateCall(IntentOf.tools, IntentOf.guardrails,
                                              answer.tool, answer.args)
    <3>1. answer.result \in EvaluateCall(session.caps, IntentOf.guardrails,
                                         answer.tool, answer.args)
      BY <2>1 DEF IInv, AnswerInv, GrantInv
    <3>2. answer.tool \in session.caps
      BY <2>1, <3>1 DEF EvaluateCall, Result
    <3>3. answer.tool \in IntentOf.tools
      BY <3>2, CapsLemma
    <3> QED BY <3>1, <3>2, <3>3 DEF EvaluateCall
  <2>2. session.intent \in policy.agents[session.agent]
    BY DEF IInv, GrantInv
  <2> QED BY <2>1, <2>2, CapsLemma DEF NarrowingOnlyRestricts
<1> QED BY <1>1, Inductive, PTL

(* The engine allows, or passes on to an approver, exactly the calls whose *)
(* tool the session may use and whose arguments obey every constraint,     *)
(* whatever the file, the values and the order of the checks.              *)
THEOREM VerdictsCorrect == Spec => []VerdictsRight
<1>1. IInv => VerdictsRight
  <2> SUFFICES ASSUME IInv, answer # None PROVE VerdictsRight
    BY DEF VerdictsRight
  <2> DEFINE tool == answer.tool
             args == answer.args
             guardrail == IntentOf.guardrails[tool]
  <2>1. /\ session # None
        /\ args \in ArgumentSets
        /\ answer.result \in EvaluateCall(session.caps, IntentOf.guardrails, tool, args)
    BY DEF IInv, AnswerInv, GrantInv
  <2>2. /\ policy \in Policies
        /\ session.intent \in DOMAIN policy.intents
        /\ PolicyLoads
    BY <2>1 DEF IInv, GrantInv, ServingInv
  <2>3. ASSUME tool \in DOMAIN IntentOf.guardrails
        PROVE  Complaints(guardrail, args) = {} <=> Obeyed(tool, args)
    <3>1. \A x \in DOMAIN guardrail.params :
              /\ guardrail.params[x] \in Constraint
              /\ ConstraintLoads(guardrail.params[x])
      BY <2>2, <2>3, PolicyLemma DEF IntentOf
    <3>2. \A x \in DOMAIN args : args[x] \in Values
      BY <2>1 DEF ArgumentSets
    <3>3. \A x \in DOMAIN guardrail.params \cap DOMAIN args :
              Complaint(guardrail.params[x], args[x]) = "none"
                  <=> args[x] \in Admitted(guardrail.params[x])
      BY <3>1, <3>2, ComplaintLemma
    <3>4. Complaints(guardrail, args) = {} <=>
              \A x \in DOMAIN guardrail.params \cap DOMAIN args :
                  Complaint(guardrail.params[x], args[x]) = "none"
      BY DEF Complaints
    <3> QED BY <2>3, <3>3, <3>4 DEF Obeyed, Guarded
  <2>4. CASE tool \notin session.caps
    BY <2>1, <2>4 DEF EvaluateCall, Result, VerdictsRight
  <2>5. CASE tool \in session.caps /\ ~Guarded(tool)
    BY <2>1, <2>5 DEF EvaluateCall, Result, VerdictsRight, Guarded, Obeyed
  <2>6. CASE tool \in session.caps /\ Guarded(tool)
    <3>1. answer.result \in ValidateCall(guardrail, args)
      BY <2>1, <2>6 DEF EvaluateCall, Guarded
    <3>2. guardrail.requiresApproval \in BOOLEAN
      BY <2>2, <2>6, PolicyLemma DEF IntentOf, Guarded
    <3>3. answer.result.status = "ALLOW" <=>
              Complaints(guardrail, args) = {} /\ ~guardrail.requiresApproval
      BY <3>1, <3>2 DEF ValidateCall, Result
    <3>4. answer.result.status = "REQUIRES_APPROVAL" <=>
              Complaints(guardrail, args) = {} /\ guardrail.requiresApproval
      BY <3>1, <3>2 DEF ValidateCall, Result
    <3> QED BY <2>3, <2>6, <3>3, <3>4 DEF VerdictsRight, Guarded
  <2> QED BY <2>4, <2>5, <2>6
<1> QED BY <1>1, Inductive, PTL

(* The loader's type table (models.py) and the engine's (engine.py) agree: *)
(* a value that a loaded policy lists is never refused for its type.       *)
THEOREM ListsUsable == Spec => []LoadedListsUsable
<1>1. IInv => LoadedListsUsable
  <2> SUFFICES ASSUME IInv, phase = "serving",
                      NEW i \in DOMAIN policy.intents,
                      NEW t \in DOMAIN policy.intents[i].guardrails,
                      NEW x \in DOMAIN policy.intents[i].guardrails[t].params,
                      policy.intents[i].guardrails[t].params[x].type # None,
                      policy.intents[i].guardrails[t].params[x].allowed # None,
                      NEW v \in policy.intents[i].guardrails[t].params[x].allowed
               PROVE  Complaint(policy.intents[i].guardrails[t].params[x], v) \notin
                          {"param_type_mismatch", "param_not_in_allowed_values"}
    BY DEF LoadedListsUsable
  <2> DEFINE c == policy.intents[i].guardrails[t].params[x]
  <2>1. c \in Constraint /\ ConstraintLoads(c)
    BY PolicyLemma DEF IInv, ServingInv
  <2>2. v \in Values /\ c.type \in ParamTypes
    BY <2>1 DEF Constraint
  <2>3. HasType(v, c.type)
    BY <2>1, <2>2, TypeLemma, ValueAssumption
       DEF ConstraintLoads, AllowedValuesLoad, ListedValueLoads, Instances, ParamTypes, Strings
  <2>4. ExpectedType(c) = c.type /\ Listed(c, v)
    BY <2>1, <2>2, ListedLemma DEF ExpectedType
  <2> HIDE DEF c
  <2> QED BY <2>3, <2>4 DEF Complaint, c
<1> QED BY <1>1, Inductive, PTL
=============================================================================

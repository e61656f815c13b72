------------------------- MODULE GatewayCallsProofs -------------------------
(***************************************************************************)
(* Proofs about GatewayCalls, for any calls, sessions, agents, approvers,  *)
(* times and sizes of the table, in every mode.  Every step is one of each *)
(* registry or leaves it alone, so that their own invariants hold in here; *)
(* CallInv says what lies between them and the handlers.                   *)
(***************************************************************************)
EXTENDS GatewayCalls, TLAPS

(* What is proved of the two registries alone is used of those in here.    *)
P == INSTANCE ApprovalRegistryProofs
S == INSTANCE SessionRegistryProofs

PhasesOfCall == {"new", "body", "approval", "upstream", "done", "cancelled"}

Call == [pc : PhasesOfCall, session : Sessions \cup {None},
         verdict : {None, "ALLOW", "REQUIRES_APPROVAL"}, id : Nat,
         response : Responses \cup {None}]

CallType ==
    /\ mode \in Modes
    /\ call \in [Calls -> Call]
    /\ runs \in [Calls -> 0 .. 1]

(* Where a handler is tells what it has done so far.                       *)
HandlerInv ==
    \A c \in Calls :
        /\ call[c].pc \in {"new", "body"} => call[c].verdict = None /\ runs[c] = 0
        /\ call[c].pc \in {"body", "approval"} => call[c].session \in created
        /\ call[c].pc # "done" => call[c].response = None
        /\ At(c, "approval") => runs[c] = 0
        /\ At(c, "upstream") => runs[c] = 1

(* A call asks if and only if it has an approval, which is its own; in the *)
(* blocking mode the handler is at the wait as long as the wait lasts.     *)
AskInv ==
    \A c \in Calls :
        LET id == call[c].id IN
        /\ At(c, "approval") => mode = "blocking" /\ id # 0
        /\ id # 0 <=> call[c].verdict = "REQUIRES_APPROVAL"
        /\ id # 0 =>
              /\ id \in Approvals!Ids
              /\ entry[id].session = call[c].session
              /\ \A d \in Calls \ {c} : call[d].id # id
              /\ mode = "blocking" =>
                    waiter[id] \in IF At(c, "approval") THEN Approvals!Suspended
                                                        ELSE Approvals!Ended
              /\ runs[c] > 0 => mode = "blocking" /\ entry[id].decision = "APPROVED"

(* What is open in the table was decided by an accepted POST /approvals or *)
(* not at all, and in the blocking mode a handler waits for it.            *)
TableInv ==
    \A id \in pending :
        /\ entry[id].decision # "EVICTED"
        /\ mode = "blocking" => \E c \in Calls : At(c, "approval") /\ call[c].id = id

(* The four-eyes rule, of every approval that was decided.                 *)
FourEyes ==
    \A id \in Approvals!Ids :
        /\ entry[id].requester = AgentOf[entry[id].session]
        /\ entry[id].decision \in Approvals!Resolutions =>
              /\ id \in DOMAIN resolver
              /\ resolver[id] # entry[id].requester
              /\ Approvers # {} => resolver[id] \in Approvers

(* What is told of a decision or of a session stays true.                  *)
AnswerInv ==
    \A c \in Calls :
        /\ call[c].response \in {"approval_timeout", "approval_rejected"} =>
              mode = "blocking" /\ call[c].id # 0
        /\ call[c].response = "session_expired" => call[c].session \in created

CallInv ==
    /\ CallType
    /\ HandlerInv
    /\ AskInv
    /\ TableInv
    /\ FourEyes
    /\ AnswerInv
    /\ TruthfulAnswers

Inv == P!IInv /\ S!SessionInv /\ CallInv

-----------------------------------------------------------------------------
(* Two instances of a registry, the one that GatewayCalls composes and the *)
(* one its theorems come from, have the same steps and the same start.     *)
LEMMA SameRegistry == Approvals!Next <=> P!Next
BY DEF Approvals!Cardinality, P!Cardinality, Approvals!Next, P!Next,
       Approvals!Register, P!Register,
       Approvals!RegisterAndWait, P!RegisterAndWait,
       Approvals!CancelSession, P!CancelSession,
       Approvals!WaiterStep, P!WaiterStep, Approvals!Resolve, P!Resolve,
       Approvals!Enter, P!Enter, Approvals!Full, P!Full, Approvals!End, P!End,
       Approvals!Remember, P!Remember, Approvals!AddToHistory, P!AddToHistory,
       Approvals!ReturnDecision, P!ReturnDecision,
       Approvals!ReturnTimeout, P!ReturnTimeout,
       Approvals!RaiseCancelled, P!RaiseCancelled,
       Approvals!WaitWithoutEntry, P!WaitWithoutEntry,
       Approvals!WaitDecided, P!WaitDecided,
       Approvals!WaitSuspends, P!WaitSuspends, Approvals!Resume, P!Resume,
       Approvals!TimerFires, P!TimerFires, Approvals!CancelTask, P!CancelTask,
       Approvals!ResolveOutcome, P!ResolveOutcome, Approvals!Open, P!Open,
       Approvals!InOrder, P!InOrder, Approvals!Ids, P!Ids,
       Approvals!NoDecision, P!NoDecision,
       Approvals!Resolutions, P!Resolutions, Approvals!Decisions, P!Decisions,
       Approvals!Range, P!Range

(* The same for the actions of the session registry.                       *)
LEMMA SameSessions == SessionReg!Next <=> S!Next
BY DEF SessionReg!Next, S!Next, SessionReg!Tick, S!Tick,
       SessionReg!Purge, S!Purge, SessionReg!Create, S!Create,
       SessionReg!Lookup, S!Lookup, SessionReg!Unknown, S!Unknown,
       SessionReg!FindExpired, S!FindExpired, SessionReg!Refresh, S!Refresh,
       SessionReg!Expired, S!Expired, SessionReg!LastActivity, S!LastActivity,
       SessionReg!Live, S!Live, SessionReg!Evict, S!Evict,
       SessionReg!sessionVars, S!sessionVars, SessionReg!Touch, S!Touch,
       SessionReg!Remove, S!Remove, SessionReg!RunHook, S!RunHook,
       SessionReg!Restrict, S!Restrict

(* What every step of the approval registry keeps.                         *)
LEMMA RegistryStep == P!IInv /\ [Approvals!Next]_approvalVars => P!IInv'
<1>1. P!RegistryAssumption
  BY CallsAssumption DEF P!RegistryAssumption
<1>2. UNCHANGED approvalVars <=> UNCHANGED P!vars
  BY DEF approvalVars, P!vars
<1> QED  BY <1>1, <1>2, SameRegistry, P!NextIInv

(* What every step of the session registry keeps.                          *)
LEMMA SessionStep == S!SessionInv /\ [SessionReg!Next]_sessionVars => S!SessionInv'
<1>1. S!SessionAssumption
  BY CallsAssumption DEF S!SessionAssumption
<1>2. UNCHANGED sessionVars <=> UNCHANGED S!sessionVars
  BY DEF sessionVars, S!sessionVars
<1> QED  BY <1>1, <1>2, SameSessions, S!NextSession

-----------------------------------------------------------------------------
(* What the theorems of the approval registry say, in this module's words. *)
LEMMA RegistryFacts ==
    ASSUME P!IInv
    PROVE  /\ count \in Nat
           /\ Approvals!Ids = 1 .. count
           /\ entry \in [Approvals!Ids -> Approvals!Entry]
           /\ waiter \in [Approvals!Ids -> Approvals!Phases]
           /\ answer \in [Approvals!Ids -> Approvals!Decisions \cup {Approvals!NoDecision}]
           /\ pending \subseteq Approvals!Ids
           /\ \A id \in pending : waiter[id] \notin Approvals!Ended
           /\ \A id \in Approvals!Ids :
                 /\ entry[id].event <=> entry[id].decision # Approvals!NoDecision
                 /\ waiter[id] = "returned" =>
                       /\ entry[id].decision \in Approvals!Resolutions =>
                             answer[id] = entry[id].decision
                       /\ answer[id] = "APPROVED" => entry[id].decision = "APPROVED"
<1>1. count \in Nat
  BY CallsAssumption DEF P!IInv, P!TypeOK
<1>2. /\ Approvals!Ids = P!Ids
      /\ Approvals!Entry = P!Entry
      /\ Approvals!Phases = P!Phases
      /\ Approvals!Ended = P!Ended
      /\ Approvals!Decisions = P!Decisions
      /\ Approvals!NoDecision = P!NoDecision
      /\ Approvals!Resolutions = P!Resolutions
  BY DEF Approvals!Ids, P!Ids, Approvals!Entry, P!Entry, Approvals!Phases, P!Phases,
         Approvals!Ended, P!Ended, Approvals!Decisions, P!Decisions, Approvals!NoDecision,
         P!NoDecision, Approvals!Resolutions, P!Resolutions, Approvals!Suspended, P!Suspended
<1> QED
  BY <1>1, <1>2 DEF P!IInv, P!TypeOK, P!TableHoldsOnlyOpen, P!NoLostWakeup,
                    P!AcceptedDecisionReturned, P!Ids

(* What the theorems of the session registry say.                          *)
LEMMA SessionFacts ==
    ASSUME S!SessionInv
    PROVE  /\ clock \in Nat
           /\ SessionReg!Live \subseteq created
           /\ created \subseteq Sessions
           /\ hooks \in [Sessions -> Nat]
           /\ \A s \in SessionReg!Live : evictions[s] = 0
BY DEF S!SessionInv, S!EvictedOnce, S!Live, SessionReg!Live

(* wait_for_decision ends: the approval leaves the table, decided or not.  *)
LEMMA ResumeEffect ==
    ASSUME P!IInv, P!IInv', NEW id \in Approvals!Ids, Approvals!Resume(id)
    PROVE  /\ UNCHANGED <<count, entry>>
           /\ pending' = pending \ {id}
           /\ waiter[id] \in Approvals!Suspended
           /\ waiter' = [waiter EXCEPT ![id] =
                            IF waiter[id] = "cancelled" THEN "raised" ELSE "returned"]
           /\ waiter[id] # "cancelled" =>
                 /\ answer'[id] = "APPROVED" => entry[id].decision = "APPROVED"
                 /\ answer'[id] = "TIMEOUT" =>
                       entry[id].decision \in {Approvals!NoDecision, "EVICTED"}
                 /\ answer'[id] \notin {"APPROVED", "TIMEOUT"} =>
                       entry[id].decision \in {"REJECTED", "EVICTED"}
<1> USE DEF Approvals!NoDecision, Approvals!Resolutions, Approvals!Decisions
<1>1. /\ waiter \in [Approvals!Ids -> Approvals!Phases]
      /\ answer \in [Approvals!Ids -> Approvals!Decisions \cup {Approvals!NoDecision}]
      /\ entry[id].decision \in {"none", "APPROVED", "REJECTED", "EVICTED"}
  BY RegistryFacts DEF Approvals!Entry
<1>2. waiter[id] \in Approvals!Suspended
  BY DEF Approvals!Resume, Approvals!Suspended
<1>3. PICK phase, d :
         /\ phase = IF waiter[id] = "cancelled" THEN "raised" ELSE "returned"
         /\ Approvals!End(id, phase, d)
         /\ waiter[id] # "cancelled" =>
               d = "TIMEOUT" \/ (d = entry[id].decision /\ d # Approvals!NoDecision)
  <2>1. CASE waiter[id] = "waiting"
    BY <2>1 DEF Approvals!Resume, Approvals!ReturnDecision
  <2>2. CASE waiter[id] = "timedOut"
    BY <2>2 DEF Approvals!Resume, Approvals!ReturnTimeout
  <2>3. CASE waiter[id] = "cancelled"
    BY <2>3 DEF Approvals!Resume, Approvals!RaiseCancelled
  <2> QED  BY <1>2, <2>1, <2>2, <2>3 DEF Approvals!Suspended
<1>4. /\ UNCHANGED <<count, entry>>
      /\ pending' = pending \ {id}
      /\ waiter' = [waiter EXCEPT ![id] = phase]
      /\ answer'[id] = d
  BY <1>1, <1>3 DEF Approvals!End
<1>5. ASSUME waiter[id] # "cancelled"
      PROVE  /\ answer'[id] = "APPROVED" => entry[id].decision = "APPROVED"
             /\ answer'[id] = "TIMEOUT" => entry[id].decision \in {"none", "EVICTED"}
             /\ answer'[id] \notin {"APPROVED", "TIMEOUT"} =>
                   entry[id].decision \in {"REJECTED", "EVICTED"}
  <2>1. /\ Approvals!Ids' = Approvals!Ids
        /\ waiter'[id] = "returned"
    BY <1>1, <1>3, <1>4, <1>5 DEF Approvals!Ids
  <2>2. /\ entry'[id].decision \in Approvals!Resolutions => answer'[id] = entry'[id].decision
        /\ answer'[id] = "APPROVED" => entry'[id].decision = "APPROVED"
    BY <2>1 DEF P!IInv, P!AcceptedDecisionReturned, P!Resolutions, P!Ids, Approvals!Ids
  <2> QED  BY <1>1, <1>3, <1>4, <1>5, <2>2
<1> QED  BY <1>2, <1>3, <1>4, <1>5

-----------------------------------------------------------------------------
(* The handlers, the hook and the environment use the two registries only  *)
(* as these are described on their own.                                    *)
LEMMA StepOfRegistries ==
    Inv /\ [Next]_vars => /\ [Approvals!Next]_approvalVars
                          /\ [SessionReg!Next]_sessionVars
<1> SUFFICES ASSUME Inv, [Next]_vars
             PROVE  /\ [Approvals!Next]_approvalVars
                    /\ [SessionReg!Next]_sessionVars
  OBVIOUS
<1> DEFINE Goal == /\ [Approvals!Next]_approvalVars
                   /\ [SessionReg!Next]_sessionVars
<1>1. ASSUME NEW s \in Sessions,
             \/ SessionReg!Lookup(s)
             \/ SessionReg!RunHook(s)
             \/ SessionReg!Create(s)
             \/ SessionReg!Tick
      PROVE  SessionReg!Next
  BY <1>1 DEF SessionReg!Next
<1>2. ASSUME NEW id \in Approvals!Ids,
             \/ Approvals!Resume(id)
             \/ Approvals!TimerFires(id)
             \/ Approvals!CancelTask(id)
      PROVE  Approvals!Next
  BY <1>2 DEF Approvals!Next, Approvals!WaiterStep
<1>3. ASSUME NEW s \in Sessions,
             \/ Approvals!Register(s)
             \/ Approvals!RegisterAndWait(s)
             \/ Approvals!CancelSession(s)
      PROVE  Approvals!Next
  BY <1>3 DEF Approvals!Next
<1>4. ASSUME NEW c \in Calls, HandlerStep(c) PROVE Goal
  <2>1. /\ call[c].pc \in {"body", "approval"} => call[c].session \in Sessions
        /\ At(c, "approval") => call[c].id \in Approvals!Ids
    BY SessionFacts DEF Inv, CallInv, HandlerInv, AskInv
  <2>2. CASE \E s \in Sessions : Receive(c, s)
    BY <2>2, <1>1 DEF Receive
  <2>3. CASE TurnDown(c) \/ CallAllowed(c) \/ AnswerUnregistered(c) \/ UpstreamReturns(c)
             \/ Abandon(c)
    BY <2>3 DEF TurnDown, CallAllowed, AnswerUnregistered, UpstreamReturns, Abandon
  <2>4. CASE AskAndWait(c) \/ AskAndAnswer(c)
    BY <2>1, <2>4, <1>3 DEF AskAndWait, AskAndAnswer, At
  <2>5. CASE Decided(c)
    BY <2>1, <2>5, <1>1, <1>2 DEF Decided, At
  <2>6. CASE AbandonWait(c) \/ FinishAbandoned(c) \/ ApprovalTimer(c)
    BY <2>1, <2>6, <1>2 DEF AbandonWait, FinishAbandoned, ApprovalTimer
  <2> QED  BY <1>4, <2>2, <2>3, <2>4, <2>5, <2>6 DEF HandlerStep
<1>5. ASSUME NEW a \in Agents, NEW id \in Approvals!Ids, NEW status \in Approvals!Resolutions,
             HandleApproval(a, id, status)
      PROVE  Goal
  <2>1. status \in Approvals!Decisions
    BY DEF Approvals!Resolutions, Approvals!Decisions
  <2> QED  BY <1>5, <2>1 DEF HandleApproval, Approvals!Next
<1>6. ASSUME NEW s \in Sessions, OnSessionEvicted(s) PROVE Goal
  BY <1>1, <1>3, <1>6 DEF OnSessionEvicted
<1>7. CASE Environment
  BY <1>7 DEF Environment, SessionReg!Next
<1>8. CASE UNCHANGED vars
  BY <1>8 DEF vars
<1> QED  BY <1>4, <1>5, <1>6, <1>7, <1>8 DEF Next

(* Hence their own invariants are kept.                                    *)
LEMMA RegistriesKept == Inv /\ [Next]_vars => P!IInv' /\ S!SessionInv'
BY StepOfRegistries, RegistryStep, SessionStep DEF Inv

(* A look-up evicts at most, and takes no hook from those that wait.       *)
LEMMA LookupEffect ==
    ASSUME S!SessionInv, NEW s, SessionReg!Lookup(s) \/ SessionReg!Evict(s)
    PROVE  /\ created' = created
           /\ SessionReg!Live' \subseteq SessionReg!Live
           /\ \A i \in Sessions : ~(hooks'[i] < hooks[i])
<1>1. hooks \in [Sessions -> Nat]
  BY SessionFacts
<1> QED  BY <1>1 DEF SessionReg!Live, SessionReg!Lookup, SessionReg!Unknown, SessionReg!FindExpired,
    SessionReg!Refresh, SessionReg!Evict, SessionReg!Restrict, SessionReg!sessionVars

(* No session id is used twice: one that has left the registry stays out.  *)
LEMMA SessionEffect ==
    ASSUME S!SessionInv, [SessionReg!Next]_sessionVars
    PROVE  /\ created \subseteq created'
           /\ \A s \in created \ SessionReg!Live : s \notin SessionReg!Live'
<1>1. ASSUME NEW s, SessionReg!Lookup(s) \/ SessionReg!Evict(s)
      PROVE  created' = created /\ SessionReg!Live' \subseteq SessionReg!Live
  BY <1>1, LookupEffect
<1>2. CASE SessionReg!Purge
  <2>1. PICK T : SessionReg!Evict(T)
    BY <1>2 DEF SessionReg!Purge
  <2> QED  BY <1>1, <2>1
<1>3. CASE \E s \in Sessions : SessionReg!Remove(s)
  <2>1. PICK T : SessionReg!Evict(T)
    BY <1>3 DEF SessionReg!Remove
  <2> QED  BY <1>1, <2>1
<1>4. CASE \E s \in Sessions : SessionReg!Lookup(s) \/ SessionReg!Touch(s)
  <2>1. PICK s \in Sessions : SessionReg!Lookup(s)
    BY <1>4 DEF SessionReg!Touch
  <2>2. created' = created /\ SessionReg!Live' \subseteq SessionReg!Live
    BY <1>1, <2>1
  <2> QED  BY <2>2
<1>5. CASE \E s \in Sessions : SessionReg!Create(s)
  <2>1. PICK s \in Sessions : SessionReg!Create(s)
    BY <1>5
  <2>2. /\ created' = created \cup {s}
        /\ SessionReg!Live' = SessionReg!Live \cup {s}
        /\ s \notin created
    BY <2>1 DEF SessionReg!Create, SessionReg!Live
  <2> QED  BY <2>2
<1>6. CASE \/ SessionReg!Tick
           \/ \E s \in Sessions : SessionReg!RunHook(s)
           \/ UNCHANGED sessionVars
  BY <1>6 DEF SessionReg!Tick, SessionReg!RunHook, SessionReg!Live, sessionVars
<1> QED  BY <1>2, <1>3, <1>4, <1>5, <1>6 DEF SessionReg!Next

-----------------------------------------------------------------------------
(* What a request says of itself in a state where Inv holds.               *)
LEMMA CallFacts ==
    ASSUME Inv, NEW c \in Calls
    PROVE  /\ call[c] \in Call
           /\ runs[c] \in 0 .. 1
           /\ call[c].id # 0 => call[c].id \in Approvals!Ids
           /\ At(c, "approval") => call[c].id \in Approvals!Ids
           /\ SessionReg!Live \subseteq created
           /\ created \subseteq Sessions
           /\ pending \subseteq Approvals!Ids
BY SessionFacts, RegistryFacts DEF Inv, CallInv, CallType, AskInv

(* What a handler that goes on, or ends, without the approval registry     *)
(* makes of its request.                                                   *)
HandlerAlone(c) ==
    \/ \E s \in Sessions : Receive(c, s)
    \/ TurnDown(c)
    \/ CallAllowed(c)
    \/ AnswerUnregistered(c)
    \/ UpstreamReturns(c)
    \/ Abandon(c)

(* It leaves the approvals and the other requests alone, and a request     *)
(* that has an approval keeps its session, its verdict and its runs.       *)
LEMMA HandlerAloneEffect ==
    ASSUME Inv, NEW c \in Calls, HandlerAlone(c)
    PROVE  /\ UNCHANGED <<approvalVars, mode, resolver>>
           /\ \A d \in Calls \ {c} : call'[d] = call[d] /\ runs'[d] = runs[d]
           /\ call' \in [Calls -> Call]
           /\ runs' \in [Calls -> 0 .. 1]
           /\ runs[c] <= runs'[c]
           /\ call[c].pc \in {"new", "body", "upstream"}
           /\ call'[c].pc \in {"body", "upstream", "done", "cancelled"}
           /\ call'[c].id = call[c].id
           /\ call[c].id # 0 => /\ call'[c].session = call[c].session
                                /\ call'[c].verdict = call[c].verdict
                                /\ runs'[c] = runs[c]
           /\ call'[c].verdict = "REQUIRES_APPROVAL" => call[c].verdict = "REQUIRES_APPROVAL"
           /\ call'[c].pc = "body" => /\ call'[c].session \in SessionReg!Live
                                      /\ call'[c].verdict = None
                                      /\ runs'[c] = 0
           /\ call'[c].pc # "done" => call'[c].response = None
           /\ call'[c].pc = "upstream" => runs'[c] = 1
           /\ call'[c].response \in {"result", "upstream_error", "result_withheld"} =>
                 runs'[c] = 1
           /\ call'[c].response \notin {None, "result", "upstream_error", "result_withheld"} =>
                 runs'[c] = 0
           /\ call'[c].response \notin {"approval_timeout", "approval_rejected",
                                        "session_expired"}
<1> USE DEF At, Answer, Call, PhasesOfCall, Responses, None
<1>1. /\ call \in [Calls -> Call]
      /\ runs \in [Calls -> 0 .. 1]
      /\ call[c].id # 0 <=> call[c].verdict = "REQUIRES_APPROVAL"
      /\ call[c].pc \in {"new", "body"} => call[c].verdict = None /\ runs[c] = 0
      /\ call[c].pc # "done" => call[c].response = None
      /\ At(c, "upstream") => runs[c] = 1
  BY DEF Inv, CallInv, CallType, HandlerInv, AskInv
<1>2. CASE \E s \in Sessions : Receive(c, s)
  <2>1. PICK s \in Sessions : Receive(c, s)
    BY <1>2
  <2>2. CASE SessionReg!Found(s)
    <3>1. /\ call' = [call EXCEPT ![c].pc = "body", ![c].session = s]
          /\ UNCHANGED <<approvalVars, mode, runs, resolver>>
          /\ call[c].pc = "new"
          /\ s \in SessionReg!Live
      BY <2>1, <2>2 DEF Receive, SessionReg!Found
    <3> DEFINE new == [call[c] EXCEPT !.pc = "body", !.session = s]
    <3>2. new \in Call
      BY <1>1
    <3>3. call' = [call EXCEPT ![c] = new]
      BY <1>1, <3>1
    <3>4. /\ call'[c] = new
          /\ \A d \in Calls \ {c} : call'[d] = call[d]
          /\ call' \in [Calls -> Call]
      <4> HIDE DEF new
      <4> QED  BY <1>1, <3>2, <3>3
    <3>5. /\ call'[c].pc = "body"
          /\ call'[c].session = s
          /\ \A field \in {"verdict", "id", "response"} : call'[c][field] = call[c][field]
      BY <1>1, <3>4
    <3> QED  BY <1>1, <3>1, <3>4, <3>5
  <2>3. CASE ~SessionReg!Found(s)
    BY <1>1, <2>1, <2>3 DEF Receive
  <2> QED  BY <2>2, <2>3
<1>3. CASE TurnDown(c)
  BY <1>1, <1>3 DEF TurnDown
<1>4. CASE CallAllowed(c)
  BY <1>1, <1>4 DEF CallAllowed
<1>5. CASE AnswerUnregistered(c)
  BY <1>1, <1>5 DEF AnswerUnregistered
<1>6. CASE UpstreamReturns(c)
  BY <1>1, <1>6 DEF UpstreamReturns
<1>7. CASE Abandon(c)
  BY <1>1, <1>7 DEF Abandon
<1> QED  BY <1>2, <1>3, <1>4, <1>5, <1>6, <1>7 DEF HandlerAlone

(* So it keeps what is known of all requests.                              *)
LEMMA HandlerAloneStep ==
    ASSUME Inv, [SessionReg!Next]_sessionVars, NEW c \in Calls, HandlerAlone(c)
    PROVE  CallInv'
<1>1. /\ UNCHANGED <<count, entry, pending, recentIds, recent, waiter, answer, mode, resolver>>
      /\ Approvals!Ids' = Approvals!Ids
  BY HandlerAloneEffect DEF approvalVars, Approvals!Ids
<1>2. /\ created \subseteq created'
      /\ SessionReg!Live \subseteq created
      /\ \A s \in created \ SessionReg!Live : s \notin SessionReg!Live'
  BY SessionEffect, SessionFacts DEF Inv
<1>3. CallType'
  BY <1>1, HandlerAloneEffect DEF Inv, CallInv, CallType
<1>4. HandlerInv'
  BY <1>2, HandlerAloneEffect DEF At, Inv, CallInv, HandlerInv
<1>5. AskInv'
  BY <1>1, HandlerAloneEffect DEF At, Inv, CallInv, CallType, AskInv
<1>6. TableInv'
  BY <1>1, HandlerAloneEffect DEF At, Inv, CallInv, TableInv
<1>7. FourEyes'
  BY <1>1 DEF Inv, CallInv, FourEyes
<1>8. AnswerInv'
  BY <1>1, <1>2, HandlerAloneEffect DEF Inv, CallInv, AnswerInv
<1>9. TruthfulAnswers'
  BY <1>1, <1>2, HandlerAloneEffect DEF Inv, CallInv, AnswerInv, TruthfulAnswers
<1> QED  BY <1>3, <1>4, <1>5, <1>6, <1>7, <1>8, <1>9 DEF CallInv

-----------------------------------------------------------------------------
(* A call asks: it gets an approval of its own, undecided.                 *)
LEMMA AskStep ==
    ASSUME Inv, [SessionReg!Next]_sessionVars, NEW c \in Calls,
           AskAndWait(c) \/ AskAndAnswer(c)
    PROVE  CallInv'
<1> DEFINE waits == mode = "blocking"
           phase == IF waits THEN "waiting" ELSE "idle"
           new == [call[c] EXCEPT !.pc = IF waits THEN "approval" ELSE "done",
                                  !.verdict = "REQUIRES_APPROVAL",
                                  !.id = count',
                                  !.response = IF waits THEN call[c].response
                                                        ELSE "approval_required"]
<1>1. /\ Approvals!Enter(call[c].session, phase)
      /\ call[c].pc = "body"
      /\ mode \in {"blocking", "detached"}
      /\ UNCHANGED <<sessionVars, mode, runs, resolver>>
      /\ call[c] \in Call
      /\ call \in [Calls -> Call]
  BY DEF AskAndWait, AskAndAnswer, At, Approvals!Register, Approvals!RegisterAndWait,
         Inv, CallInv, CallType
<1>2. /\ count' = count + 1
      /\ count \in Nat
      /\ Approvals!Ids' = Approvals!Ids \cup {count'}
      /\ count' \notin Approvals!Ids
      /\ pending' = pending \cup {count'}
      /\ entry'[count'].session = call[c].session
      /\ entry'[count'].requester = AgentOf[call[c].session]
      /\ entry'[count'].decision = "none"
      /\ waiter'[count'] = phase
      /\ \A id \in Approvals!Ids : entry'[id] = entry[id] /\ waiter'[id] = waiter[id]
  <2>1. count \in Nat /\ Approvals!Ids = 1 .. count
    BY RegistryFacts DEF Inv
  <2> HIDE DEF phase
  <2> QED  BY <1>1, <2>1 DEF Approvals!Enter, Approvals!Ids, Approvals!NoDecision
<1>3. call' = [call EXCEPT ![c] = new]
  BY <1>1 DEF AskAndWait, AskAndAnswer, Call
<1>4. /\ new \in Call
      /\ new.pc = IF waits THEN "approval" ELSE "done"
      /\ new.session = call[c].session
      /\ new.verdict = "REQUIRES_APPROVAL"
      /\ new.id = count'
      /\ new.response = IF waits THEN None ELSE "approval_required"
  <2>1. call[c].response = None
    BY <1>1 DEF Inv, CallInv, HandlerInv
  <2>2. count' \in Nat
    BY <1>2
  <2> QED  BY <1>1, <2>1, <2>2 DEF Call, PhasesOfCall, Responses
<1> HIDE DEF new
<1>5. /\ call'[c] = new
      /\ \A d \in Calls \ {c} : call'[d] = call[d]
      /\ call' \in [Calls -> Call]
  BY <1>1, <1>3, <1>4
<1>6. /\ created' = created
      /\ SessionReg!Live' = SessionReg!Live
      /\ runs[c] = 0
      /\ call[c].session \in created
      /\ pending \subseteq Approvals!Ids
      /\ \A d \in Calls : call[d].id # 0 => call[d].id \in Approvals!Ids
  BY <1>1, CallFacts DEF sessionVars, SessionReg!Live, Inv, CallInv, HandlerInv
<1>7. CallType'
  BY <1>1, <1>5 DEF Inv, CallInv, CallType
<1>8. HandlerInv'
  BY <1>1, <1>4, <1>5, <1>6 DEF At, Inv, CallInv, HandlerInv
<1>9. AskInv'
  BY <1>1, <1>2, <1>4, <1>5, <1>6 DEF At, Inv, CallInv, AskInv, Approvals!Suspended
<1>10. TableInv'
  BY <1>1, <1>2, <1>4, <1>5, <1>6 DEF At, Inv, CallInv, TableInv
<1>11. FourEyes'
  BY <1>1, <1>2 DEF Inv, CallInv, FourEyes, Approvals!Resolutions
<1>12. AnswerInv'
  BY <1>1, <1>4, <1>5, <1>6 DEF Inv, CallInv, AnswerInv, None
<1>13. TruthfulAnswers'
  BY <1>1, <1>2, <1>4, <1>5, <1>6 DEF Inv, CallInv, AnswerInv, TruthfulAnswers, None,
     Approvals!NoDecision
<1> QED  BY <1>7, <1>8, <1>9, <1>10, <1>11, <1>12, <1>13 DEF CallInv

-----------------------------------------------------------------------------
(* The wait of a call ends: the handler looks its session up and goes on   *)
(* to the upstream server, answers, or was cancelled.                      *)
WaitOver(c) == Decided(c) \/ FinishAbandoned(c)

(* The call goes on only if its approval was approved; otherwise it is     *)
(* answered with what became of its approval or its session, or it was     *)
(* cancelled.                                                              *)
LEMMA WaitOverEffect ==
    ASSUME Inv, P!IInv', NEW c \in Calls, WaitOver(c)
    PROVE  /\ At(c, "approval")
           /\ UNCHANGED <<count, entry, mode, resolver, created>>
           /\ pending' = pending \ {call[c].id}
           /\ waiter'[call[c].id] \in Approvals!Ended
           /\ \A id \in Approvals!Ids \ {call[c].id} : waiter'[id] = waiter[id]
           /\ call' \in [Calls -> Call]
           /\ runs' \in [Calls -> 0 .. 1]
           /\ \A d \in Calls \ {c} : call'[d] = call[d] /\ runs'[d] = runs[d]
           /\ \A field \in {"session", "verdict", "id"} : call'[c][field] = call[c][field]
           /\ \/ /\ call'[c].pc = "upstream"
                 /\ call'[c].response = None
                 /\ runs'[c] = 1
                 /\ entry[call[c].id].decision = "APPROVED"
              \/ /\ call'[c].pc = "cancelled"
                 /\ call'[c].response = None
                 /\ runs'[c] = 0
              \/ /\ call'[c].pc = "done"
                 /\ call'[c].response = "session_expired"
                 /\ runs'[c] = 0
                 /\ call[c].session \notin SessionReg!Live'
              \/ /\ call'[c].pc = "done"
                 /\ call'[c].response = "approval_timeout"
                 /\ runs'[c] = 0
                 /\ entry[call[c].id].decision \in {Approvals!NoDecision, "EVICTED"}
              \/ /\ call'[c].pc = "done"
                 /\ call'[c].response = "approval_rejected"
                 /\ runs'[c] = 0
                 /\ entry[call[c].id].decision \in {"REJECTED", "EVICTED"}
<1> USE DEF At
<1>1. /\ call[c].pc = "approval"
      /\ call \in [Calls -> Call]
      /\ runs \in [Calls -> 0 .. 1]
      /\ runs[c] = 0
      /\ call[c].response = None
      /\ call[c].id \in Approvals!Ids
      /\ waiter \in [Approvals!Ids -> Approvals!Phases]
  BY CallFacts, RegistryFacts DEF WaitOver, Decided, FinishAbandoned, Inv, CallInv, CallType,
                                  HandlerInv
<1>2. PICK id \in Approvals!Ids : id = call[c].id /\ Approvals!Resume(id)
  BY <1>1 DEF WaitOver, Decided, FinishAbandoned
<1>3. /\ UNCHANGED <<count, entry>>
      /\ pending' = pending \ {id}
      /\ waiter' = [waiter EXCEPT ![id] =
                       IF waiter[id] = "cancelled" THEN "raised" ELSE "returned"]
      /\ waiter[id] # "cancelled" =>
            /\ answer'[id] = "APPROVED" => entry[id].decision = "APPROVED"
            /\ answer'[id] = "TIMEOUT" =>
                  entry[id].decision \in {Approvals!NoDecision, "EVICTED"}
            /\ answer'[id] \notin {"APPROVED", "TIMEOUT"} =>
                  entry[id].decision \in {"REJECTED", "EVICTED"}
  BY <1>2, ResumeEffect DEF Inv
<1>4. /\ waiter'[id] \in Approvals!Ended
      /\ \A i \in Approvals!Ids \ {id} : waiter'[i] = waiter[i]
  BY <1>1, <1>2, <1>3 DEF Approvals!Ended
<1>5. CASE FinishAbandoned(c)
  BY <1>1, <1>2, <1>3, <1>4, <1>5
     DEF FinishAbandoned, sessionVars, Call, PhasesOfCall, Responses
<1>6. CASE Decided(c)
  <2>1. PICK s : s = call[c].session /\ SessionReg!Lookup(s)
    BY <1>6 DEF Decided
  <2>2. /\ created' = created
        /\ ~SessionReg!Found(s) => s \notin SessionReg!Live'
    BY <2>1 DEF SessionReg!Lookup, SessionReg!Unknown, SessionReg!FindExpired, SessionReg!Refresh,
                SessionReg!Found, SessionReg!sessionVars, SessionReg!Live, SessionReg!Evict,
                SessionReg!Restrict
  <2>3. /\ waiter[id] # "cancelled"
        /\ UNCHANGED <<mode, resolver>>
        /\ IF SessionReg!Found(s) /\ answer'[id] = "APPROVED"
           THEN /\ call' = [call EXCEPT ![c].pc = "upstream"]
                /\ runs' = [runs EXCEPT ![c] = @ + 1]
           ELSE /\ Answer(c, IF ~SessionReg!Found(s) THEN "session_expired"
                             ELSE IF answer'[id] = "TIMEOUT" THEN "approval_timeout"
                             ELSE "approval_rejected")
                /\ UNCHANGED runs
    BY <1>2, <1>6, <2>1 DEF Decided, GoAhead, SessionReg!Found, SessionReg!Expired,
                            SessionReg!LastActivity, Answer
  <2>4. CASE SessionReg!Found(s) /\ answer'[id] = "APPROVED"
    BY <1>1, <1>2, <1>3, <1>4, <2>2, <2>3, <2>4 DEF Call, PhasesOfCall
  <2>5. CASE ~SessionReg!Found(s)
    BY <1>1, <1>2, <1>3, <1>4, <2>1, <2>2, <2>3, <2>5 DEF Answer, Call, PhasesOfCall, Responses
  <2>6. CASE SessionReg!Found(s) /\ answer'[id] # "APPROVED"
    BY <1>1, <1>2, <1>3, <1>4, <2>2, <2>3, <2>6 DEF Answer, Call, PhasesOfCall, Responses
  <2> QED  BY <2>4, <2>5, <2>6
<1> QED  BY <1>5, <1>6 DEF WaitOver

(* So it keeps what is known of all requests.                              *)
LEMMA WaitOverStep ==
    ASSUME Inv, P!IInv', [SessionReg!Next]_sessionVars, NEW c \in Calls, WaitOver(c)
    PROVE  CallInv'
<1> USE DEF At
<1>1. /\ \A s \in created \ SessionReg!Live : s \notin SessionReg!Live'
      /\ call[c].session \in created
      /\ mode = "blocking"
      /\ call[c].id # 0
      /\ call[c].verdict = "REQUIRES_APPROVAL"
      /\ call[c].id \in Approvals!Ids
      /\ pending \subseteq Approvals!Ids
      /\ \A d \in Calls \ {c} : call[d].id # call[c].id
      /\ Approvals!Ids' = Approvals!Ids
  BY CallFacts, SessionEffect, WaitOverEffect
     DEF Inv, CallInv, HandlerInv, AskInv, Approvals!Ids
<1>2. CallType'
  BY WaitOverEffect DEF Inv, CallInv, CallType
<1>3. HandlerInv'
  BY <1>1, WaitOverEffect DEF Inv, CallInv, HandlerInv, None
<1>4. AskInv'
  BY <1>1, WaitOverEffect DEF Inv, CallInv, AskInv
<1>5. TableInv'
  BY <1>1, WaitOverEffect DEF Inv, CallInv, TableInv
<1>6. FourEyes'
  BY <1>1, WaitOverEffect DEF Inv, CallInv, FourEyes
<1>7. AnswerInv'
  BY <1>1, WaitOverEffect DEF Inv, CallInv, AnswerInv, None
<1>8. TruthfulAnswers'
  BY <1>1, WaitOverEffect DEF Inv, CallInv, AnswerInv, TruthfulAnswers, None
<1> QED  BY <1>2, <1>3, <1>4, <1>5, <1>6, <1>7, <1>8 DEF CallInv

-----------------------------------------------------------------------------
(* The timer fires for a call that waits, or its task is cancelled: it     *)
(* goes on waiting until it runs.                                          *)
LEMMA InterruptStep ==
    ASSUME Inv, NEW c \in Calls, AbandonWait(c) \/ ApprovalTimer(c)
    PROVE  CallInv'
<1> USE DEF At
<1>1. /\ At(c, "approval")
      /\ call[c].id \in Approvals!Ids
      /\ waiter \in [Approvals!Ids -> Approvals!Phases]
      /\ mode = "blocking"
      /\ \A d \in Calls \ {c} : call[d].id # call[c].id
  BY CallFacts, RegistryFacts DEF AbandonWait, ApprovalTimer, Inv, CallInv, AskInv
<1>2. /\ UNCHANGED <<count, entry, pending, answer, sessionVars, mode, call, runs, resolver>>
      /\ waiter'[call[c].id] \in Approvals!Suspended
      /\ \A id \in Approvals!Ids \ {call[c].id} : waiter'[id] = waiter[id]
  BY <1>1 DEF AbandonWait, ApprovalTimer, Approvals!CancelTask, Approvals!TimerFires,
              Approvals!Suspended
<1>3. /\ UNCHANGED <<created, records>>
      /\ Approvals!Ids' = Approvals!Ids
      /\ SessionReg!Live' = SessionReg!Live
  BY <1>2 DEF sessionVars, Approvals!Ids, SessionReg!Live
<1>4. CallType' /\ HandlerInv'
  BY <1>2, <1>3 DEF Inv, CallInv, CallType, HandlerInv
<1>5. AskInv'
  BY <1>1, <1>2, <1>3 DEF Inv, CallInv, AskInv
<1>6. TableInv' /\ FourEyes' /\ AnswerInv' /\ TruthfulAnswers'
  BY <1>2, <1>3 DEF Inv, CallInv, TableInv, FourEyes, AnswerInv, TruthfulAnswers
<1> QED  BY <1>4, <1>5, <1>6 DEF CallInv

(* An approver decides an approval of the table.                           *)
LEMMA ApprovalStep ==
    ASSUME Inv, NEW a \in Agents, NEW id \in Approvals!Ids,
           NEW status \in Approvals!Resolutions, HandleApproval(a, id, status)
    PROVE  CallInv'
<1> USE DEF At, Approvals!Resolutions, Approvals!NoDecision
<1>1. /\ entry \in [Approvals!Ids -> Approvals!Entry]
      /\ pending \subseteq Approvals!Ids
      /\ \A i \in pending : waiter[i] \notin Approvals!Ended
  BY RegistryFacts DEF Inv
<1>2. /\ id \in pending
      /\ entry[id].decision = "none"
      /\ entry[id].requester # a
      /\ Approvers # {} => a \in Approvers
      /\ entry' = [entry EXCEPT ![id].decision = status, ![id].event = TRUE]
      /\ resolver' = [i \in DOMAIN resolver \cup {id} |-> IF i = id THEN a ELSE resolver[i]]
      /\ UNCHANGED <<count, pending, waiter, answer, sessionVars, mode, call, runs>>
  BY DEF HandleApproval, Approvals!Resolve, Approvals!ResolveOutcome
<1>3. /\ entry'[id].decision = status
      /\ entry'[id].session = entry[id].session
      /\ entry'[id].requester = entry[id].requester
      /\ \A i \in Approvals!Ids \ {id} : entry'[i] = entry[i]
      /\ status \in {"APPROVED", "REJECTED"}
  BY <1>1, <1>2 DEF Approvals!Entry
<1>4. /\ resolver'[id] = a
      /\ DOMAIN resolver' = DOMAIN resolver \cup {id}
  BY <1>2
<1>5. /\ UNCHANGED <<created, records>>
      /\ Approvals!Ids' = Approvals!Ids
      /\ SessionReg!Live' = SessionReg!Live
  BY <1>2 DEF sessionVars, Approvals!Ids, SessionReg!Live
<1>6. CallType' /\ HandlerInv' /\ AnswerInv'
  BY <1>2, <1>5 DEF Inv, CallInv, CallType, HandlerInv, AnswerInv
<1>7. AskInv'
  <2>1. \A i \in Approvals!Ids : /\ entry'[i].session = entry[i].session
                                 /\ entry[i].decision = "APPROVED" =>
                                       entry'[i].decision = "APPROVED"
    BY <1>2, <1>3
  <2>2. UNCHANGED <<waiter, mode, call, runs>>
    BY <1>2
  <2> QED  BY <1>5, <2>1, <2>2 DEF Inv, CallInv, AskInv
<1>8. TableInv'
  BY <1>1, <1>2, <1>3 DEF Inv, CallInv, TableInv
<1>9. FourEyes'
  <2> SUFFICES ASSUME NEW i \in Approvals!Ids
               PROVE  /\ entry'[i].requester = AgentOf[entry'[i].session]
                      /\ entry'[i].decision \in Approvals!Resolutions =>
                            /\ i \in DOMAIN resolver'
                            /\ resolver'[i] # entry'[i].requester
                            /\ Approvers # {} => resolver'[i] \in Approvers
    BY <1>5 DEF FourEyes
  <2>1. CASE i = id
    <3>1. entry[id].requester = AgentOf[entry[id].session]
      BY DEF Inv, CallInv, FourEyes
    <3> QED  BY <1>2, <1>3, <1>4, <2>1, <3>1
  <2>2. CASE i # id
    <3>1. entry'[i] = entry[i]
      BY <1>3, <2>2
    <3>2. i \in DOMAIN resolver => resolver'[i] = resolver[i]
      BY <1>2, <2>2
    <3> QED  BY <1>4, <3>1, <3>2 DEF Inv, CallInv, FourEyes
  <2> QED  BY <2>1, <2>2
<1>10. TruthfulAnswers'
  <2>1. ASSUME NEW c \in Calls,
               call[c].response \in {"approval_timeout", "approval_rejected"}
        PROVE  call[c].id \in Approvals!Ids \ {id}
    <3>1. mode = "blocking" /\ call[c].id # 0
      BY <2>1 DEF Inv, CallInv, AnswerInv
    <3>2. ~At(c, "approval")
      BY <2>1 DEF Inv, CallInv, HandlerInv, None
    <3>3. waiter[call[c].id] \in Approvals!Ended /\ call[c].id \in Approvals!Ids
      BY <3>1, <3>2 DEF Inv, CallInv, AskInv
    <3> QED  BY <1>1, <1>2, <3>3
  <2>2. \A i \in Approvals!Ids \ {id} : entry'[i] = entry[i]
    BY <1>3
  <2>3. UNCHANGED <<call, runs>>
    BY <1>2
  <2> QED  BY <1>5, <2>1, <2>2, <2>3 DEF Inv, CallInv, TruthfulAnswers
<1> QED  BY <1>6, <1>7, <1>8, <1>9, <1>10 DEF CallInv

(* The hook of an evicted session rejects what is undecided in it.         *)
LEMMA HookEffect ==
    ASSUME Inv, NEW s \in Sessions, OnSessionEvicted(s)
    PROVE  /\ UNCHANGED <<count, waiter, answer, created, records, mode, call, runs, resolver>>
           /\ pending' \subseteq pending
           /\ \A id \in pending : entry[id].session = s /\ entry[id].decision = "none" =>
                 id \notin pending'
           /\ \A id \in Approvals!Ids : 
                 \/ entry'[id] = entry[id] /\ (id \in pending => id \in pending')
                 \/ /\ id \in pending
                    /\ entry[id].session = s
                    /\ entry[id].decision = "none"
                    /\ entry'[id].decision = "EVICTED"
                    /\ entry'[id].event
                    /\ entry'[id].session = entry[id].session
                    /\ entry'[id].requester = entry[id].requester
<1>1. entry \in [Approvals!Ids -> Approvals!Entry] /\ pending \subseteq Approvals!Ids
  BY RegistryFacts DEF Inv
<1>2. Approvals!CancelSession(s) /\ SessionReg!RunHook(s)
  BY DEF OnSessionEvicted
<1> QED  BY <1>1, <1>2 DEF OnSessionEvicted, Approvals!CancelSession, SessionReg!RunHook,
                          Approvals!Open, Approvals!NoDecision, Approvals!Entry

(* The eviction hook moves no request, and the approvals it evicts had no  *)
(* decision that a request could rely on.                                  *)
LEMMA HookStep ==
    ASSUME Inv, NEW s \in Sessions, OnSessionEvicted(s)
    PROVE  CallInv'
<1> USE DEF At
<1>1. /\ Approvals!Ids' = Approvals!Ids
      /\ SessionReg!Live' = SessionReg!Live
      /\ pending \subseteq Approvals!Ids
      /\ \A c \in Calls : call[c].id # 0 => call[c].id \in Approvals!Ids
  BY HookEffect, CallFacts, RegistryFacts DEF Inv, Approvals!Ids, SessionReg!Live
<1>2. CallType' /\ HandlerInv' /\ AnswerInv'
  BY HookEffect DEF Inv, CallInv, CallType, HandlerInv, AnswerInv
<1>3. AskInv'
  BY <1>1, HookEffect DEF Inv, CallInv, AskInv
<1>4. TableInv'
  BY <1>1, HookEffect DEF Inv, CallInv, TableInv
<1>5. FourEyes'
  BY <1>1, HookEffect DEF Inv, CallInv, FourEyes, Approvals!Resolutions
<1>6. TruthfulAnswers'
  BY <1>1, HookEffect DEF Inv, CallInv, AnswerInv, TruthfulAnswers, Approvals!NoDecision
<1> QED  BY <1>2, <1>3, <1>4, <1>5, <1>6 DEF CallInv

(* Time passes, a session is created, or nothing happens.                  *)
LEMMA EnvironmentStep ==
    ASSUME Inv, [SessionReg!Next]_sessionVars,
           UNCHANGED <<approvalVars, mode, call, runs, resolver>>
    PROVE  CallInv'
<1>1. /\ UNCHANGED <<count, entry, pending, waiter, answer>>
      /\ Approvals!Ids' = Approvals!Ids
  BY DEF approvalVars, Approvals!Ids
<1>2. /\ created \subseteq created'
      /\ \A s \in created \ SessionReg!Live : s \notin SessionReg!Live'
  BY SessionEffect DEF Inv
<1> QED
  BY <1>1, <1>2 DEF Inv, CallInv, CallType, HandlerInv, AskInv, TableInv, FourEyes,
                    AnswerInv, TruthfulAnswers, At

-----------------------------------------------------------------------------
(* The invariant holds when the gateway starts.                            *)
LEMMA InitInv == Init => Inv
<1> SUFFICES ASSUME Init PROVE Inv
  OBVIOUS
<1>1. P!IInv
  <2>1. P!RegistryAssumption
    BY CallsAssumption DEF P!RegistryAssumption
  <2>2. P!Init
    BY DEF Init, Approvals!Init, P!Init
  <2> QED  BY <2>1, <2>2, P!InitIInv
<1>2. S!SessionInv
  <2>1. S!SessionAssumption
    BY CallsAssumption DEF S!SessionAssumption
  <2>2. S!Init
    BY DEF Init, SessionReg!Init, S!Init
  <2> QED  BY <2>1, <2>2, S!InitSession
<1>3. CallInv
  <2>1. Approvals!Ids = {} /\ pending = {}
    BY DEF Init, Approvals!Init, Approvals!Ids
  <2> QED  BY <2>1 DEF Init, CallInv, CallType, Call, PhasesOfCall, HandlerInv, AskInv,
           TableInv, FourEyes, AnswerInv, TruthfulAnswers, At, None
<1> QED  BY <1>1, <1>2, <1>3 DEF Inv

(* Every step of a handler, an approver, a hook and the environment keeps  *)
(* it.                                                                     *)
LEMMA NextInv == Inv /\ [Next]_vars => Inv'
<1> SUFFICES ASSUME Inv, [Next]_vars PROVE Inv'
  OBVIOUS
<1>1. /\ [SessionReg!Next]_sessionVars
      /\ P!IInv'
      /\ S!SessionInv'
  BY StepOfRegistries, RegistriesKept
<1>2. ASSUME NEW c \in Calls, HandlerStep(c) PROVE CallInv'
  <2>1. CASE HandlerAlone(c)
    BY <1>1, <2>1, HandlerAloneStep
  <2>2. CASE AskAndWait(c) \/ AskAndAnswer(c)
    BY <1>1, <2>2, AskStep
  <2>3. CASE WaitOver(c)
    BY <1>1, <2>3, WaitOverStep
  <2>4. CASE AbandonWait(c) \/ ApprovalTimer(c)
    BY <2>4, InterruptStep
  <2> QED  BY <1>2, <2>1, <2>2, <2>3, <2>4 DEF HandlerStep, HandlerAlone, WaitOver
<1>3. ASSUME NEW a \in Agents, NEW id \in Approvals!Ids, NEW status \in Approvals!Resolutions,
             HandleApproval(a, id, status)
      PROVE  CallInv'
  BY <1>3, ApprovalStep
<1>4. ASSUME NEW s \in Sessions, OnSessionEvicted(s) PROVE CallInv'
  BY <1>4, HookStep
<1>5. ASSUME Environment \/ UNCHANGED vars PROVE CallInv'
  BY <1>1, <1>5, EnvironmentStep DEF Environment, vars
<1>6. CallInv'
  BY <1>2, <1>3, <1>4, <1>5 DEF Next
<1> QED  BY <1>1, <1>6 DEF Inv

(* The inductive invariant holds in every behaviour.                       *)
THEOREM Inductive == Spec => []Inv
<1> QED  BY InitInv, NextInv, PTL DEF Spec

(* The four-eyes rule of POST /approvals and the message handler: what     *)
(* policy sends to a human runs once at most, in the blocking mode, and    *)
(* only after another agent, who may approve, has approved it.             *)
THEOREM FourEyesRule == Spec => []RunsOnlyAuthorised
<1>1. Inv => RunsOnlyAuthorised
  <2> SUFFICES ASSUME Inv, NEW c \in Calls
               PROVE  /\ runs[c] <= 1
                      /\ runs[c] > 0 /\ call[c].verdict = "REQUIRES_APPROVAL" =>
                            LET id == call[c].id IN
                            /\ mode = "blocking"
                            /\ entry[id].decision = "APPROVED"
                            /\ resolver[id] # AgentOf[call[c].session]
                            /\ Approvers # {} => resolver[id] \in Approvers
                            /\ \A d \in Calls \ {c} : call[d].id # id
    BY DEF RunsOnlyAuthorised
  <2>1. runs[c] <= 1
    BY CallFacts
  <2> QED  BY <2>1 DEF Inv, CallInv, AskInv, FourEyes, Approvals!Resolutions
<1> QED  BY <1>1, Inductive, PTL

(* A caller is told what happened to its call (the JSON-RPC errors of      *)
(* _handle_requires_approval_with_registry).                               *)
THEOREM AnswersTrue == Spec => []TruthfulAnswers
<1>1. Inv => TruthfulAnswers
  BY DEF Inv, CallInv
<1> QED  BY <1>1, Inductive, PTL

(* In the blocking mode the table of approvals leaks none, and loses none  *)
(* before its handler has run again, but to an eviction.                   *)
THEOREM TableExact == Spec => []TableMatchesWaits
<1>1. Inv => TableMatchesWaits
  <2> SUFFICES ASSUME Inv, mode = "blocking" PROVE TableMatchesWaits
    BY DEF TableMatchesWaits
  <2>1. ASSUME NEW id \in pending
        PROVE  /\ entry[id].decision # "EVICTED"
               /\ \E c \in Calls : At(c, "approval") /\ call[c].id = id
    BY <2>1 DEF Inv, CallInv, TableInv
  <2>2. ASSUME NEW c \in Calls, At(c, "approval")
        PROVE  /\ waiter[call[c].id] \in Approvals!Suspended
               /\ entry[call[c].id].decision # "EVICTED" => call[c].id \in pending
    <3>1. call[c].id \in P!Ids /\ waiter[call[c].id] \in Approvals!Suspended
      BY <2>2 DEF Inv, CallInv, AskInv, Approvals!Ids, P!Ids
    <3> QED
      BY <3>1 DEF Inv, P!IInv, P!OnlyEvictionRemoves, P!Ended, Approvals!Suspended
  <2> QED  BY <2>1, <2>2 DEF TableMatchesWaits
<1> QED  BY <1>1, Inductive, PTL

(* The gateway uses the approval registry only as its module describes, so *)
(* that what is proved of the registry alone holds in the gateway.         *)
THEOREM RegistryImplemented == Spec => ImplementsRegistry
<1>1. Init => Approvals!Init
  BY DEF Init
<1>2. Inv /\ [Next]_vars => [Approvals!Next]_approvalVars
  BY StepOfRegistries
<1> QED  BY <1>1, <1>2, Inductive, PTL DEF Spec, ImplementsRegistry

-----------------------------------------------------------------------------
(* The step of ApprovedRunsInLiveSession.                                  *)
ApprovedInLife ==
    \A c \in Calls : At(c, "approval") /\ runs'[c] > runs[c] =>
        LET s == call[c].session IN
        /\ s \in SessionReg!Live /\ ~SessionReg!Expired(s)
        /\ lastActive'[s] = clock
        /\ evictions'[s] = 0

(* Only the handler that waits starts its call, and not before its look-up *)
(* has found the session.                                                  *)
LEMMA NextApprovedInLife == Inv /\ [Next]_vars => ApprovedInLife
<1> SUFFICES ASSUME Inv, [Next]_vars, NEW c \in Calls, At(c, "approval"), runs'[c] > runs[c]
             PROVE  /\ call[c].session \in SessionReg!Live
                    /\ ~SessionReg!Expired(call[c].session)
                    /\ lastActive'[call[c].session] = clock
                    /\ evictions'[call[c].session] = 0
  BY DEF ApprovedInLife
<1> USE DEF At
<1>1. runs[c] \in 0 .. 1 /\ P!IInv'
  BY CallFacts, RegistriesKept
<1>2. ASSUME UNCHANGED runs PROVE FALSE
  BY <1>1, <1>2
<1>3. ASSUME NEW d \in Calls, HandlerAlone(d) PROVE FALSE
  <2>1. d # c
    BY <1>3, HandlerAloneEffect
  <2> QED  BY <1>1, <1>3, <2>1, HandlerAloneEffect
<1>4. ASSUME NEW d \in Calls, WaitOver(d) PROVE d = c /\ Decided(c)
  <2>1. d = c
    BY <1>1, <1>4, WaitOverEffect
  <2> QED  BY <1>2, <1>4, <2>1 DEF WaitOver, FinishAbandoned
<1>5. ASSUME NEW d \in Calls, HandlerStep(d) PROVE Decided(c)
  <2>1. CASE \/ AskAndWait(d) \/ AskAndAnswer(d)
             \/ AbandonWait(d) \/ ApprovalTimer(d)
    BY <1>2, <2>1 DEF AskAndWait, AskAndAnswer, AbandonWait, ApprovalTimer
  <2> QED  BY <1>3, <1>4, <1>5, <2>1 DEF HandlerStep, HandlerAlone, WaitOver
<1>6. Decided(c)
  BY <1>2, <1>5 DEF Next, HandleApproval, OnSessionEvicted, Environment, vars
<1>7. PICK s : s = call[c].session /\ SessionReg!Lookup(s)
  BY <1>6 DEF Decided
<1>8. s \in SessionReg!Live /\ ~SessionReg!Expired(s)
  BY <1>2, <1>6, <1>7 DEF Decided, GoAhead, SessionReg!Found, SessionReg!Expired,
                         SessionReg!LastActivity
<1>9. lastActive'[s] = clock /\ evictions' = evictions
  BY <1>7, <1>8 DEF SessionReg!Lookup, SessionReg!Unknown, SessionReg!FindExpired,
                    SessionReg!Refresh
<1>10. evictions[s] = 0
  BY <1>8, SessionFacts DEF Inv
<1> QED  BY <1>7, <1>8, <1>9, <1>10 DEF SessionReg!Expired, SessionReg!LastActivity

(* An accepted approval counts only in a session that is alive when the    *)
(* handler wakes up (the second lookup of the message handler).            *)
THEOREM ApprovedOnlyInLiveSession == Spec => ApprovedRunsInLiveSession
<1>1. Inv /\ [Next]_vars => [ApprovedInLife]_vars
  BY NextApprovedInLife
<1>2. Spec => [][ApprovedInLife]_vars
  BY <1>1, Inductive, PTL DEF Spec
<1> QED  BY <1>2 DEF ApprovedRunsInLiveSession, ApprovedInLife

(* The step of HookSettlesSession.                                         *)
HookSettles ==
    \A s \in Sessions : hooks'[s] < hooks[s] =>
        /\ \A id \in pending' : entry'[id].session = s
                                    => entry'[id].decision \in Approvals!Resolutions
        /\ \A id \in pending \ pending' : entry[id].session = s /\ entry'[id].event
        /\ \A id \in Approvals!Ids :
              entry[id].session # s \/ entry[id].decision # Approvals!NoDecision =>
                 /\ entry'[id] = entry[id]
                 /\ id \in pending => id \in pending'

(* Only the run of a hook takes one from those that wait.                  *)
LEMMA NextHookSettles == Inv /\ [Next]_vars => HookSettles
<1> SUFFICES ASSUME Inv, [Next]_vars, NEW s \in Sessions, hooks'[s] < hooks[s]
             PROVE  /\ \A id \in pending' : entry'[id].session = s
                           => entry'[id].decision \in Approvals!Resolutions
                    /\ \A id \in pending \ pending' : entry[id].session = s /\ entry'[id].event
                    /\ \A id \in Approvals!Ids :
                          entry[id].session # s \/ entry[id].decision # Approvals!NoDecision =>
                             /\ entry'[id] = entry[id]
                             /\ id \in pending => id \in pending'
  BY DEF HookSettles
<1>1. hooks \in [Sessions -> Nat]
  BY SessionFacts DEF Inv
<1>2. ASSUME UNCHANGED hooks PROVE FALSE
  BY <1>1, <1>2
<1>3. ASSUME NEW i, SessionReg!Lookup(i) PROVE FALSE
  BY <1>3, LookupEffect DEF Inv
<1>4. ASSUME NEW c \in Calls, HandlerStep(c) PROVE FALSE
  <2>1. CASE \E i \in Sessions : Receive(c, i)
    BY <1>3, <2>1 DEF Receive
  <2>2. CASE Decided(c)
    <3>1. PICK i : SessionReg!Lookup(i)
      BY <2>2 DEF Decided
    <3> QED  BY <1>3, <3>1
  <2> QED
    BY <1>2, <1>4, <2>1, <2>2
       DEF HandlerStep, TurnDown, CallAllowed, AskAndWait, AskAndAnswer, AnswerUnregistered,
           UpstreamReturns, Abandon, AbandonWait, FinishAbandoned, ApprovalTimer, sessionVars
<1>5. ASSUME NEW i \in Sessions, OnSessionEvicted(i) PROVE i = s
  BY <1>1, <1>5 DEF OnSessionEvicted, SessionReg!RunHook
<1>6. OnSessionEvicted(s)
  <2>1. CASE Environment \/ UNCHANGED vars
    BY <1>2, <2>1 DEF Environment, SessionReg!Tick, SessionReg!Create, vars, sessionVars
  <2>2. CASE \E a \in Agents, id \in Approvals!Ids, status \in Approvals!Resolutions :
                HandleApproval(a, id, status)
    BY <1>2, <2>2 DEF HandleApproval, sessionVars
  <2> QED  BY <1>4, <1>5, <2>1, <2>2 DEF Next
<1>7. /\ entry \in [Approvals!Ids -> Approvals!Entry]
      /\ pending \subseteq Approvals!Ids
      /\ \A id \in pending : entry[id].decision # "EVICTED"
  BY RegistryFacts DEF Inv, CallInv, TableInv
<1>8. ASSUME NEW id \in pending', entry'[id].session = s
      PROVE  entry'[id].decision \in Approvals!Resolutions
  <2>1. id \in pending /\ entry'[id] = entry[id]
    BY <1>6, <1>7, <1>8, HookEffect
  <2> QED  BY <1>6, <1>7, <1>8, <2>1, HookEffect
           DEF Approvals!Entry, Approvals!Resolutions, Approvals!NoDecision
<1>9. ASSUME NEW id \in pending \ pending' PROVE entry[id].session = s /\ entry'[id].event
  BY <1>6, <1>7, <1>9, HookEffect
<1>10. ASSUME NEW id \in Approvals!Ids,
              entry[id].session # s \/ entry[id].decision # Approvals!NoDecision
       PROVE  /\ entry'[id] = entry[id]
              /\ id \in pending => id \in pending'
  BY <1>6, <1>10, HookEffect DEF Approvals!NoDecision
<1> QED  BY <1>8, <1>9, <1>10

(* The hook of an evicted session (app.py) settles every approval of it    *)
(* that nobody has settled, and leaves all the others as they are.         *)
THEOREM HookIsThorough == Spec => HookSettlesSession
<1>1. Inv /\ [Next]_vars => [HookSettles]_vars
  BY NextHookSettles
<1>2. Spec => [][HookSettles]_vars
  BY <1>1, Inductive, PTL DEF Spec
<1> QED  BY <1>2 DEF HookSettlesSession, HookSettles

-----------------------------------------------------------------------------
(* The state of the abstract gate.                                         *)
AskedNow == [c \in Calls |-> Asked(c)]
RanNow == {c \in Calls : runs[c] > 0}

(* The steps of the abstract gate, in terms of that state.                 *)
LEMMA GateStutter ==
    ASSUME UNCHANGED AskedNow, UNCHANGED RanNow
    PROVE  UNCHANGED Gate!gateVars
BY DEF Gate!gateVars, AskedNow, RanNow

(* A question is asked.                                                    *)
LEMMA GateAsk ==
    ASSUME NEW c \in Calls, AskedNow[c] = "no", c \notin RanNow,
           AskedNow' = [AskedNow EXCEPT ![c] = "open"], UNCHANGED RanNow
    PROVE  Gate!Next
<1>1. Gate!Ask(c)
  BY DEF Gate!Ask, AskedNow, RanNow
<1> QED  BY <1>1 DEF Gate!Next

(* A question is granted.                                                  *)
LEMMA GateGrant ==
    ASSUME NEW c \in Calls, AskedNow[c] = "open",
           AskedNow' = [AskedNow EXCEPT ![c] = "granted"], UNCHANGED RanNow
    PROVE  Gate!Next
<1>1. Gate!Grant(c)
  BY DEF Gate!Grant, AskedNow, RanNow
<1> QED  BY <1>1 DEF Gate!Next

(* Questions are refused, or nothing happens.                              *)
LEMMA GateRefuse ==
    ASSUME NEW T \in SUBSET Calls, \A c \in T : AskedNow[c] = "open",
           AskedNow' = [c \in Calls |-> IF c \in T THEN "refused" ELSE AskedNow[c]],
           UNCHANGED RanNow
    PROVE  [Gate!Next]_Gate!gateVars
<1>1. CASE T = {}
  <2>1. AskedNow' = AskedNow
    BY <1>1 DEF AskedNow
  <2> QED  BY <2>1, GateStutter
<1>2. CASE T # {}
  <2>1. Gate!Refuse(T)
    BY <1>2 DEF Gate!Refuse, AskedNow, RanNow
  <2> QED  BY <2>1 DEF Gate!Next
<1> QED  BY <1>1, <1>2

(* A call runs.                                                            *)
LEMMA GateRun ==
    ASSUME NEW c \in Calls, AskedNow[c] \in {"no", "granted"}, c \notin RanNow,
           RanNow' = RanNow \cup {c}, UNCHANGED AskedNow
    PROVE  Gate!Next
<1>1. Gate!Run(c)
  BY DEF Gate!Run, AskedNow, RanNow
<1> QED  BY <1>1 DEF Gate!Next

(* What a call has asked, spelled out.                                     *)
LEMMA AskedFacts ==
    /\ \A c \in Calls : AskedNow[c] =
          IF call[c].id = 0 THEN "no"
          ELSE IF entry[call[c].id].decision = "APPROVED" THEN "granted"
          ELSE IF call[c].pc = "approval" /\ entry[call[c].id].decision = "none" THEN "open"
          ELSE "refused"
    /\ \A c \in Calls : AskedNow'[c] =
          IF call'[c].id = 0 THEN "no"
          ELSE IF entry'[call'[c].id].decision = "APPROVED" THEN "granted"
          ELSE IF call'[c].pc = "approval" /\ entry'[call'[c].id].decision = "none" THEN "open"
          ELSE "refused"
    /\ AskedNow = [c \in Calls |-> AskedNow[c]]
    /\ AskedNow' = [c \in Calls |-> AskedNow'[c]]
BY DEF AskedNow, Asked, At, Approvals!NoDecision

(* A handler that goes on without the approval registry asks nothing, and  *)
(* starts its call only if that was allowed.                               *)
LEMMA HandlerAloneGate ==
    ASSUME Inv, NEW c \in Calls, HandlerAlone(c)
    PROVE  [Gate!Next]_Gate!gateVars
<1>1. AskedNow' = AskedNow
  <2>1. entry' = entry
    BY HandlerAloneEffect DEF approvalVars
  <2>2. \A d \in Calls : AskedNow'[d] = AskedNow[d]
    BY <2>1, HandlerAloneEffect, AskedFacts
  <2> QED  BY <2>2, AskedFacts
<1>2. runs[c] \in 0 .. 1 /\ runs'[c] \in 0 .. 1
  BY CallFacts, HandlerAloneEffect
<1>3. CASE runs'[c] = runs[c]
  <2>1. RanNow' = RanNow
    BY <1>3, HandlerAloneEffect DEF RanNow
  <2> QED  BY <1>1, <2>1, GateStutter
<1>4. CASE runs[c] = 0 /\ runs'[c] = 1
  <2>1. c \notin RanNow /\ RanNow' = RanNow \cup {c}
    BY <1>4, HandlerAloneEffect DEF RanNow
  <2>2. AskedNow[c] = "no"
    BY <1>4, HandlerAloneEffect, AskedFacts
  <2> QED  BY <1>1, <2>1, <2>2, GateRun
<1>5. runs[c] <= runs'[c]
  BY HandlerAloneEffect
<1> QED  BY <1>2, <1>3, <1>4, <1>5

(* A call asks.                                                            *)
LEMMA AskGate ==
    ASSUME Inv, mode = "blocking", NEW c \in Calls, AskAndWait(c) \/ AskAndAnswer(c)
    PROVE  [Gate!Next]_Gate!gateVars
<1>1. /\ call[c].pc = "body"
      /\ Approvals!Enter(call[c].session, "waiting")
      /\ call' = [call EXCEPT ![c].pc = "approval", ![c].verdict = "REQUIRES_APPROVAL",
                              ![c].id = count']
      /\ runs' = runs
  BY DEF AskAndWait, AskAndAnswer, At, Approvals!RegisterAndWait
<1>2. /\ count \in Nat
      /\ Approvals!Ids = 1 .. count
      /\ call \in [Calls -> Call]
      /\ call[c].id = 0
      /\ runs[c] = 0
      /\ \A d \in Calls : call[d].id # 0 => call[d].id \in Approvals!Ids
  BY <1>1, RegistryFacts, CallFacts DEF Inv, CallInv, CallType, HandlerInv, AskInv, None
<1>3. /\ call'[c].id = count'
      /\ call'[c].pc = "approval"
      /\ count' # 0
      /\ entry'[count'].decision = "none"
      /\ \A id \in Approvals!Ids : entry'[id] = entry[id]
      /\ \A d \in Calls \ {c} : call'[d] = call[d]
  BY <1>1, <1>2 DEF Approvals!Enter, Approvals!NoDecision, Call
<1>4. RanNow' = RanNow /\ c \notin RanNow
  BY <1>1, <1>2 DEF RanNow
<1>5. AskedNow[c] = "no" /\ AskedNow'[c] = "open"
  BY <1>2, <1>3, AskedFacts
<1>6. \A d \in Calls \ {c} : AskedNow'[d] = AskedNow[d]
  BY <1>2, <1>3, AskedFacts
<1>7. AskedNow' = [AskedNow EXCEPT ![c] = "open"]
  BY <1>5, <1>6, AskedFacts
<1> QED  BY <1>4, <1>5, <1>7, GateAsk

(* A wait ends: a granted call runs or not, an open question is refused.   *)
LEMMA WaitOverGate ==
    ASSUME Inv, P!IInv', NEW c \in Calls, WaitOver(c)
    PROVE  [Gate!Next]_Gate!gateVars
<1>1. /\ call[c].pc = "approval"
      /\ call[c].id # 0
      /\ call'[c].id = call[c].id
      /\ call'[c].pc # "approval"
      /\ runs[c] = 0
      /\ entry' = entry
      /\ \A d \in Calls \ {c} : call'[d] = call[d] /\ runs'[d] = runs[d]
  BY WaitOverEffect DEF Inv, CallInv, HandlerInv, AskInv, At
<1>2. \A d \in Calls \ {c} : AskedNow'[d] = AskedNow[d]
  BY <1>1, AskedFacts
<1>3. AskedNow[c] # "no"
  BY <1>1, AskedFacts
<1>4. CASE AskedNow[c] = "granted"
  <2>1. AskedNow'[c] = "granted"
    BY <1>1, <1>4, AskedFacts
  <2>2. AskedNow' = AskedNow
    BY <1>2, <1>4, <2>1, AskedFacts
  <2>3. CASE runs'[c] = 0
    <3>1. RanNow' = RanNow
      BY <1>1, <2>3 DEF RanNow
    <3> QED  BY <2>2, <3>1, GateStutter
  <2>4. CASE runs'[c] = 1
    <3>1. c \notin RanNow /\ RanNow' = RanNow \cup {c}
      BY <1>1, <2>4 DEF RanNow
    <3> QED  BY <1>4, <2>2, <3>1, GateRun
  <2>5. runs'[c] \in {0, 1}
    BY WaitOverEffect
  <2> QED  BY <2>3, <2>4, <2>5
<1>5. CASE AskedNow[c] # "granted"
  <2>1. runs'[c] = 0
    BY <1>1, <1>5, WaitOverEffect, AskedFacts
  <2>2. RanNow' = RanNow
    BY <1>1, <2>1 DEF RanNow
  <2>3. AskedNow'[c] = "refused"
    BY <1>1, <1>5, AskedFacts
  <2> DEFINE T == {d \in {c} : AskedNow[d] = "open"}
  <2>4. AskedNow[c] \in {"open", "refused"}
    BY <1>1, <1>5, AskedFacts
  <2>5. AskedNow' = [d \in Calls |-> IF d \in T THEN "refused" ELSE AskedNow[d]]
    BY <1>2, <2>3, <2>4, AskedFacts
  <2>6. T \in SUBSET Calls /\ \A d \in T : AskedNow[d] = "open"
    OBVIOUS
  <2> HIDE DEF T
  <2> QED  BY <2>2, <2>5, <2>6, GateRefuse
<1> QED  BY <1>4, <1>5

(* An approver grants the question of the call that waits, or refuses it.  *)
LEMMA ApprovalGateStep ==
    ASSUME Inv, mode = "blocking", NEW a \in Agents, NEW id \in Approvals!Ids,
           NEW status \in Approvals!Resolutions, HandleApproval(a, id, status)
    PROVE  [Gate!Next]_Gate!gateVars
<1>1. /\ id \in pending
      /\ id # 0
      /\ entry[id].decision = "none"
      /\ entry \in [Approvals!Ids -> Approvals!Entry]
      /\ entry' = [entry EXCEPT ![id].decision = status, ![id].event = TRUE]
      /\ UNCHANGED <<call, runs>>
      /\ status \in {"APPROVED", "REJECTED"}
  BY RegistryFacts DEF Inv, HandleApproval, Approvals!Resolve, Approvals!ResolveOutcome,
     Approvals!Resolutions, Approvals!NoDecision
<1>2. /\ entry'[id].decision = status
      /\ \A i \in Approvals!Ids \ {id} : entry'[i] = entry[i]
  BY <1>1 DEF Approvals!Entry
<1>3. PICK c \in Calls : call[c].pc = "approval" /\ call[c].id = id
  BY <1>1 DEF Inv, CallInv, TableInv, At
<1>4. \A d \in Calls \ {c} : call[d].id # 0 => call[d].id \in Approvals!Ids \ {id}
  BY <1>1, <1>3 DEF Inv, CallInv, AskInv
<1>5. \A d \in Calls \ {c} : AskedNow'[d] = AskedNow[d]
  BY <1>1, <1>2, <1>4, AskedFacts
<1>6. RanNow' = RanNow
  BY <1>1 DEF RanNow
<1>7. AskedNow[c] = "open"
  BY <1>1, <1>3, AskedFacts
<1>8. CASE status = "APPROVED"
  <2>1. AskedNow'[c] = "granted"
    BY <1>1, <1>2, <1>3, <1>8, AskedFacts
  <2>2. AskedNow' = [AskedNow EXCEPT ![c] = "granted"]
    BY <1>5, <2>1, AskedFacts
  <2> QED  BY <1>6, <1>7, <2>2, GateGrant
<1>9. CASE status = "REJECTED"
  <2>1. AskedNow'[c] = "refused"
    BY <1>1, <1>2, <1>3, <1>9, AskedFacts
  <2> DEFINE T == {c}
  <2>2. AskedNow' = [d \in Calls |-> IF d \in T THEN "refused" ELSE AskedNow[d]]
    BY <1>5, <2>1, AskedFacts
  <2>3. T \in SUBSET Calls /\ \A d \in T : AskedNow[d] = "open"
    BY <1>7
  <2> HIDE DEF T
  <2> QED  BY <1>6, <2>2, <2>3, GateRefuse
<1> QED  BY <1>1, <1>8, <1>9

(* The hook of a session refuses its open questions, all at once.          *)
LEMMA HookGate ==
    ASSUME Inv, NEW s \in Sessions, OnSessionEvicted(s)
    PROVE  [Gate!Next]_Gate!gateVars
<1> DEFINE T == {c \in Calls : AskedNow[c] = "open" /\ AskedNow'[c] # "open"}
<1>1. /\ UNCHANGED <<call, runs>>
      /\ \A id \in Approvals!Ids : \/ entry'[id] = entry[id]
                                   \/ /\ entry[id].decision = "none"
                                      /\ entry'[id].decision = "EVICTED"
  BY HookEffect
<1>2. \A c \in Calls : call[c].id # 0 => call[c].id \in Approvals!Ids
  BY CallFacts
<1>3. \A c \in Calls : \/ AskedNow'[c] = AskedNow[c]
                       \/ AskedNow[c] = "open" /\ AskedNow'[c] = "refused"
  BY <1>1, <1>2, AskedFacts
<1>4. AskedNow' = [c \in Calls |-> IF c \in T THEN "refused" ELSE AskedNow[c]]
  BY <1>3, AskedFacts
<1>5. RanNow' = RanNow
  BY <1>1 DEF RanNow
<1>6. T \in SUBSET Calls /\ \A c \in T : AskedNow[c] = "open"
  OBVIOUS
<1> HIDE DEF T
<1> QED  BY <1>4, <1>5, <1>6, GateRefuse

(* Every step of the blocking gateway is a step of the gate, or none.      *)
LEMMA NextGate ==
    Inv /\ mode = "blocking" /\ [Next]_vars => [Gate!Next]_Gate!gateVars /\ mode' = mode
<1> SUFFICES ASSUME Inv, mode = "blocking", [Next]_vars
             PROVE  [Gate!Next]_Gate!gateVars /\ mode' = mode
  OBVIOUS
<1>1. P!IInv'
  BY RegistriesKept
<1>2. ASSUME UNCHANGED <<entry, call, runs>> PROVE [Gate!Next]_Gate!gateVars
  <2>1. AskedNow' = AskedNow
    BY <1>2, AskedFacts
  <2>2. RanNow' = RanNow
    BY <1>2 DEF RanNow
  <2> QED  BY <2>1, <2>2, GateStutter
<1>3. ASSUME NEW c \in Calls, HandlerStep(c)
      PROVE  [Gate!Next]_Gate!gateVars /\ mode' = mode
  <2>1. CASE HandlerAlone(c)
    BY <2>1, HandlerAloneGate, HandlerAloneEffect
  <2>2. CASE AskAndWait(c) \/ AskAndAnswer(c)
    BY <2>2, AskGate DEF AskAndWait, AskAndAnswer
  <2>3. CASE WaitOver(c)
    BY <1>1, <2>3, WaitOverGate, WaitOverEffect
  <2>4. CASE AbandonWait(c) \/ ApprovalTimer(c)
    BY <1>2, <2>4 DEF AbandonWait, ApprovalTimer, Approvals!CancelTask, Approvals!TimerFires
  <2> QED  BY <1>3, <2>1, <2>2, <2>3, <2>4 DEF HandlerStep, HandlerAlone, WaitOver
<1>4. ASSUME NEW a \in Agents, NEW id \in Approvals!Ids, NEW status \in Approvals!Resolutions,
             HandleApproval(a, id, status)
      PROVE  [Gate!Next]_Gate!gateVars /\ mode' = mode
  BY <1>4, ApprovalGateStep DEF HandleApproval
<1>5. ASSUME NEW s \in Sessions, OnSessionEvicted(s)
      PROVE  [Gate!Next]_Gate!gateVars /\ mode' = mode
  BY <1>5, HookGate DEF OnSessionEvicted
<1>6. ASSUME Environment \/ UNCHANGED vars
      PROVE  [Gate!Next]_Gate!gateVars /\ mode' = mode
  BY <1>2, <1>6 DEF Environment, vars, approvalVars
<1> QED  BY <1>3, <1>4, <1>5, <1>6 DEF Next

(* The blocking gateway, with its sessions, timers, hooks and registry,    *)
(* does to its calls only what the gate allows: it runs what did not ask   *)
(* or was granted, once, and what is settled stays so.  (That it settles   *)
(* every question is ImplementsGate's other half, a matter of fairness.)   *)
THEOREM GateImplemented ==
    Spec /\ mode = "blocking" => Gate!Init /\ [][Gate!Next]_Gate!gateVars
<1>1. Init => Gate!Init
  BY DEF Init, Gate!Init, Asked
<1>2. Inv /\ mode = "blocking" /\ [Next]_vars =>
         [Gate!Next]_Gate!gateVars /\ (mode = "blocking")'
  BY NextGate
<1>3. Spec /\ mode = "blocking" => [](mode = "blocking")
  BY <1>2, Inductive, PTL DEF Spec
<1> QED  BY <1>1, <1>2, <1>3, Inductive, PTL DEF Spec
=============================================================================

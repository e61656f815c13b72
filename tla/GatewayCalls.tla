---------------------------- MODULE GatewayCalls ----------------------------
(***************************************************************************)
(* The life of tools/call requests in the gateway (server.py): POST        *)
(* /messages looks the session up, reads the body, asks the policy, waits  *)
(* for a human decision where the policy says so, looks the session up     *)
(* again and calls the upstream server.  POST /approvals decides, session  *)
(* eviction cancels (app.py), timers and task cancellation interrupt.      *)
(*                                                                         *)
(* The handlers are coroutines of one event loop: an action is what a      *)
(* handler does between two awaits that really suspend it.  The session    *)
(* record read before the body is still used after it.                     *)
(*                                                                         *)
(* mode is how build_router was called: "blocking" (approval registry, the *)
(* call waits), "detached" (registry, the call is answered at once) or     *)
(* "plain" (no registry, the default of the settings).                     *)
(***************************************************************************)
EXTENDS Naturals, Sequences, FiniteSets

CONSTANTS
    Calls,              \* requests to POST /messages
    Sessions, Agents, AgentOf, Ttl, Idle, MaxTime, MaxPending, MaxRegistrations,
    Approvers,          \* policy.approvers; empty: every agent may approve
    Modes               \* the modes that runs start in

ASSUME CallsAssumption ==
    /\ AgentOf \in [Sessions -> Agents]
    /\ Ttl \in Nat \ {0}
    /\ Idle \in Nat \ {0}
    /\ MaxTime \in Nat
    /\ MaxPending \in Nat \ {0}
    /\ MaxRegistrations \in Nat
    /\ Approvers \subseteq Agents
    /\ Modes \subseteq {"blocking", "detached", "plain"}

VARIABLES
    count, entry, pending, recentIds, recent, waiter, answer,   \* ApprovalRegistry
    clock, created, records, lastActive, hooks, evictions,      \* SessionRegistry
    mode,        \* fixed at the start
    call,        \* call[c]: where the handler of request c is, and its locals
    runs,        \* runs[c]: how often upstream.call_tool was called for c
    resolver     \* the audit log of POST /approvals: id -> who decided it

Approvals == INSTANCE ApprovalRegistry
SessionReg == INSTANCE SessionRegistry

approvalVars == <<count, entry, pending, recentIds, recent, waiter, answer>>
sessionVars == <<clock, created, records, lastActive, hooks, evictions>>
vars == <<approvalVars, sessionVars, mode, call, runs, resolver>>

None == "none"

(* Every way a request is answered, by what its JSON-RPC error stands for. *)
Responses == {
    "session_invalid",      \* HTTP 404
    "no_call",              \* not a well-formed tools/call
    "denied",               \* -32601 or -32602 by policy or for a secret
    "registry_full",        \* -32603
    "approval_required",    \* -32001
    "approval_rejected",    \* -32002
    "approval_timeout",     \* -32003
    "session_expired",      \* -32004
    "upstream_error",       \* -32000
    "result_withheld",      \* -32602: the upstream's answer holds a secret
    "result"}

Init ==
    /\ Approvals!Init
    /\ SessionReg!Init
    /\ mode \in Modes
    /\ call = [c \in Calls |-> [pc |-> "new", session |-> None, verdict |-> None,
                                id |-> 0, response |-> None]]
    /\ runs = [c \in Calls |-> 0]
    /\ resolver = <<>>

At(c, pc) == call[c].pc = pc

Answer(c, response) ==
    call' = [call EXCEPT ![c].pc = "done", ![c].response = response]

(***************************************************************************)
(* _handle_messages up to the body: lookup, then touch in the same instant.*)
(***************************************************************************)
Receive(c, s) ==
    /\ At(c, "new")
    /\ SessionReg!Lookup(s)
    /\ call' = IF SessionReg!Found(s)
               THEN [call EXCEPT ![c].pc = "body", ![c].session = s]
               ELSE [call EXCEPT ![c].pc = "done", ![c].session = s,
                                 ![c].response = "session_invalid"]
    /\ UNCHANGED <<approvalVars, mode, runs, resolver>>

(***************************************************************************)
(* The body has arrived.  Not a tools/call, malformed, denied by policy or *)
(* holding a secret: answered at once.                                     *)
(***************************************************************************)
TurnDown(c) ==
    /\ At(c, "body")
    /\ \E response \in {"no_call", "denied"} : Answer(c, response)
    /\ UNCHANGED <<approvalVars, sessionVars, mode, runs, resolver>>

(* ALLOW: the upstream is called with the record of the first lookup.      *)
CallAllowed(c) ==
    /\ At(c, "body")
    /\ call' = [call EXCEPT ![c].pc = "upstream", ![c].verdict = "ALLOW"]
    /\ runs' = [runs EXCEPT ![c] = @ + 1]
    /\ UNCHANGED <<approvalVars, sessionVars, mode, resolver>>

(* REQUIRES_APPROVAL, in each of the modes.                                *)
AskAndWait(c) ==
    /\ At(c, "body")
    /\ mode = "blocking"
    /\ Approvals!RegisterAndWait(call[c].session)
    /\ call' = [call EXCEPT ![c].pc = "approval", ![c].verdict = "REQUIRES_APPROVAL",
                            ![c].id = count']
    /\ UNCHANGED <<sessionVars, mode, runs, resolver>>

AskAndAnswer(c) ==
    /\ At(c, "body")
    /\ mode = "detached"
    /\ Approvals!Register(call[c].session)
    /\ call' = [call EXCEPT ![c].pc = "done", ![c].verdict = "REQUIRES_APPROVAL",
                            ![c].id = count', ![c].response = "approval_required"]
    /\ UNCHANGED <<sessionVars, mode, runs, resolver>>

AnswerUnregistered(c) ==
    /\ At(c, "body")
    /\ \/ mode = "plain" /\ Answer(c, "approval_required")
       \/ mode # "plain" /\ Approvals!Full /\ Answer(c, "registry_full")
    /\ UNCHANGED <<approvalVars, sessionVars, mode, runs, resolver>>

(***************************************************************************)
(* wait_for_decision has ended: the session is looked up again, and only   *)
(* then does the decision count.                                           *)
(***************************************************************************)
(* Mutants: the session is not looked at; a timeout counts as approval.    *)
GoAheadAnyway(c) == answer'[call[c].id] = "APPROVED"
GoAheadUnlessRejected(c) ==
    SessionReg!Found(call[c].session) /\ answer'[call[c].id] \in {"APPROVED", "TIMEOUT"}

GoAhead(c) == SessionReg!Found(call[c].session) /\ answer'[call[c].id] = "APPROVED"

Decided(c) ==
    LET id == call[c].id
        s == call[c].session
    IN  /\ At(c, "approval")
        /\ waiter[id] # "cancelled"
        /\ Approvals!Resume(id)
        /\ SessionReg!Lookup(s)
        /\ IF GoAhead(c)
           THEN /\ call' = [call EXCEPT ![c].pc = "upstream"]
                /\ runs' = [runs EXCEPT ![c] = @ + 1]
           ELSE /\ Answer(c, IF ~SessionReg!Found(s) THEN "session_expired"
                             ELSE IF answer'[id] = "TIMEOUT" THEN "approval_timeout"
                             ELSE "approval_rejected")
                /\ UNCHANGED runs
        /\ UNCHANGED <<mode, resolver>>

(* The upstream answers, fails or times out (UpstreamError); an answer     *)
(* that holds a secret is withheld, although the tool has run.             *)
UpstreamReturns(c) ==
    /\ At(c, "upstream")
    /\ \E response \in {"result", "upstream_error", "result_withheld"} :
          Answer(c, response)
    /\ UNCHANGED <<approvalVars, sessionVars, mode, runs, resolver>>

(* The request's task is cancelled at the await it is suspended on.        *)
Abandon(c) ==
    /\ call[c].pc \in {"body", "upstream"}
    /\ call' = [call EXCEPT ![c].pc = "cancelled"]
    /\ UNCHANGED <<approvalVars, sessionVars, mode, runs, resolver>>

AbandonWaitAtOnce(c) ==   \* mutant: cancellation takes the entry out itself
    /\ At(c, "approval")
    /\ waiter[call[c].id] \in {"waiting", "timedOut"}
    /\ waiter' = [waiter EXCEPT ![call[c].id] = "cancelled"]
    /\ pending' = pending \ {call[c].id}
    /\ UNCHANGED <<count, entry, recentIds, recent, answer, sessionVars, mode, call, runs,
                   resolver>>

AbandonWait(c) ==
    /\ At(c, "approval")
    /\ Approvals!CancelTask(call[c].id)
    /\ UNCHANGED <<sessionVars, mode, call, runs, resolver>>

FinishAbandoned(c) ==
    /\ At(c, "approval")
    /\ waiter[call[c].id] = "cancelled"
    /\ Approvals!Resume(call[c].id)
    /\ call' = [call EXCEPT ![c].pc = "cancelled"]
    /\ UNCHANGED <<sessionVars, mode, runs, resolver>>

ApprovalTimerOfLive(c) ==   \* mutant: the timer ends with its session
    /\ At(c, "approval")
    /\ call[c].session \in SessionReg!Live
    /\ Approvals!TimerFires(call[c].id)
    /\ UNCHANGED <<sessionVars, mode, call, runs, resolver>>

ApprovalTimer(c) ==
    /\ At(c, "approval")
    /\ Approvals!TimerFires(call[c].id)
    /\ UNCHANGED <<sessionVars, mode, call, runs, resolver>>

HandleApprovalOfAnyRole(a, id, status) ==   \* mutant: no look at the approvers
    /\ mode # "plain"
    /\ Approvals!Resolve(id, a, status)
    /\ resolver' = [i \in DOMAIN resolver \cup {id} |-> IF i = id THEN a ELSE resolver[i]]
    /\ UNCHANGED <<sessionVars, mode, call, runs>>

(***************************************************************************)
(* POST /approvals of an authenticated agent whose body has been read: the *)
(* refusals (self approval, role, unknown or decided id) change nothing.   *)
(* The route exists only with a registry.                                  *)
(***************************************************************************)
HandleApproval(a, id, status) ==
    /\ mode # "plain"
    /\ id \in pending => entry[id].requester # a
    /\ Approvers # {} => a \in Approvers
    /\ Approvals!Resolve(id, a, status)
    /\ resolver' = [i \in DOMAIN resolver \cup {id} |-> IF i = id THEN a ELSE resolver[i]]
    /\ UNCHANGED <<sessionVars, mode, call, runs>>

(* The hook of app.py, _on_session_evicted.                                *)
OnSessionEvicted(s) ==
    /\ SessionReg!RunHook(s)
    /\ Approvals!CancelSession(s)
    /\ UNCHANGED <<mode, call, runs, resolver>>

(* Time passes; a handshake creates a session.  purge and remove have no   *)
(* caller in the gateway.                                                  *)
Environment ==
    /\ \/ SessionReg!Tick
       \/ \E s \in Sessions : SessionReg!Create(s)
    /\ UNCHANGED <<approvalVars, mode, call, runs, resolver>>

-----------------------------------------------------------------------------
HandlerStep(c) ==
    \/ \E s \in Sessions : Receive(c, s)
    \/ TurnDown(c)
    \/ CallAllowed(c)
    \/ AskAndWait(c)
    \/ AskAndAnswer(c)
    \/ AnswerUnregistered(c)
    \/ Decided(c)
    \/ UpstreamReturns(c)
    \/ Abandon(c)
    \/ AbandonWait(c)
    \/ FinishAbandoned(c)
    \/ ApprovalTimer(c)

Next ==
    \/ \E c \in Calls : HandlerStep(c)
    \/ \E a \in Agents, id \in Approvals!Ids, status \in Approvals!Resolutions :
          HandleApproval(a, id, status)
    \/ \E s \in Sessions : OnSessionEvicted(s)
    \/ Environment

(* What the event loop owes: scheduled tasks run, due timers fire, and an  *)
(* upstream call ends at the latest with its own timeout.  Clients,        *)
(* approvers and the clock owe nothing.                                    *)
Fairness ==
    /\ \A c \in Calls :
          /\ WF_vars(Decided(c))
          /\ WF_vars(FinishAbandoned(c))
          /\ WF_vars(ApprovalTimer(c))
          /\ WF_vars(UpstreamReturns(c))
    /\ \A s \in Sessions : WF_vars(OnSessionEvicted(s))

Spec == Init /\ [][Next]_vars /\ Fairness

-----------------------------------------------------------------------------
(* The four-eyes rule: a call that policy sends to a human reaches the     *)
(* upstream server only in the blocking mode, after APPROVED by an agent   *)
(* other than the one whose session made it, and by one of the configured  *)
(* approvers if there are any; and no call reaches it twice.               *)
RunsOnlyAuthorised ==
    \A c \in Calls :
        /\ runs[c] <= 1
        /\ runs[c] > 0 /\ call[c].verdict = "REQUIRES_APPROVAL" =>
              LET id == call[c].id IN
              /\ mode = "blocking"
              /\ entry[id].decision = "APPROVED"
              /\ resolver[id] # AgentOf[call[c].session]
              /\ Approvers # {} => resolver[id] \in Approvers
              /\ \A d \in Calls \ {c} : call[d].id # id

(* What the caller is told is what happened: a timeout means that no       *)
(* approver's decision was accepted, a rejection that somebody rejected it *)
(* or its session was evicted, an expired session that the session is      *)
(* gone - and an accepted approval of a live session ran.                  *)
TruthfulAnswers ==
    \A c \in Calls :
        LET id == call[c].id
            response == call[c].response
        IN  /\ response = "approval_timeout" =>
                  entry[id].decision \in {Approvals!NoDecision, "EVICTED"}
            /\ response = "approval_rejected" =>
                  entry[id].decision \in {"REJECTED", "EVICTED"}
            /\ response = "session_expired" => call[c].session \notin SessionReg!Live
            /\ response \in {"result", "upstream_error", "result_withheld"} => runs[c] = 1
            /\ response \notin {None, "result", "upstream_error", "result_withheld"}
                  => runs[c] = 0

(* In the blocking mode the table holds exactly the approvals whose        *)
(* handlers still wait and that no eviction has cancelled.  None is        *)
(* leaked; and until its handler has run again none is lost, be it         *)
(* undecided, decided by an approver, timed out or abandoned.              *)
TableMatchesWaits ==
    mode = "blocking" =>
        /\ \A id \in pending : \E c \in Calls : At(c, "approval") /\ call[c].id = id
        /\ \A c \in Calls : At(c, "approval") =>
              LET id == call[c].id
              IN  /\ waiter[id] \in Approvals!Suspended
                  /\ id \in pending <=> entry[id].decision # "EVICTED"

(* The decision counts only for a session that is still alive when the     *)
(* handler wakes up: a call goes from waiting to the upstream server only  *)
(* in a step that found its session and refreshed it.                      *)
ApprovedRunsInLiveSession ==
    [][\A c \in Calls : At(c, "approval") /\ runs'[c] > runs[c] =>
          LET s == call[c].session IN
          /\ s \in SessionReg!Live /\ ~SessionReg!Expired(s)
          /\ lastActive'[s] = clock
          /\ evictions'[s] = 0]_vars

(* Every call that waits for a human or for the upstream server is         *)
(* answered, or its task has been cancelled and is gone.                   *)
CallsAnswered ==
    \A c \in Calls : call[c].pc \in {"approval", "upstream"}
                        ~> call[c].pc \in {"done", "cancelled"}

(* The hook of an evicted session reaches every call that waits in it: the *)
(* step that runs it leaves none of them undecided and wakes those it      *)
(* takes out of the table.  Approvals of other sessions, and those that    *)
(* an approver settled first, stay in the table as they are.               *)
HookSettlesSession ==
    [][\A s \in Sessions : hooks'[s] < hooks[s] =>
          /\ \A id \in pending' : entry'[id].session = s
                                      => entry'[id].decision \in Approvals!Resolutions
          /\ \A id \in pending \ pending' : entry[id].session = s /\ entry'[id].event
          /\ \A id \in Approvals!Ids :
                entry[id].session # s \/ entry[id].decision # Approvals!NoDecision =>
                   /\ entry'[id] = entry[id]
                   /\ id \in pending => id \in pending']_vars

(***************************************************************************)
(* tests/unit/test_chronos_gate.py, test_session_eviction_cancels_pending, *)
(* expects that the eviction of a session empties its pending approvals:   *)
(* once the hook has run, no undecided approval of the session is left.    *)
(***************************************************************************)
NoOrphanApproval ==
    \A id \in pending :
        entry[id].session \notin SessionReg!Live /\ entry[id].decision = Approvals!NoDecision
            => hooks[entry[id].session] > 0

-----------------------------------------------------------------------------
(* The abstract gate: a question is open while its approval is undecided   *)
(* and its handler waits for it.                                           *)
Asked(c) ==
    LET id == call[c].id IN
    IF id = 0 THEN "no"
    ELSE IF entry[id].decision = "APPROVED" THEN "granted"
    ELSE IF At(c, "approval") /\ entry[id].decision = Approvals!NoDecision THEN "open"
    ELSE "refused"

Gate == INSTANCE ApprovalGate WITH
            asked <- [c \in Calls |-> Asked(c)],
            ran <- {c \in Calls : runs[c] > 0}

(* The blocking gateway implements the gate: what waits is settled, what   *)
(* is settled stays so, and what asked runs once at most and only granted. *)
ImplementsGate == Gate!Spec

(* The handlers and hooks use the registry only as its module describes.   *)
ImplementsRegistry == Approvals!Init /\ [][Approvals!Next]_approvalVars
=============================================================================

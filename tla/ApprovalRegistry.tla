-------------------------- MODULE ApprovalRegistry --------------------------
(***************************************************************************)
(* PendingApprovalRegistry (approval/registry.py): the in-memory table of  *)
(* tool calls that wait for a human decision.                              *)
(*                                                                         *)
(* One coroutine registers an approval and suspends on the entry's         *)
(* asyncio.Event; approvers resolve it; the eviction of a session cancels  *)
(* its undecided entries; a timer and task cancellation can interrupt the  *)
(* wait.  Every critical section of the class is free of awaits, so its    *)
(* asyncio.Lock is never contended and a method runs as one step.  Setting *)
(* the event, firing the timer and cancelling the task only SCHEDULE the   *)
(* waiter: whatever other tasks do before it runs again is an interleaving *)
(* of this module.                                                         *)
(*                                                                         *)
(* Approval ids are uuid4 values; the n-th registered id is called n, so   *)
(* the insertion order of the _pending dictionary is the order of numbers. *)
(***************************************************************************)
EXTENDS Naturals, Sequences, FiniteSets, Functions

CONSTANTS
    Sessions,          \* session ids
    Agents,            \* agent ids
    AgentOf,           \* AgentOf[s]: the agent whose handshake created session s
    MaxPending,        \* approval_max_pending of the settings
    MaxRegistrations   \* bound of the model: approvals registered in a run

ASSUME RegistryAssumption ==
    /\ AgentOf \in [Sessions -> Agents]
    /\ MaxPending \in Nat \ {0}
    /\ MaxRegistrations \in Nat

VARIABLES
    count,       \* how many approvals were registered; ids are 1..count
    entry,       \* entry[id]: the _Pending object, also held by its waiter
    pending,     \* keys of _pending
    recentIds,   \* _recent_ids, a deque with maxlen = MaxPending
    recent,      \* _recent_decisions
    waiter,      \* waiter[id]: the coroutine inside wait_for_decision
    answer       \* answer[id]: what wait_for_decision returned

vars == <<count, entry, pending, recentIds, recent, waiter, answer>>

Ids == 1 .. count

NoDecision == "none"

(* An ApprovalDecision: EVICTED is REJECTED with cancel_session's reason,  *)
(* NOT_FOUND is REJECTED with reason "not_found_or_evicted".               *)
Decisions == {"APPROVED", "REJECTED", "EVICTED", "TIMEOUT", "NOT_FOUND"}

(* The statuses that resolve() accepts.                                    *)
Resolutions == {"APPROVED", "REJECTED"}

Entry == [session : Sessions, requester : Agents, event : BOOLEAN,
          decision : {NoDecision} \cup Resolutions \cup {"EVICTED"}]

(* The waiter is "idle" before wait_for_decision is called; "waiting" on   *)
(* the event; "timedOut" or "cancelled" when the timer fired or its task   *)
(* was cancelled and it has not run yet; "returned" or "raised" at its end.*)
Suspended == {"waiting", "timedOut", "cancelled"}
Ended == {"returned", "raised"}
Phases == {"idle"} \cup Suspended \cup Ended

Init ==
    /\ count = 0
    /\ entry = <<>>
    /\ pending = {}
    /\ recentIds = <<>>
    /\ recent = <<>>
    /\ waiter = <<>>
    /\ answer = <<>>

(* Mutant: the decision of the id that falls out of the deque is kept.     *)
RememberForEver(ids, d) ==
    LET all == recentIds \o ids
        drop == IF Len(all) > MaxPending THEN Len(all) - MaxPending ELSE 0
    IN  /\ recentIds' = SubSeq(all, drop + 1, Len(all))
        /\ recent' = [id \in DOMAIN recent \cup Range(ids) |->
                          IF id \in Range(ids) THEN d ELSE recent[id]]

(***************************************************************************)
(* _add_to_history for a sequence of ids that are not in the history yet:  *)
(* appended in order, the oldest fall out when the deque is full.          *)
(***************************************************************************)
Remember(ids, d) ==
    LET all == recentIds \o ids
        drop == IF Len(all) > MaxPending THEN Len(all) - MaxPending ELSE 0
        kept == SubSeq(all, drop + 1, Len(all))
    IN  /\ recentIds' = kept
        /\ recent' = [id \in Range(kept) |->
                          IF id \in Range(ids) THEN d ELSE recent[id]]

AddToHistory(id, d) ==
    IF id \in DOMAIN recent
    THEN UNCHANGED <<recentIds, recent>>
    ELSE Remember(<<id>>, d)

(***************************************************************************)
(* register: refused with PolicyError when the table is full, and that     *)
(* leaves the state alone.                                                 *)
(***************************************************************************)
FullTooLate == Cardinality(pending) > MaxPending   \* mutant: off by one

Full == Cardinality(pending) >= MaxPending

Enter(s, phase) ==
    /\ ~Full
    /\ count < MaxRegistrations
    /\ LET id == count + 1
           Extend(f, v) == [i \in 1 .. id |-> IF i = id THEN v ELSE f[i]]
       IN  /\ count' = id
           /\ entry' = Extend(entry, [session |-> s, requester |-> AgentOf[s],
                                      event |-> FALSE,
                                      decision |-> NoDecision])
           /\ waiter' = Extend(waiter, phase)
           /\ answer' = Extend(answer, NoDecision)
           /\ pending' = pending \cup {id}
    /\ UNCHANGED <<recentIds, recent>>

Register(s) == Enter(s, "idle")

(* The blocking caller: nothing suspends between register and the wait on  *)
(* the event, so the two are one step.                                     *)
RegisterAndWait(s) == Enter(s, "waiting")

(***************************************************************************)
(* wait_for_decision.  Its three ends share the removal of the entry.      *)
(***************************************************************************)
EndKeepingEntry(id, phase, d) ==   \* mutant: the pop is forgotten
    /\ waiter' = [waiter EXCEPT ![id] = phase]
    /\ answer' = [answer EXCEPT ![id] = d]
    /\ UNCHANGED <<count, entry, pending>>

End(id, phase, d) ==
    /\ waiter' = [waiter EXCEPT ![id] = phase]
    /\ answer' = [answer EXCEPT ![id] = d]
    /\ pending' = pending \ {id}
    /\ UNCHANGED <<count, entry>>

(* The event was set: the decision of the entry the coroutine holds, which *)
(* cancel_session may have removed from the table already.                 *)
ReturnDecision(id) ==
    LET d == entry[id].decision
    IN  IF d = NoDecision
        THEN End(id, "returned", "TIMEOUT") /\ UNCHANGED <<recentIds, recent>>
        ELSE End(id, "returned", d) /\ AddToHistory(id, d)

(* Mutants: the timeout wins over a decision; or records itself over it.   *)
ReturnTimeoutAlways(id) ==
    End(id, "returned", "TIMEOUT") /\ AddToHistory(id, "TIMEOUT")

ReturnTimeoutMisrecorded(id) ==
    LET decided == id \in pending /\ entry[id].decision # NoDecision
    IN  /\ End(id, "returned", IF decided THEN entry[id].decision ELSE "TIMEOUT")
        /\ AddToHistory(id, "TIMEOUT")

(* The TimeoutError branch: a decision that came between the timer and     *)
(* this step is honoured if the entry is still in the table.               *)
ReturnTimeout(id) ==
    LET d == entry[id].decision
        decided == id \in pending /\ d # NoDecision
        final == IF decided THEN d ELSE "TIMEOUT"
    IN  End(id, "returned", final) /\ AddToHistory(id, final)

(* Mutant: the cancelled waiter takes the decision with it.                *)
RaiseCancelledForgetting(id) ==
    End(id, "raised", NoDecision) /\ UNCHANGED <<recentIds, recent>>

(* The CancelledError branch: re-raised; an undecided entry just vanishes. *)
RaiseCancelled(id) ==
    /\ End(id, "raised", NoDecision)
    /\ IF id \in pending /\ entry[id].decision # NoDecision
       THEN AddToHistory(id, entry[id].decision)
       ELSE UNCHANGED <<recentIds, recent>>

(* The call itself: without an entry it answers from the history, with the *)
(* event already set it does not suspend.                                  *)
WaitWithoutEntry(id) ==
    /\ waiter[id] = "idle"
    /\ id \notin pending
    /\ End(id, "returned", IF id \in DOMAIN recent THEN recent[id] ELSE "NOT_FOUND")
    /\ UNCHANGED <<recentIds, recent>>

WaitDecided(id) ==
    /\ waiter[id] = "idle"
    /\ id \in pending
    /\ entry[id].event
    /\ ReturnDecision(id)

WaitSuspends(id) ==
    /\ waiter[id] = "idle"
    /\ id \in pending
    /\ ~entry[id].event
    /\ waiter' = [waiter EXCEPT ![id] = "waiting"]
    /\ UNCHANGED <<count, entry, pending, recentIds, recent, answer>>

(* Mutant: the cancellation of the task is swallowed.                      *)
ResumeUncancelled(id) ==
    \/ waiter[id] = "waiting" /\ entry[id].event /\ ReturnDecision(id)
    \/ waiter[id] = "timedOut" /\ ReturnTimeout(id)

(* The suspended coroutine runs again.                                     *)
Resume(id) ==
    \/ waiter[id] = "waiting" /\ entry[id].event /\ ReturnDecision(id)
    \/ waiter[id] = "timedOut" /\ ReturnTimeout(id)
    \/ waiter[id] = "cancelled" /\ RaiseCancelled(id)

(* asyncio.timeout fires, with the event set or not: the timeout wins over *)
(* a wakeup that has been scheduled but has not run.                       *)
TimerFires(id) ==
    /\ waiter[id] = "waiting"
    /\ waiter' = [waiter EXCEPT ![id] = "timedOut"]
    /\ UNCHANGED <<count, entry, pending, recentIds, recent, answer>>

(* The task is cancelled; that wins over the timer and over the wakeup.    *)
CancelTask(id) ==
    /\ waiter[id] \in {"waiting", "timedOut"}
    /\ waiter' = [waiter EXCEPT ![id] = "cancelled"]
    /\ UNCHANGED <<count, entry, pending, recentIds, recent, answer>>

(* Mutants of resolve: a decision can be overwritten; the event is not set.*)
ResolveOutcomeAgain(id, agent, status) ==
    IF status \notin Resolutions THEN "INVALID_STATUS"
    ELSE IF id \notin pending THEN "NOT_FOUND"
    ELSE IF agent = entry[id].requester THEN "FORBIDDEN"
    ELSE "OK"

ResolveSilently(id, agent, status) ==
    /\ id \in pending
    /\ entry[id].decision = NoDecision
    /\ entry[id].requester # agent
    /\ status \in Resolutions
    /\ entry' = [entry EXCEPT ![id].decision = status]
    /\ UNCHANGED <<count, pending, recentIds, recent, waiter, answer>>

(***************************************************************************)
(* resolve: the outcome it returns, and its effect when that is OK.        *)
(***************************************************************************)
ResolveOutcome(id, agent, status) ==
    IF status \notin Resolutions THEN "INVALID_STATUS"
    ELSE IF id \notin pending
         THEN IF id \in DOMAIN recent THEN "ALREADY_RESOLVED" ELSE "NOT_FOUND"
    ELSE IF entry[id].decision # NoDecision THEN "ALREADY_RESOLVED"
    ELSE IF agent = entry[id].requester THEN "FORBIDDEN"
    ELSE "OK"

Resolve(id, agent, status) ==
    /\ ResolveOutcome(id, agent, status) = "OK"
    /\ entry' = [entry EXCEPT ![id].decision = status, ![id].event = TRUE]
    /\ UNCHANGED <<count, pending, recentIds, recent, waiter, answer>>

(***************************************************************************)
(* cancel_session: the undecided entries of the session, in the order of   *)
(* the dictionary, leave the table rejected.                               *)
(***************************************************************************)
OpenOfAll(s) == {id \in pending : entry[id].decision = NoDecision}   \* mutant: any session

Open(s) == {id \in pending : entry[id].session = s /\ entry[id].decision = NoDecision}

InOrder(S) == {ids \in [1 .. Cardinality(S) -> S] :
                  \A i, j \in 1 .. Cardinality(S) : i < j => ids[i] < ids[j]}

CancelSession(s) ==
    /\ \E ids \in InOrder(Open(s)) : Remember(ids, "EVICTED")
    /\ pending' = pending \ Open(s)
    /\ entry' = [id \in Ids |-> IF id \in Open(s)
                                THEN [entry[id] EXCEPT !.decision = "EVICTED", !.event = TRUE]
                                ELSE entry[id]]
    /\ UNCHANGED <<count, waiter, answer>>

-----------------------------------------------------------------------------
WaiterStep(id) ==
    \/ WaitWithoutEntry(id)
    \/ WaitDecided(id)
    \/ WaitSuspends(id)
    \/ Resume(id)
    \/ TimerFires(id)
    \/ CancelTask(id)

Next ==
    \/ \E s \in Sessions : Register(s) \/ RegisterAndWait(s) \/ CancelSession(s)
    \/ \E id \in Ids : WaiterStep(id)
    \/ \E id \in Ids, a \in Agents, status \in Decisions : Resolve(id, a, status)

(* The event loop runs a scheduled task and fires a due timer.             *)
Fairness == \A id \in 1 .. MaxRegistrations :
                WF_vars(id \in Ids /\ (Resume(id) \/ TimerFires(id)))

Spec == Init /\ [][Next]_vars /\ Fairness

-----------------------------------------------------------------------------
(* Every variable keeps the shape the class gives it, and neither the      *)
(* table nor the deque outgrows approval_max_pending.                      *)
TypeOK ==
    /\ count \in 0 .. MaxRegistrations
    /\ entry \in [Ids -> Entry]
    /\ pending \in SUBSET Ids
    /\ Cardinality(pending) <= MaxPending
    /\ recentIds \in Seq(Ids)
    /\ Len(recentIds) <= MaxPending
    /\ recent \in [DOMAIN recent -> Decisions]
    /\ waiter \in [Ids -> Phases]
    /\ answer \in [Ids -> Decisions \cup {NoDecision}]

(* The deque and the dictionary of the history name the same approvals,    *)
(* none twice, so an entry that falls out of one falls out of the other.   *)
HistoryMirrorsDeque ==
    /\ DOMAIN recent = Range(recentIds)
    /\ IsInjective(recentIds)

(* The table holds only open approvals: whatever ends one - wakeup, timer, *)
(* cancellation or eviction - takes it out, so no approval is open and     *)
(* remembered at once, and a blocking gateway cannot fill the table with   *)
(* approvals whose call has gone.                                          *)
TableHoldsOnlyOpen ==
    \A id \in pending : id \notin DOMAIN recent /\ waiter[id] \notin Ended

(* No lost wakeup: an approval whose coroutine is suspended on the event   *)
(* and not yet woken is still in the table, where resolve and              *)
(* cancel_session reach it; and every decision sets the event.             *)
NoLostWakeup ==
    \A id \in Ids :
        /\ entry[id].event <=> entry[id].decision # NoDecision
        /\ waiter[id] \in Suspended /\ ~entry[id].event => id \in pending

(* The answer of the approver is the answer of the call: a decision that   *)
(* resolve accepted is what the waiter returns, however it raced with the  *)
(* timer and with the eviction of the session, and APPROVED is returned    *)
(* only if an approver said so.                                            *)
AcceptedDecisionReturned ==
    \A id \in Ids : waiter[id] = "returned" =>
        /\ entry[id].decision \in Resolutions => answer[id] = entry[id].decision
        /\ answer[id] = "APPROVED" => entry[id].decision = "APPROVED"

(* What the history tells later callers agrees with what the waiter got,   *)
(* except that an eviction between the timer and the waiter's step is      *)
(* recorded as REJECTED and returned as TIMEOUT.                           *)
HistoryAgrees ==
    \A id \in DOMAIN recent : waiter[id] = "returned" =>
        \/ recent[id] = answer[id]
        \/ recent[id] = "EVICTED" /\ answer[id] = "TIMEOUT"

(* No decision gets lost: the step that takes an approval out of the table,*)
(* be it a wakeup, the timer, a cancellation that came after the decision  *)
(* or the eviction of several at once, leaves in the history what its      *)
(* caller was told or else what was decided, so that wait_for_decision and *)
(* resolve still know of it afterwards.                                    *)
RemovalsRemembered ==
    [][\A id \in pending \ pending' :
          LET final == IF waiter'[id] = "returned" THEN answer'[id] ELSE entry'[id].decision
          IN  final # NoDecision => id \in DOMAIN recent' /\ recent'[id] = final]_vars

(* Only one resolution or eviction counts: a decision never changes once   *)
(* made, and neither does the record of it while it is remembered.         *)
DecisionsFinal ==
    [][/\ \A id \in Ids : entry[id].decision # NoDecision =>
                              entry'[id].decision = entry[id].decision
       /\ \A id \in DOMAIN recent \cap DOMAIN recent' : recent'[id] = recent[id]]_vars

(* Nobody waits for ever: a suspended wait_for_decision ends.              *)
WaitEnds == \A id \in 1 .. MaxRegistrations :
                (id \in Ids /\ waiter[id] \in Suspended)
                    ~> (id \in Ids /\ waiter[id] \in Ended)
=============================================================================

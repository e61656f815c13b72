-------------------------- MODULE PermissionPlugin --------------------------
(***************************************************************************)
(* The OpenCode plugin (.opencode/plugins/chronos-gate.js).  Its host asks *)
(* it for permissions, by a call of the hook "permission.ask" or by an     *)
(* event "permission.asked"; the plugin asks the gateway (POST /evaluate)  *)
(* and fills in the hook's output, or answers the event by a call of its   *)
(* host.  When it is activated it starts a gateway if none answers.        *)
(*                                                                         *)
(* JavaScript runs a callback to its end: an action is a callback with the *)
(* continuations it releases, up to the next call that goes out.           *)
(***************************************************************************)
EXTENDS Naturals, Sequences, FiniteSets

CONSTANTS
    Activations,   \* calls of the exports tui and server by the host
    Events,        \* api.event objects the host passes in
    Capable,       \* those that come with a permission.reply to call
    Asks           \* permissions the host asks for

ASSUME PluginAssumption ==
    /\ IsFiniteSet(Activations)
    /\ Capable \subseteq Events

VARIABLES
    probe,        \* probe[a]: the socket that activation a opened to the gateway
    tracked,      \* permissionAskedListeners: events with a listener
    listeners,    \* listeners[e]: how often the adapter listens to e
    latch,        \* isSpawning
    gateway,      \* whether a gateway answers at the port
    fresh, old,   \* gateways being started: under this latch, under earlier ones
    task,         \* task[<<a, n>>]: a's evaluation by the hook (n = 0) or listener n
    delivered     \* delivered[a]: the replies to a that reached the host

starting == <<latch, gateway, fresh, old>>
vars == <<probe, tracked, listeners, starting, task, delivered>>

(* "bad" is a status other than 200 or a body that is no JSON object; any  *)
(* decision but allow and ask counts as "deny".                            *)
Answers == {"allow", "ask", "deny", "bad"}
Statuses == {"allow", "ask", "deny"}
Replies == {"once", "reject"}

(* Each activation registers at most one listener.                         *)
MaxListeners == Cardinality(Activations)

Tasks == Asks \X (0 .. MaxListeners)

(* A task: where it is (pc); whether it came by an event and that event    *)
(* names session and request (ids); its connection; the answer it has read *)
(* to the end; output.status; how many calls of reply have thrown.         *)
Idle == [pc |-> "idle", byEvent |-> FALSE, ids |-> FALSE, conn |-> "none",
         answer |-> "none", output |-> "none", thrown |-> 0]

Init ==
    /\ probe = [a \in Activations |-> "none"]
    /\ tracked = {}
    /\ listeners = [e \in Events |-> 0]
    /\ latch = FALSE
    /\ gateway \in BOOLEAN
    /\ fresh = 0
    /\ old = 0
    /\ task = [t \in Tasks |-> Idle]
    /\ delivered = [a \in Asks |-> <<>>]

-----------------------------------------------------------------------------
(* Activation.                                                             *)

(* Mutant: the registry of listeners is never consulted.                   *)
RegisterAgain(e) ==
    IF e \in Capable
    THEN /\ tracked' = tracked \cup {e}
         /\ listeners' = [listeners EXCEPT ![e] = @ + 1]
    ELSE UNCHANGED <<tracked, listeners>>

RegisterPermissionAskedHandler(e) ==
    IF e \in Capable \ tracked
    THEN /\ tracked' = tracked \cup {e}
         /\ listeners' = [listeners EXCEPT ![e] = @ + 1]
    ELSE UNCHANGED <<tracked, listeners>>

ActivateTui(a, e) ==
    /\ probe[a] = "none"
    /\ probe' = [probe EXCEPT ![a] = "closed"]
    /\ RegisterPermissionAskedHandler(e)
    /\ UNCHANGED <<starting, task, delivered>>

(* Export server: also opens a socket to see whether a gateway is there.   *)
ActivateServer(a, e) ==
    /\ probe[a] = "none"
    /\ probe' = [probe EXCEPT ![a] = "connecting"]
    /\ RegisterPermissionAskedHandler(e)
    /\ UNCHANGED <<starting, task, delivered>>

ProbeConnects(a) ==
    /\ probe[a] = "connecting"
    /\ gateway
    /\ probe' = [probe EXCEPT ![a] = "closed"]
    /\ UNCHANGED <<tracked, listeners, starting, task, delivered>>

(* The system refuses the connection; the socket's error event follows.    *)
ProbeRefused(a) ==
    /\ probe[a] = "connecting"
    /\ ~gateway
    /\ probe' = [probe EXCEPT ![a] = "refused"]
    /\ UNCHANGED <<tracked, listeners, starting, task, delivered>>

SkipSpawn(a) ==
    /\ probe[a] = "refused"
    /\ latch
    /\ probe' = [probe EXCEPT ![a] = "closed"]
    /\ UNCHANGED <<tracked, listeners, starting, task, delivered>>

(* Mutant: the latch is never set.                                         *)
SpawnUnlatched(a, spawned) ==
    /\ probe[a] = "refused"
    /\ ~latch
    /\ probe' = [probe EXCEPT ![a] = "closed"]
    /\ fresh' = IF spawned THEN fresh + 1 ELSE fresh
    /\ UNCHANGED <<tracked, listeners, latch, gateway, old, task, delivered>>

(* spawned: whether spawn gave a process; if not, the latch stays set.     *)
Spawn(a, spawned) ==
    /\ probe[a] = "refused"
    /\ ~latch
    /\ probe' = [probe EXCEPT ![a] = "closed"]
    /\ latch' = TRUE
    /\ fresh' = IF spawned THEN fresh + 1 ELSE fresh
    /\ UNCHANGED <<tracked, listeners, gateway, old, task, delivered>>

(* Fifteen seconds later, whatever became of the process.                  *)
LatchExpires ==
    /\ latch
    /\ latch' = FALSE
    /\ fresh' = 0
    /\ old' = old + fresh
    /\ UNCHANGED <<probe, tracked, listeners, gateway, task, delivered>>

(* A gateway that is being started listens, or ends without doing so, as   *)
(* it must when the port is taken; one that listens may end.               *)
GatewayChanges ==
    /\ \/ /\ fresh > 0
          /\ fresh' = fresh - 1
          /\ gateway' \in {gateway, TRUE}
          /\ UNCHANGED old
       \/ /\ old > 0
          /\ old' = old - 1
          /\ gateway' \in {gateway, TRUE}
          /\ UNCHANGED fresh
       \/ /\ gateway
          /\ gateway' = FALSE
          /\ UNCHANGED <<fresh, old>>
    /\ UNCHANGED <<probe, tracked, listeners, latch, task, delivered>>

-----------------------------------------------------------------------------
(* Asking the gateway.                                                     *)
Unasked(a) == \A n \in 0 .. MaxListeners : task[<<a, n>>] = Idle

Evaluating(byEvent, ids) ==
    [Idle EXCEPT !.pc = "evaluating", !.byEvent = byEvent, !.ids = ids,
                 !.conn = "waiting"]

(* The host calls the hook, which the module and the server export.        *)
CallHook(a) ==
    /\ Unasked(a)
    /\ task' = [task EXCEPT ![<<a, 0>>] = Evaluating(FALSE, FALSE)]
    /\ UNCHANGED <<probe, tracked, listeners, starting, delivered>>

(* The host emits permission.asked to every listener.  The event may lack  *)
(* ids, and it may lack its permission: then it is rejected unevaluated.   *)
EmitAsked(a, e, ids, permission) ==
    /\ Unasked(a)
    /\ listeners[e] > 0
    /\ LET started == CASE permission -> Evaluating(TRUE, ids)
                        [] ~permission /\ ids ->
                               [Idle EXCEPT !.pc = "rejecting", !.byEvent = TRUE,
                                            !.ids = TRUE]
                        [] OTHER -> [Idle EXCEPT !.pc = "done", !.byEvent = TRUE]
       IN  task' = [t \in Tasks |-> IF t[1] = a /\ t[2] \in 1 .. listeners[e]
                                    THEN started ELSE task[t]]
    /\ UNCHANGED <<probe, tracked, listeners, starting, delivered>>

ResponseBegins(t) ==
    /\ task[t].conn = "waiting"
    /\ gateway
    /\ task' = [task EXCEPT ![t].conn = "receiving"]
    /\ UNCHANGED <<probe, tracked, listeners, starting, delivered>>

(* The promise of evaluateTool is settled: permissionAskHook sets the      *)
(* output, and the adapter goes on to call reply.                          *)
Settle(t, answer, status) ==
    /\ task' = [task EXCEPT
           ![t].conn = "none",
           ![t].answer = answer,
           ![t].output = status,
           ![t].pc = IF task[t].byEvent /\ task[t].ids THEN "replying" ELSE "done"]
    /\ UNCHANGED <<probe, tracked, listeners, starting, delivered>>

StatusOf(answer) == IF answer = "bad" THEN "deny" ELSE answer

(* Mutant: a bad answer returns early and settles nothing.                 *)
ResponseEndsSilently(t, answer) ==
    /\ task[t].conn = "receiving"
    /\ IF answer # "bad"
       THEN Settle(t, answer, StatusOf(answer))
       ELSE /\ task' = [task EXCEPT ![t].conn = "none"]
            /\ UNCHANGED <<probe, tracked, listeners, starting, delivered>>

ResponseEnds(t, answer) ==
    /\ task[t].conn = "receiving"
    /\ Settle(t, answer, StatusOf(answer))

(* The request's error event (refused, reset, hung up on) or its timeout,  *)
(* after 45 seconds of silence.                                            *)
RequestFails(t) ==
    /\ task[t].conn \in {"waiting", "receiving"}
    /\ Settle(t, "none", "deny")

(* The connection is closed in the middle of the body, without a reset:    *)
(* the response gives neither end nor, unless it has a listener, error,    *)
(* and a closed socket does not time out.                                  *)
ResponseIsCut(t) ==
    /\ task[t].conn = "receiving"
    /\ task' = [task EXCEPT ![t].conn = "cut"]
    /\ UNCHANGED <<probe, tracked, listeners, starting, delivered>>

-----------------------------------------------------------------------------
(* Answering an event.                                                     *)

(* Mutant: a question to the user is let through.                          *)
ReplyUnlessDenied(t) ==
    IF task[t].pc = "replying" /\ task[t].output # "deny" THEN "once" ELSE "reject"

Reply(t) ==
    IF task[t].pc = "replying" /\ task[t].output = "allow" THEN "once" ELSE "reject"

Deliver(t) == delivered' = [delivered EXCEPT ![t[1]] = Append(@, Reply(t))]

ReplyReturns(t) ==
    /\ task[t].pc \in {"replying", "rejecting"}
    /\ task' = [task EXCEPT ![t].pc = "done"]
    /\ Deliver(t)
    /\ UNCHANGED <<probe, tracked, listeners, starting>>

(* Mutant: a reply that throws is the end of it.                           *)
ReplyThrowsForGood(t, arrived) ==
    /\ task[t].pc \in {"replying", "rejecting"}
    /\ task' = [task EXCEPT ![t].pc = "done", ![t].thrown = @ + 1]
    /\ IF arrived THEN Deliver(t) ELSE UNCHANGED delivered
    /\ UNCHANGED <<probe, tracked, listeners, starting>>

(* A call of reply throws, although it may have arrived.  The catch block  *)
(* rejects once more; when that throws too, nothing is left to do.         *)
ReplyThrows(t, arrived) ==
    /\ task[t].pc \in {"replying", "rejecting"}
    /\ task' = [task EXCEPT
           ![t].pc = IF task[t].pc = "replying" THEN "rejecting" ELSE "done",
           ![t].thrown = @ + 1]
    /\ IF arrived THEN Deliver(t) ELSE UNCHANGED delivered
    /\ UNCHANGED <<probe, tracked, listeners, starting>>

-----------------------------------------------------------------------------
(* What a task owes: the socket's events and the host's answer to a reply. *)
TaskStep(t) ==
    \/ \E answer \in Answers : ResponseEnds(t, answer)
    \/ RequestFails(t)
    \/ ReplyReturns(t)
    \/ \E arrived \in BOOLEAN : ReplyThrows(t, arrived)

Next ==
    \/ \E a \in Activations :
          \/ \E e \in Events : ActivateTui(a, e) \/ ActivateServer(a, e)
          \/ ProbeConnects(a)
          \/ ProbeRefused(a)
          \/ SkipSpawn(a)
          \/ \E spawned \in BOOLEAN : Spawn(a, spawned)
    \/ LatchExpires
    \/ GatewayChanges
    \/ \E a \in Asks :
          \/ CallHook(a)
          \/ \E e \in Events, ids, permission \in BOOLEAN :
                EmitAsked(a, e, ids, permission)
    \/ \E t \in Tasks :
          \/ ResponseBegins(t)
          \/ ResponseIsCut(t)
          \/ TaskStep(t)

Fairness == \A t \in Tasks : WF_vars(TaskStep(t))

Spec == Init /\ [][Next]_vars /\ Fairness

-----------------------------------------------------------------------------
(* Nothing is let through that the gateway did not allow in a complete     *)
(* answer to this very request: no output of a hook is "allow" and no      *)
(* reply "once" reaches the host, however often a reply was tried.         *)
AllowIsEarned ==
    /\ \A t \in Tasks : task[t].output = "allow" => task[t].answer = "allow"
    /\ \A a \in Asks : \A i \in DOMAIN delivered[a] :
           delivered[a][i] = "once" =>
               \E t \in Tasks : t[1] = a /\ task[t].answer = "allow"

(* The host is not told first to reject and then to allow, and it is told  *)
(* twice only when the first call of reply seemed to fail.                 *)
RepliesConsistent ==
    \A a \in Asks :
        /\ \A i \in 2 .. Len(delivered[a]) : delivered[a][i] = "reject"
        /\ Len(delivered[a]) > 1 => \E t \in Tasks : t[1] = a /\ task[t].thrown > 0

(* An event that names its request gets an answer: if none reached the     *)
(* host by the time its handler is done, the last attempt was a "reject",  *)
(* made after the call for the verdict had failed as well.                 *)
EventsAnswered ==
    \A t \in Tasks :
        (task[t].pc = "done" /\ task[t].ids /\ delivered[t[1]] = <<>>) =>
            task[t].thrown = IF task[t].output = "none" THEN 1 ELSE 2

(* However many activations find the port closed, one gateway is started   *)
(* until the latch is released.                                            *)
OneStartPerLatch == fresh <= 1 /\ (fresh = 1 => latch)

(* A permission that is asked for is decided, unless the response is cut.  *)
AsksDecidedUnlessCut ==
    \A t \in Tasks :
        task[t].pc = "evaluating" ~> (task[t].pc = "done" \/ task[t].conn = "cut")

(* A permission that is asked for is decided: whatever goes wrong with the *)
(* evaluation counts as a denial (chronos-gate.js:364-368).                *)
AsksDecided ==
    \A t \in Tasks : task[t].pc = "evaluating" ~> task[t].pc = "done"
=============================================================================

# Verification of chronos-gate

TLA+ models of the MCP gateway in `src/src/chronos_gate/`, checked with TLC; every safety
property and every action property that TLC checks on a small instance is proved with TLAPS
for all values of the constants. The paths below are relative to that package unless they start with `tests/`,
`docs/` or a dot.

## The system

chronos-gate stands between an AI agent and an upstream MCP server. An agent opens
`GET /sse` with an API key and an intent and is granted a session with the tools of that
intent. It sends JSON-RPC to `POST /messages`; a `tools/call` is allowed, denied, or sent to
a human, who answers with `POST /approvals`. Apart from that, agent plugins ask
`POST /evaluate` for a verdict on a tool call, which a deterministic policy and then an LLM
give.

It is one process and one asyncio event loop, and keeps no state on disk: there is no
recovery to model, a restart is an empty gateway. Everything hard in it comes from
coroutines that suspend and are overtaken: by approvers, by evictions, by timers, by the
cancellation of their own task.

| Component | State | Operations | Interacts with |
|---|---|---|---|
| `approval/registry.py` pending approvals | table of open entries (each with an event and a decision), bounded history | register, wait_for_decision, resolve, cancel_session | handlers wait in it; eviction hook cancels in it |
| `auth/session.py` sessions | records with expiry, last activity | create, lookup, touch, purge, remove | schedules the eviction hook as a task |
| `server.py` `GET /sse` | an event stream per session | handshake, stream, leave | creates sessions; watches its client |
| `server.py` `POST /messages`, `POST /approvals` | locals of suspended handlers | receive, judge, wait, run, answer; decide | both registries, policy, upstream |
| `app.py` wiring | eviction hook, lifespan | cancel approvals of an evicted session; start the upstream, list its tools, serve, stop it | session and approval registries, upstream client |
| `policy/composite.py`, `policy/_composite_llm.py` shared evaluator | decision cache, judgments in flight | evaluate, judge, follow, cancel, clean up | policy, LLM, memory client |
| `policy/engine.py`, `policy/models.py`, `policy/loader.py` | none (the policy is fixed at start-up) | evaluate_grant, evaluate_call | handlers, evaluator |
| `policy/llm_evaluator.py`, `policy/memory_client.py` | an HTTP client | judge, retrieve | evaluator |
| `upstream/` | session, transport (the subprocess of the context store), tools cache | start, stop, list_tools, call_tool | lifespan, handlers |
| `middleware.py` | a count or a buffer per request | limit the size of bodies | every POST, and the handlers that read them |
| `tools/`, `filters/` | tool list | filter by capability, filter output, scan for secrets | handlers |
| `auth/api_key.py`, `auth/headers.py`, `auth/handshake.py` | key table | authenticate, parse | SSE endpoint, approvals, evaluate |
| `approval/notifier.py`, `approval/sanitize.py`, `audit/logger.py` | none | write | handlers |
| `__main__.py`, `cli.py` | what is on stdout, the exit code | serve, or one evaluation from stdin to stdout | application; evaluator |
| `config.py`, `errors.py` | none | settings | everything |
| `.opencode/plugins/chronos-gate.js` | listeners, spawn latch | ask the gateway, reply, start it | `POST /evaluate` |

What makes each of them correct:

* *Approval registry*: a decision that was accepted is the answer of the call, whatever it
  raced with; nobody sleeps through a decision; no entry outlives its waiter; decisions are
  final; the history tells the truth and stays bounded.
* *Sessions*: a session ends once, at exactly its time, and its hook runs once.
* *Handlers*: what runs was allowed, or approved by another agent who may approve, at most
  once and in a session that is alive; what the caller is told is what happened; every
  call is answered.
* *Evaluator*: equal calls are judged once at a time; an answer rests on a fresh judgment
  of the same call; failures are not remembered; nobody hangs on somebody else's request.
* *Policy*: a grant never exceeds its intent, no guardrail is skipped, a call that needs
  approval is checked no less than others, and what the loader accepts the engine can obey.
* *Upstream client*: start and stop leave no process behind, no closed session is used and
  no tools of another session are offered.
* *Body limit*: nothing above the limit reaches a handler, nothing up to it is refused,
  whichever of its two paths the body takes.
* *Command line and LLM replies*: the exit code tells what was printed, and an allow or a
  deny is the policy's, the user's or the LLM's own.
* *Plugin*: every permission is answered, never with allow after a failure, and never twice
  with contradicting answers.

`PROJECT.json` lists the hazards of this code line by line, with the properties that watch
them.

## The modules

| Module | Models | Notes |
|---|---|---|
| `ApprovalRegistry` | `approval/registry.py` | one action per method and per way a wait can end |
| `MCApprovalRegistry` | | its instance for TLC |
| `ApprovalRegistryProofs` | | theorems about `ApprovalRegistry` |
| `SessionRegistry` | `auth/session.py` | actions and invariants, used by the next two |
| `SessionRegistryProofs` | | its inductive invariant, used by the next two modules of proofs |
| `SseEndpoint` | `server.py` `_handle_sse` | extends `SessionRegistry`; two specifications, with and without the methods that the gateway never calls |
| `SseEndpointProofs` | | theorems about `SseEndpoint` |
| `ApprovalGate` | what the gateway promises | abstract: a call asks, is granted or refused, runs |
| `GatewayCalls` | `server.py` handlers, `app.py` hook | composes `ApprovalRegistry` and `SessionRegistry`, refines `ApprovalGate` |
| `MCGatewayCalls` | | its instance for TLC |
| `GatewayCallsProofs` | | theorems about `GatewayCalls`, the refinements among them |
| `EvaluatorCoalescing` | `policy/composite.py`, `policy/_composite_llm.py`, `POST /evaluate` | cache, coalescing, cancellation |
| `MCEvaluatorCoalescing` | | its instance for TLC |
| `EvaluatorCoalescingProofs` | | theorems about `EvaluatorCoalescing` |
| `PolicyEngine` | `policy/engine.py`, validators of `policy/models.py`, requested-tools header | start, handshake, call; everything but these steps is an operator |
| `MCPolicyEngine` | | its instance for TLC |
| `PolicyEngineProofs` | | theorems about `PolicyEngine` |
| `PermissionPlugin` | `.opencode/plugins/chronos-gate.js` | hook, event adapter, request, auto-start |
| `PermissionPluginProofs` | | theorems about `PermissionPlugin` |
| `UpstreamClient` | `upstream/context_store_client.py`, the lifespan of `app.py` | one action per await of the lifespan, per way it ends |
| `MaxBodySize` | `middleware.py`, the reading of bodies in `server.py` | both paths, message by message |
| `LlmReply` | the parser of `policy/llm_evaluator.py` | an operator on what can be told of an answer |
| `CommandLine` | `cli.py` | extends `LlmReply`; its own small specification |
| `ChronosGate` | `__main__.py` | composes `UpstreamClient`, `MaxBodySize` and `CommandLine` |
| `ChronosGateProofs` | | theorems about `ChronosGate` |

**Granularity.** The code runs on one event loop, so an action is what a coroutine does from
one await that suspends it to the next. `asyncio.Lock` in the approval registry guards
sections without awaits and is therefore never contended: acquiring it does not suspend, and
each method is one step. What does suspend is modelled as a phase: reading a body, waiting
for a decision, calling the upstream, waiting for the LLM. Setting an event, firing a timer
and cancelling a task only schedule a coroutine; anything may happen before it runs, and
these interleavings are the point of the models. In `ApprovalRegistry`, `waiter[id]` goes
from `waiting` to `timedOut` or `cancelled` in one step and ends in another, as
`asyncio.timeout` and `Task.cancel` make it do.

In `UpstreamClient` `phase` is the await the lifespan is suspended on, each of which ends
normally, by an Exception or by the cancellation of its task. The last is no Exception and
passes every `except` clause of the code; it is real, as the MCP library enters its task
group in the lifespan's task and cancels it when a background task of the transport fails.
Everything of a start (its subprocess, its session, its tools) is named by the number of
the start. In `CommandLine` an action is a call that may raise, and a line is written in
two pieces, because `json.dump` writes it in pieces and a later one may fail to be encoded.

**Correspondence of state.** Each variable's comment names the attribute it stands for.
Approval ids are uuid4 values in the code and the order of registration in the model, which
is also the order of the `_pending` dictionary. `answer`, `runs`, `resolver`, `created`,
`evictions`, `judged`, `interrupted`, `stopped` and `why` are history: they record what was
returned, called, logged or decided, and no guard of the models reads them but `created`,
for the freshness of ids.
Decisions keep apart what the code tells by the reason of a REJECTED (`EVICTED`,
`NOT_FOUND`).

**Abstractions.** Policy verdicts, secret scans and the outcomes of the upstream and of the
LLM are choices. A call to the evaluator is its cache key. The leader's two awaits (memory
search, completion) are one phase, since nothing shared is touched in between. Refusals that
change nothing (failed handshakes, refused approvals) are left out where no later step can
tell. In `PolicyEngine` a JSON value is
its type, the values Python's `==` equates it with, its length and the patterns it matches
(NaN, which equals nothing, is left out; limits are naturals), and the parameters of a
guardrail are checked in any order, so that the model has every first complaint the order
of a file can give. A missing filter profile cannot happen for a policy that loaded
(`policy/models.py:177-185`). The clock is a number that `Tick` advances; it is not tied to
the approval timer, so a timer may fire at any time, early or late. The plugin runs in a
process of its own: its callbacks run to their end, so an action is a callback and the
continuations it releases, and the gateway it talks to is a port that answers, refuses or
breaks off (`EvaluatorCoalescing` is what answers there). How a connection ends is node's
doing: an error event before the response and on a reset, nothing the plugin listens to when
the response is cut short without one. A response that trickles for ever is left out.

Of the HTTP server (uvicorn) `ChronosGate` assumes that it lets every request end before it
ends the lifespan (`Drained`), and that an application object may be started again after it
was stopped, as a test harness does. What arrives of a body need not agree with its
`Content-Length`, since a transfer encoding takes precedence over it; a body's bytes are
counted and not kept. The limit on an upstream call is finite, as `get_timeout` makes it
unless both of its settings are infinite. An answer of the LLM is its form, the field
`decision`, whether the field that must explain it has text, and which of the words *safe*
and *unsafe* occur. `--help`, a closed stdout and what an upstream's result is turned into
are left out. What a handler of `ChronosGate` decides is `GatewayCalls`; here it only
answers or calls the upstream, so that the two models share the call, not the verdict.

**Mutants.** Next to a definition stand variants of it marked *mutant*: a forgotten pop, an
off-by-one, a lost wakeup. No specification uses them. `PROJECT.json` pairs each property
with one, and TLC finds the property violated when the variant takes the definition's place.

## The runs

| Run | Question | Bounds |
|---|---|---|
| `approval_registry` | the registry on its own | 2 sessions of 2 agents, table and deque of 2, 3 registrations |
| `sse_endpoint` | sessions and streams in time | 2 sessions, ttl 3, idle 2, 5 instants |
| `sse_stream_doc` | does expiry close the stream? (violated) | 1 session, only the steps the gateway takes (`GatewaySpec`) |
| `gateway_calls` | handlers and both registries | 2 calls, 2 sessions, 3 agents of whom 2 approve, 3 modes |
| `gateway_liveness` | is every call answered, is the gate implemented? | blocking mode, table of 1, every agent may approve |
| `gateway_eviction` | does eviction leave an approval behind? (violated) | blocking mode |
| `evaluator` | cache, coalescing, cancellation; does every request end? | 3 requests, 5 kinds of calls, ttl 1, clean-up every 2, instants 0 to 2 |
| `policy_engine` | are grants and verdicts right for every constraint? | 3 agents, 3 intents, 3 tools, 2 parameters, 6 values, one guardrail with any of 540 constraints |
| `permission_plugin` | what is let through, what is told to the host, what is started | 3 activations, 2 event objects, 1 ask |
| `plugin_cut_response` | is every ask decided? (violated) | 1 activation, 1 ask |
| `process` | lifespan, body limit, upstream calls, command line | 2 starts, 2 requests, limits 2 and 1, messages of 0 to 2 bytes, one evaluation with any reply |
| `one_line_doc` | is the output exactly one line? (violated) | one evaluation, with a stdout that encodes every text and one that does not |

*Why these bounds.* Three registrations against a table and deque of two are the least with
which registration is refused, the history overflows and a session with two entries is
cancelled while another's stays. Two calls and sessions give every pair of handlers; a third
agent separates "not the requester" from "an approver". Idle is less than ttl, and the
clock goes past both, so that each expiry happens first in some run. The evaluator needs a
leader and two followers for a cancellation to spread, and two judged keys for an entry
that only the periodic clean-up removes. A verdict
leaves no trace, so one session with one call shows all of the policy engine; its constraint
ranges over every combination of type, length, pattern, list and `forbidden`, with values
of every JSON type, three of which are equal to Python, and a second, forbidden parameter
gives calls with two complaints. The plugin's asks share nothing but the gateway, so
one is enough, together with three activations of which two may find the port closed, and
two event objects of which one cannot be replied to. In `process`
two starts are the least with which the tools, the session or the subprocess of an earlier
one can be taken for the next one's; two requests let one be answered, refused or left
waiting while the other holds up the shutdown; a limit of 2 with messages of up to 2 has
bodies below, at and above each limit, in one message and in several, and ones that end at
the limit with an empty message. The clock, the registrations and the calls are
bounded, so the systems stop: `CHECK_DEADLOCK FALSE` is in every configuration for that
reason alone, and liveness properties take the place of the check. No run uses symmetry,
which liveness checking does not allow. `Approvers = {}` in `gateway_liveness` is
the default of the policy and lets every agent approve.

*Fairness* is what the event loop and the code's own timers owe: a coroutine that can resume
does (`Resume`, `Decided`, `FinishAbandoned`, `RequestStep`), a due approval timer fires
(`asyncio.timeout`), an upstream call ends with its own timeout (`asyncio.wait_for`), the LLM
call with its client's, the response of `GET /sse` starts and its loop turns, an eviction
task runs; a request whose handler is not suspended goes on (`HandlerRuns`) and its wait for
the upstream is ended by asyncio's timer (`TimerFires`). Nothing is asked of the upstream
itself or of the lifespan, which may be stuck in a start or stop for ever: requests are
answered all the same. Of the plugin's host it is assumed that a call of reply returns or throws, of
node that a request that is not cut ends or times out. Nothing is assumed of clients, approvers, or the clock. All of it is weak
fairness: none of these steps can be disabled by another except by the end of the wait.

*What the runs show.* The properties that hold, by component:

| Component | Properties |
|---|---|
| approval registry | `TypeOK`, `HistoryMirrorsDeque`, `AcceptedDecisionReturned`, `NoLostWakeup`, `HistoryAgrees`, `RemovalsRemembered`, `DecisionsFinal`, `WaitEnds` |
| sessions and streams | `EvictedOnce`, `ActiveWithinLife`, `NoRefreshAfterGap` |
| handlers | `RunsOnlyAuthorised` (the four-eyes rule), `TruthfulAnswers`, `TableMatchesWaits`, `ApprovedRunsInLiveSession`, `HookSettlesSession`, `CallsAnswered`; they use the registry only as its module describes (`ImplementsRegistry`) and implement the abstract gate (`ImplementsGate`) |
| evaluator | `OneJudgmentPerKey`, `CacheHoldsJudgments`, `AnswersGrounded`, `CancellationContained`, `ExpiredAreSwept`, `RequestsEnd` |
| policy | `TypeOK`, `VerdictsRight` (against a reference without an order of checks), `NarrowingOnlyRestricts`, `LoadedListsUsable` |
| plugin | `AllowIsEarned`, `RepliesConsistent`, `EventsAnswered`, `OneStartPerLatch`, `AsksDecidedUnlessCut` |
| upstream client | `SubprocessReaped`, `SessionInUseIsOpen` |
| body limit | `SizeVerdictsRight` |
| command line, LLM replies | `OutputMatchesExit`, `RepliesHonoured` |
| process | `RequestsAnswered` |

Type invariants are run only for the two modules whose proofs rest on one. Some subtleties
that the properties state as they are, since no document promises otherwise:

* An eviction between the approval timer and the waiter's step is recorded as REJECTED and
  returned as TIMEOUT; `HistoryAgrees` says that this is the only way the two differ.
* A list of non-strings with a `max_length` and no type loads but admits nothing, since the
  engine then expects a string; `LoadedListsUsable` speaks of constraints with a type.
* An expired judgment stays in the cache, unused, until the next clean-up. `ExpiredAreSwept`
  says that the latest one is never older than its interval when a call gets past the
  policy, and left nothing that had expired.
* A start that is itself cancelled after the transport was entered rolls nothing back
  (`context_store_client.py:72` catches Exception): its subprocess is left to the
  interpreter. `SubprocessReaped` names this as its only exception.
* A user who interrupts while the decision is written gets the fallback behind its beginning,
  or behind the whole of it. `OutputMatchesExit` says that exit code 0 excludes this, and
  that without an interrupt, and with a stdout that can encode the decision, the fallback
  is all there is (finding 4 is about a stdout that cannot).
* A memory whose `importance` is an integer too large for a float raises `OverflowError`,
  which neither `memory_client.py:158` nor `composite.py:181` catches: the evaluation fails
  by an exception instead of going on without that memory. The models have this as the step
  in which the leader, or the command line, gives up.

*Findings.* (1) `auth/session.py:4-5` says that an expired session's stream is closed; when a
request finds its session expired and evicts it, the stream still ends only with its client
(`sse_stream_doc`). (2) `POST /messages` looks its session
up before it awaits the body and not again before it registers an approval; if the session
is evicted in between, the approval is registered after the hook that should have cancelled
it, and waits out its timeout in a place of the table (`gateway_eviction`). The call itself
is then refused with `session_expired`: `ApprovedRunsInLiveSession` holds. (3) The plugin
counts every failed evaluation as a denial (`chronos-gate.js:365`), but a response that is
closed in the middle of its body, without a reset, settles nothing: the hook or the event
stays undecided (`plugin_cut_response`). (4) `cli.py:3-4` promises exactly one line of
Decision JSON, the fallback included, and the tests of the command line parse it; but
`json.dump` writes a decision in pieces, and if stdout cannot encode one of them
(`PYTHONIOENCODING=ascii`), the fallback lands on the line that was begun, which is then no
JSON (`one_line_doc`).

One more disagreement needs no run, as the text of the parser shows it: the LLM is told that
any output outside the schema becomes an ask (`policy/llm_evaluator.py:135`), but an answer
that is not JSON is allowed if it contains *safe* and not *unsafe*, be it in "not safe", and
denied if it contains *unsafe* (`policy/llm_evaluator.py:201`). `FromPlainText` does what the
code does, and `RepliesHonoured` states it.

## The proofs

`ApprovalRegistryProofs` proves, for every set of sessions and agents and every
`MaxPending` and `MaxRegistrations` that satisfy `RegistryAssumption`, all of the safety
properties of `approval_registry`: `TypeOK`, `HistoryMirrorsDeque`, `HistoryAgrees`,
`NoLostWakeup`, `AcceptedDecisionReturned` and, as action properties, `RemovalsRemembered`
and `DecisionsFinal`.

None of these is inductive alone. `IInv` is their conjunction with `TableHoldsOnlyOpen` (the
table holds undecided entries with a waiter) and `OnlyEvictionRemoves`, which says how an
entry can have left the table while its waiter has not ended: only by eviction, decided.
Without it a timed-out waiter whose entry is gone could hold an accepted decision and answer
TIMEOUT. The argument:

1. `RememberLemma`, `AddToHistoryLemma`, `HistorySameLemma`: the deque stays injective,
   bounded, and in step with the dictionary when ids are appended and the oldest fall out.
2. `EndLemma` and the step lemmas: each end of a wait preserves `IInv`; then `Enter`,
   `Resolve` and `CancelSession`.
3. `NextIInv` puts the actions together, `Inductive` lifts it.
4. `NextFinal`: from `IInv`, a step changes no decision and no remembered record.
5. `NextRemembered`: from `IInv`, a step that takes a decided entry out of the table puts its
   decision into the history. An eviction takes out no more than the table holds, which is
   as much as the history keeps, so none of its ids falls out at once.

`PolicyEngineProofs` proves the four invariants of `policy_engine` for every set of policy
files, values and patterns that satisfy `ValueAssumption` and `PolicyAssumption` (what
pydantic's types give before any validator has run). Its `IInv` says that a served policy
has loaded, that a session's grant is the function of file and header that
`evaluate_grant` computes, and that an answer is one the engine gives under that grant;
`VerdictsRight` needs all three, as the grant is a copy that the call is judged by.
`ComplaintLemma` is the heart: a loaded constraint complains of exactly the values that it
does not admit. It is false of constraints that were not validated (a `max_length` on an
integer), so it is the loader that makes the engine right.

`ChronosGateProofs` proves the five invariants of `process` for every set of requests, every
pair of limits, any size of messages and any number of starts (`ProcessAssumption`). The parts
of the process share no variable but through the steps that compose them, so `ProcessInv` is
one invariant for each, and a step that belongs to one part leaves the others' alone:

1. `LifespanInv` says, for each await of the lifespan, which transport and session have been
   entered and what the three fields hold: `SessionInUseIsOpen` is not inductive because
   between an entry and the assignment of the field, and between its reset and the exit, the
   two differ. A transport that is left has its life in `interrupted`.
2. `RequestInv` says of a request at each step of either path what has been counted: a body
   in the buffer is within the limit before the handler starts, one that is streamed is held
   to it message by message. `PutKeeps` reduces a step to the record that it writes.
3. `OutputInv` says which lines are on stdout at each step of the command line, and
   `AppendLine` and `EndLastLine` what beginning and ending a line make of them;
   `DecisionInv` says what a verdict rests on, by `ParseLemma` about the parser.

`SessionRegistryProofs` has the invariant of the session registry, `SessionInv`: the two
dictionaries name the same sessions (`EvictedOnce`), and no more hooks wait than were
scheduled. `EvictStep` covers lookup, touch, purge and remove at once, since all of them
evict a set of sessions. `SseEndpointProofs` needs one lemma more, that every step of the
endpoint is one of the registry or leaves it alone, and concludes `EvictedOnce`,
`ActiveWithinLife` and `NoRefreshAfterGap`.

`GatewayCallsProofs` proves the five safety and action properties of `gateway_calls`, that
the handlers implement the registry, and half of the refinement of the gate, for any
constants that satisfy `CallsAssumption`. Its `Inv` is a conjunction of three:
`ApprovalRegistryProofs!IInv`, `SessionRegistryProofs!SessionInv`, and `CallInv` about what
lies between them.

1. `StepOfRegistries` reduces every step of the composition to a step of each registry or a
   stutter of it. So the two invariants are kept by the lemmas that are proved of the
   registries alone, and `ImplementsRegistry` follows.
2. `HandlerInv` says what a handler has done at each of its awaits, `AskInv` that an
   approval belongs to one call and that the call waits exactly as long as the registry's
   waiter does, `TableInv` the converse for the table, `FourEyes` who decided an entry.
   `RunsOnlyAuthorised` is not inductive without them: that the decision read after the wait
   is the one made of this call's own approval, by somebody else, is four facts about
   three components.
3. A lemma for each kind of step says what it does to its own request and that it leaves the
   others alone (`HandlerAloneEffect`, `WaitOverEffect`, `HookEffect`), and one that this
   keeps `CallInv`.
4. `GateImplemented`: in the blocking mode the initial states and the steps of the gateway
   are those of `ApprovalGate` under the mapping of `GatewayCalls`. The mode never changes,
   so it is a hypothesis about the start. `ImplementsGate` adds the gate's fairness.

`EvaluatorCoalescingProofs` proves the three invariants and two action properties of
`evaluator` for any requests, keys, ttl and clean-up interval (`EvaluatorAssumption`).
`IInv` says that the keys in flight and the leading requests are one and the same
(`InFlightInv`); that a future is open while its request judges and holds its end afterwards
(`FutureInv`); and that a follower waits for a future of its own key, which brings it no
verdict older than itself (`FollowInv`). The last is what `AnswersGrounded` needs, for
verdicts and failures alike: a
follower resumes in a step of its own, when the leader is gone, its key may be in flight
again under another request and the cache may have been swept.

`PermissionPluginProofs` proves the four invariants of `permission_plugin` for any number of
activations, events and asks. The replies to an ask are one sequence, and every listener of
an event could write to it. So `IInv` says that an event has at most one listener
(`ListenerInv`), that an ask hence has one task (`Alone`), and what that task has done at
each of its steps and the host has heard by then (`Phase`).

Each of these invariants was checked by TLC on the instance of the component's run before it
was proved.

Only model-checked: liveness (`WaitEnds`, `CallsAnswered`,
`RequestsEnd`, `RequestsAnswered`, `AsksDecidedUnlessCut`), which the prover cannot do, and
with it the fairness half of `ImplementsGate`. The theorems hold where the assumptions on the
constants do: positive session times (`auth/session.py:74-77` refuses others), a positive
size of the table (`config.py:105`), a positive interval between clean-ups
(`policy/composite.py:60`), and bounds that the models add and that may be any number.

## Plan

Done: the modules above. What is left, in this order:

1. `PermissionPlugin` composed with `EvaluatorCoalescing` in place of the gateway it talks to,
   and the theorem that a reply "once" rests on the policy or on a fresh judgment.
2. `PolicyEngine` composed with `GatewayCalls` in place of the chosen verdict.
3. The structural allow-list and the secret scan as operators checked over bounded inputs.

## Not modelled

* `approval/notifier.py`, `approval/sanitize.py`, `audit/logger.py`: they only write. The
  notifier runs in a task whose failures are contained; nothing waits for it.
* `config.py`, `errors.py`: validated values; they are the constants of the models.
* `auth/api_key.py`, `auth/headers.py` except for the requested-tools header: comparison and
  parsing of text, with no state. A handshake that fails changes nothing.
* `tools/`, `filters/`: what they do to a payload. Whose tools are offered is in
  `UpstreamClient`, that a withheld answer is told as such in `GatewayCalls`.
* `policy/llm_evaluator.py`, `policy/memory_client.py`: the words of the prompt, the choice
  of the provider, the contents of memories. How both end is in `EvaluatorCoalescing` and
  `CommandLine`, what is made of a reply in `LlmReply`.
* The sample policy and the settings that `app.py` reads while it builds the application, and
  the hidden tools of its ingestion mode: they run before anything is concurrent.

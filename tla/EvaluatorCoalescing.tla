------------------------- MODULE EvaluatorCoalescing -------------------------
(***************************************************************************)
(* CompositeEvaluator (policy/composite.py, policy/_composite_llm.py), the *)
(* evaluator that all POST /evaluate requests share.  A call that the      *)
(* deterministic policy lets pass is judged by an LLM.  Judgments are      *)
(* cached for a while, and equal calls that arrive while one is being      *)
(* judged wait for the future of the request that leads the judgment.      *)
(*                                                                         *)
(* A call is its cache key: agent, intent, model, project, tool and input. *)
(* The leader's two awaits, the memory search (whose failure only empties  *)
(* the prompt) and the completion, touch no shared state between them and  *)
(* are one phase, "leading".                                               *)
(***************************************************************************)
EXTENDS Integers, Functions

CONSTANTS
    Requests,          \* POST /evaluate requests
    Keys,              \* cache keys
    Tier1,             \* Tier1[k]: what PolicyEngine says of the call
    NoJudge,           \* keys of calls with skip_llm or in READ_ONLY_TOOLS
    Ttl,               \* evaluation_cache_ttl_seconds
    CleanupInterval,   \* _cache_cleanup_interval
    MaxTime            \* bound of the model: the last instant of the clock

ASSUME EvaluatorAssumption ==
    /\ Tier1 \in [Keys -> {"ALLOW", "DENY", "REQUIRES_APPROVAL"}]
    /\ NoJudge \subseteq Keys
    /\ Ttl \in Nat
    /\ CleanupInterval \in Nat \ {0}
    /\ MaxTime \in Nat

VARIABLES
    clock,         \* time.monotonic()
    llm,           \* an LLM is configured
    fallback,      \* fallback_when_llm_not_configured
    cache,         \* _decision_cache: key -> [expires, verdict]
    lastCleanup,   \* _last_cleanup_time
    inFlight,      \* _in_flight_judgments: key -> the request whose future it is
    fut,           \* fut[r]: the future that request r created
    req,           \* req[r]: what r asks, whom it waits for, how it ended
    cancelling,    \* requests whose task was cancelled and has yet to see it
    judged         \* history: the judgments the LLM has given

vars == <<clock, llm, fallback, cache, lastCleanup, inFlight, fut, req,
          cancelling, judged>>

Verdicts == {"allow", "deny", "ask"}

(* "system_ask" is the ask of _fallback_from_llm_error; "error" and        *)
(* "cancelled" are exceptions.                                             *)
Ends == Verdicts \cup {"system_ask", "error", "cancelled"}

NotYet == [pc |-> "new"]

Init ==
    /\ clock = 0
    /\ llm \in BOOLEAN
    /\ fallback \in {"allow", "ask"}
    /\ cache = <<>>
    /\ lastCleanup = 0
    /\ inFlight = <<>>
    /\ fut = [r \in Requests |-> "none"]
    /\ req = [r \in Requests |-> NotYet]
    /\ cancelling = {}
    /\ judged = {}

Tick ==
    /\ clock < MaxTime
    /\ clock' = clock + 1
    /\ UNCHANGED <<llm, fallback, cache, lastCleanup, inFlight, fut, req,
                   cancelling, judged>>

-----------------------------------------------------------------------------
(* What evaluate answers before it turns to the LLM.                       *)
Early(k) ==
    IF Tier1[k] = "DENY" THEN "deny"
    ELSE IF Tier1[k] = "REQUIRES_APPROVAL" THEN "ask"
    ELSE IF k \in NoJudge THEN "allow"
    ELSE IF ~llm THEN fallback
    ELSE "none"

Asking(r, k, pc, leader) ==
    [pc |-> pc, key |-> k, since |-> clock, leader |-> leader, end |-> "none"]

Answered(r, k, end) ==
    [pc |-> "done", key |-> k, since |-> clock, leader |-> r, end |-> end]

AnswerEarly(r, k) ==
    /\ Early(k) # "none"
    /\ req' = [req EXCEPT ![r] = Answered(r, k, Early(k))]
    /\ UNCHANGED <<clock, llm, fallback, cache, lastCleanup, inFlight, fut,
                   cancelling, judged>>

(* Mutant: an entry is good until the instant after its expiry.            *)
StaleLate(k) == cache[k].expires < clock

Stale(k) == cache[k].expires <= clock

(* Mutant: only the entry that is looked up is ever removed.               *)
SweptOne(k) == Restrict(cache, {i \in DOMAIN cache : i # k \/ ~Stale(i)})

(* The cache as _maybe_cleanup_cache and _get_cached_decision leave it     *)
(* when they look k up.                                                    *)
Swept(k) ==
    LET gone == IF clock - lastCleanup >= CleanupInterval
                THEN {i \in DOMAIN cache : Stale(i)}
                ELSE {i \in DOMAIN cache \cap {k} : Stale(i)}
    IN  Restrict(cache, DOMAIN cache \ gone)

LookUp(k) ==
    /\ Early(k) = "none"
    /\ cache' = Swept(k)
    /\ lastCleanup' = IF clock - lastCleanup >= CleanupInterval
                      THEN clock ELSE lastCleanup

AnswerCached(r, k) ==
    /\ LookUp(k)
    /\ k \in DOMAIN Swept(k)
    /\ req' = [req EXCEPT ![r] = Answered(r, k, Swept(k)[k].verdict)]
    /\ UNCHANGED <<clock, llm, fallback, inFlight, fut, cancelling, judged>>

(* The await on the shielded future.                                       *)
Follow(r, k) ==
    /\ LookUp(k)
    /\ k \notin DOMAIN Swept(k)
    /\ k \in DOMAIN inFlight
    /\ req' = [req EXCEPT ![r] = Asking(r, k, "following", inFlight[k])]
    /\ UNCHANGED <<clock, llm, fallback, inFlight, fut, cancelling, judged>>

(* Mutant: the judgment in flight is not looked for.                       *)
LeadAnyway(r, k) ==
    /\ LookUp(k)
    /\ k \notin DOMAIN Swept(k)
    /\ inFlight' = [i \in DOMAIN inFlight \cup {k} |->
                        IF i = k THEN r ELSE inFlight[i]]
    /\ fut' = [fut EXCEPT ![r] = "pending"]
    /\ req' = [req EXCEPT ![r] = Asking(r, k, "leading", r)]
    /\ UNCHANGED <<clock, llm, fallback, cancelling, judged>>

Lead(r, k) ==
    /\ LookUp(k)
    /\ k \notin DOMAIN Swept(k)
    /\ k \notin DOMAIN inFlight
    /\ inFlight' = [i \in DOMAIN inFlight \cup {k} |->
                        IF i = k THEN r ELSE inFlight[i]]
    /\ fut' = [fut EXCEPT ![r] = "pending"]
    /\ req' = [req EXCEPT ![r] = Asking(r, k, "leading", r)]
    /\ UNCHANGED <<clock, llm, fallback, cancelling, judged>>

Evaluate(r, k) ==
    /\ req[r].pc = "new"
    /\ AnswerEarly(r, k) \/ AnswerCached(r, k) \/ Follow(r, k) \/ Lead(r, k)

-----------------------------------------------------------------------------
Settle(r, end) == [req EXCEPT ![r].pc = "done", ![r].end = end]

(* _set_future_result, _set_future_exception: the first answer stands.     *)
SetFuture(r, end) == IF fut[r] = "pending" THEN [fut EXCEPT ![r] = end] ELSE fut

(* Mutant: the future is left alone when the leader ends by an exception.  *)
PublishResultOnly(r, end) ==
    /\ fut' = IF end \in {"error", "cancelled"} THEN fut ELSE SetFuture(r, end)
    /\ inFlight' = Restrict(inFlight, DOMAIN inFlight \ {req[r].key})
    /\ req' = Settle(r, end)
    /\ cancelling' = cancelling \ {r}

(* The leader's judgment is over, in whatever way: its followers are told, *)
(* the key is free again (the finally clause), and the leader ends.        *)
Publish(r, end) ==
    /\ fut' = SetFuture(r, end)
    /\ inFlight' = Restrict(inFlight, DOMAIN inFlight \ {req[r].key})
    /\ req' = Settle(r, end)
    /\ cancelling' = cancelling \ {r}

Store(k, verdict) ==
    IF Ttl = 0 THEN cache
    ELSE [i \in DOMAIN cache \cup {k} |->
              IF i = k THEN [expires |-> clock + Ttl, verdict |-> verdict]
                       ELSE cache[i]]

Leading(r) == req[r].pc = "leading" /\ r \notin cancelling

JudgeReturns(r, verdict) ==
    /\ Leading(r)
    /\ judged' = judged \cup {[key |-> req[r].key, verdict |-> verdict, at |-> clock]}
    /\ cache' = Store(req[r].key, verdict)
    /\ Publish(r, verdict)
    /\ UNCHANGED <<clock, llm, fallback, lastCleanup>>

(* Mutant: the ask of a failed judgment is cached like a judgment.         *)
JudgeFailsCached(r) ==
    /\ Leading(r)
    /\ cache' = Store(req[r].key, "system_ask")
    /\ Publish(r, "system_ask")
    /\ UNCHANGED <<clock, llm, fallback, lastCleanup, judged>>

(* LlmUnavailableError (time out included) or ResponseParseError.          *)
JudgeFails(r) ==
    /\ Leading(r)
    /\ Publish(r, "system_ask")
    /\ UNCHANGED <<clock, llm, fallback, cache, lastCleanup, judged>>

(* Any other exception, of the judge or of the memory client.              *)
JudgeRaises(r) ==
    /\ Leading(r)
    /\ Publish(r, "error")
    /\ UNCHANGED <<clock, llm, fallback, cache, lastCleanup, judged>>

UnwindLeader(r) ==
    /\ req[r].pc = "leading"
    /\ r \in cancelling
    /\ Publish(r, "cancelled")
    /\ UNCHANGED <<clock, llm, fallback, cache, lastCleanup, judged>>

FollowerWakes(r) ==
    /\ req[r].pc = "following"
    /\ r \notin cancelling
    /\ fut[req[r].leader] # "pending"
    /\ req' = Settle(r, fut[req[r].leader])
    /\ UNCHANGED <<clock, llm, fallback, cache, lastCleanup, inFlight, fut,
                   cancelling, judged>>

UnwindFollower(r) ==
    /\ req[r].pc = "following"
    /\ r \in cancelling
    /\ req' = Settle(r, "cancelled")
    /\ cancelling' = cancelling \ {r}
    /\ UNCHANGED <<clock, llm, fallback, cache, lastCleanup, inFlight, fut, judged>>

(* Mutant: without the shield the cancellation reaches the future.         *)
CancelUnshielded(r) ==
    /\ req[r].pc \in {"leading", "following"}
    /\ cancelling' = cancelling \cup {r}
    /\ fut' = IF req[r].pc = "following" THEN SetFuture(req[r].leader, "cancelled")
                                         ELSE fut
    /\ UNCHANGED <<clock, llm, fallback, cache, lastCleanup, inFlight, req, judged>>

(* The server cancels the task of a request (client gone, shutdown).  The  *)
(* task sees it when it runs next; until then its key stays in flight, and *)
(* asyncio.shield keeps it from the future a follower awaits.              *)
Cancel(r) ==
    /\ req[r].pc \in {"leading", "following"}
    /\ cancelling' = cancelling \cup {r}
    /\ UNCHANGED <<clock, llm, fallback, cache, lastCleanup, inFlight, fut, req, judged>>

(* The steps the loop and the LLM client's own time out bring about.       *)
RequestStep(r) ==
    \/ \E v \in Verdicts : JudgeReturns(r, v)
    \/ JudgeFails(r)
    \/ JudgeRaises(r)
    \/ UnwindLeader(r)
    \/ FollowerWakes(r)
    \/ UnwindFollower(r)

Next ==
    \/ Tick
    \/ \E r \in Requests :
          \/ \E k \in Keys : Evaluate(r, k)
          \/ Cancel(r)
          \/ RequestStep(r)

Fairness == \A r \in Requests : WF_vars(RequestStep(r))

Spec == Init /\ [][Next]_vars /\ Fairness

-----------------------------------------------------------------------------
Requested == {r \in Requests : req[r].pc # "new"}

(* Equal calls are judged once at a time: the request that judges a key is *)
(* the one registered for it, and whoever waits for a future that is still *)
(* open waits for a judgment of the same key that is going on.             *)
OneJudgmentPerKey ==
    \A r \in Requested :
        /\ req[r].pc = "leading" =>
              req[r].key \in DOMAIN inFlight /\ inFlight[req[r].key] = r
        /\ req[r].pc = "following" =>
              LET l == req[r].leader
              IN  /\ req[l].key = req[r].key
                  /\ fut[l] = "pending" => req[l].pc = "leading"

(* Whatever the cache holds is a judgment of that very call, kept exactly  *)
(* as long as configured; the ask that stands for a failure is not cached, *)
(* so that the next equal call is judged again.                            *)
CacheHoldsJudgments ==
    \A k \in DOMAIN cache :
        \E j \in judged :
            /\ j.key = k
            /\ j.verdict = cache[k].verdict
            /\ cache[k].expires = j.at + Ttl

(* What an answer may rest on.  Where policy or configuration settles the  *)
(* call: a deny or an ask of the policy although the call is exempt from   *)
(* judgment, an allow for an exempt call, the fallback without an LLM.     *)
Settled(k, end) ==
    \/ Tier1[k] = "DENY" /\ end = "deny"
    \/ Tier1[k] = "REQUIRES_APPROVAL" /\ end = "ask"
    \/ Tier1[k] = "ALLOW" /\ k \in NoJudge /\ end = "allow"
    \/ Tier1[k] = "ALLOW" /\ k \notin NoJudge /\ ~llm /\ end = fallback

(* Everywhere else: a judgment of the call that was younger than the time  *)
(* to live when the request came, or that was given after it.              *)
ForTheLlm(k) == Tier1[k] = "ALLOW" /\ k \notin NoJudge /\ llm

Fresh(k, verdict, since) ==
    \E j \in judged : /\ j.key = k
                      /\ j.verdict = verdict
                      /\ j.at >= since \/ since < j.at + Ttl

(* The ask that stands for a failure, and an error, come of a judgment of  *)
(* the call that ended so: the request's own, or the one it waited for.    *)
Grounded(r) ==
    LET k == req[r].key
        end == req[r].end
        l == req[r].leader
    IN  \/ Settled(k, end)
        \/ /\ ForTheLlm(k)
           /\ end \in Verdicts => Fresh(k, end, req[r].since)
           /\ end \in {"system_ask", "error"} => fut[l] = end /\ req[l].key = k

(* Every answer has its grounds, whatever the request raced with: policy   *)
(* and configuration are always obeyed, and no request is answered on the  *)
(* strength of another call, of its failure or of an old judgment.         *)
AnswersGrounded ==
    \A r \in Requested : req[r].pc = "done" => Grounded(r)

(* Cancelling one request ends no other, unless it leads their judgment:   *)
(* a follower that gives up leaves the leader and the other followers be.  *)
(* ("cancelled" is how a request ends that was cancelled, or whose leader  *)
(* ended so.)                                                              *)
CancellationContained ==
    [][\A r \in Requested :
          (req[r].end = "none" /\ req'[r].end = "cancelled" /\ r \notin cancelling) =>
              req[req[r].leader].end = "cancelled"]_vars

(* Expired judgments do not pile up: a sweep cannot be put off by traffic, *)
(* so that whenever a call gets past the policy the latest sweep is not    *)
(* older than its interval, and nothing is left that had expired by then.  *)
ExpiredAreSwept ==
    [][\A r \in Requests :
          (req[r].pc = "new" /\ req'[r].pc # "new" /\ Early(req'[r].key) = "none") =>
              /\ clock - lastCleanup' < CleanupInterval
              /\ \A k \in DOMAIN cache' : cache'[k].expires > lastCleanup']_vars

(* No request hangs, whatever becomes of the request it waits for: this is *)
(* the hang that CHANGELOG.md:19 reports as fixed.                         *)
RequestsEnd ==
    \A r \in Requests : (r \in Requested) ~> (req[r].pc = "done")
=============================================================================

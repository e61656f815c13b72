--------------------- MODULE EvaluatorCoalescingProofs ---------------------
(***************************************************************************)
(* Proofs about EvaluatorCoalescing, for any requests, calls, time to live *)
(* and clean-up interval.  The keys in flight are those that some request  *)
(* judges (InFlightInv); a future tells how its request ended (FutureInv); *)
(* a follower waits for one of its own key that brings it no verdict older *)
(* than itself (FollowInv), although it resumes in a later step, when the  *)
(* key may be in flight again.                                             *)
(***************************************************************************)
EXTENDS EvaluatorCoalescing, TLAPS

(* A request that has come, and a judgment.                                *)
Request == [pc : {"leading", "following", "done"}, key : Keys, since : Nat,
            leader : Requests, end : Ends \cup {"none"}]

Judgment == [key : Keys, verdict : Verdicts, at : Nat]

TypeInv ==
    /\ clock \in Nat
    /\ lastCleanup \in Nat
    /\ lastCleanup <= clock
    /\ fallback \in {"allow", "ask"}
    /\ req \in [Requests -> {NotYet} \cup Request]
    /\ fut \in [Requests -> Ends \cup {"none", "pending"}]
    /\ cancelling \subseteq Requests
    /\ judged \subseteq Judgment
    /\ \A j \in judged : j.at <= clock
    /\ \A r \in Requested : req[r].since <= clock

(* The keys in flight are those that some request judges, one for each.    *)
InFlightInv ==
    /\ DOMAIN inFlight \subseteq Keys
    /\ \A k \in DOMAIN inFlight :
          /\ inFlight[k] \in Requests
          /\ req[inFlight[k]].pc = "leading"
          /\ req[inFlight[k]].key = k
    /\ \A r \in Requested : req[r].pc = "leading" =>
          /\ req[r].key \in DOMAIN inFlight
          /\ inFlight[req[r].key] = r
          /\ req[r].leader = r

(* A future is open exactly while its request judges, and then holds how   *)
(* that ended.                                                             *)
FutureInv ==
    \A r \in Requests :
        /\ req[r].pc = "leading" <=> fut[r] = "pending"
        /\ fut[r] \in Ends => req[r].pc = "done" /\ req[r].end = fut[r]

(* A judgment that answers a request that came at some instant for k.      *)
JudgedSince(k, verdict, since) ==
    \E j \in judged : j.key = k /\ j.verdict = verdict /\ j.at >= since

(* A follower waits for a future of its own key, which brings it no        *)
(* verdict older than itself.                                              *)
FollowInv ==
    \A r \in Requested : req[r].pc = "following" =>
        LET l == req[r].leader
        IN  /\ req[l] \in Request
            /\ req[l].key = req[r].key
            /\ fut[l] # "none"
            /\ fut[l] \in Verdicts => JudgedSince(req[r].key, fut[l], req[r].since)

(* Only calls that neither policy nor configuration settles are judged, and*)
(* only running requests have no end.                                      *)
JudgedInv ==
    \A r \in Requested :
        /\ req[r].pc \in {"leading", "following"} =>
              ForTheLlm(req[r].key) /\ req[r].end = "none"
        /\ req[r].pc = "done" => req[r].end # "none"

(* What is in the cache had not expired at the last clean-up.              *)
CacheInv ==
    /\ CacheHoldsJudgments
    /\ \A k \in DOMAIN cache : cache[k].expires > lastCleanup

IInv ==
    /\ TypeInv
    /\ InFlightInv
    /\ FutureInv
    /\ FollowInv
    /\ JudgedInv
    /\ CacheInv
    /\ AnswersGrounded

(* The grounds of an answer that was given do not go away.                 *)
LEMMA GroundedStays ==
    ASSUME IInv, NEW q \in Requested, req[q].pc = "done", req'[q] = req[q],
           UNCHANGED <<llm, fallback>>, judged \subseteq judged',
           \A l \in Requests : fut[l] \in Ends => fut'[l] = fut[l] /\ req'[l].key = req[l].key
    PROVE  Grounded(q)'
<1> DEFINE k == req[q].key
           end == req[q].end
           l == req[q].leader
<1>1. req[q] \in Request /\ l \in Requests /\ Grounded(q)
  BY DEF IInv, TypeInv, AnswersGrounded, Requested, Request, NotYet
<1>2. Settled(k, end) => Settled(k, end)'
  BY DEF Settled
<1>3. ForTheLlm(k) => ForTheLlm(k)'
  BY DEF ForTheLlm
<1>4. Fresh(k, end, req[q].since) => Fresh(k, end, req[q].since)'
  BY DEF Fresh
<1>5. end \in {"system_ask", "error"} /\ fut[l] = end /\ req[l].key = k =>
          fut'[l] = end /\ req'[l].key = k
  BY <1>1 DEF Ends
<1>6. k' = k /\ end' = end /\ l' = l /\ req'[q].since = req[q].since
  OBVIOUS
<1> HIDE DEF k, end, l
<1> QED  BY <1>1, <1>2, <1>3, <1>4, <1>5, <1>6 DEF Grounded, k, end, l

(* It holds of an evaluator that has just been built.                      *)
LEMMA InitIInv == Init => IInv
<1> SUFFICES ASSUME Init PROVE IInv
  OBVIOUS
<1> USE DEF Init, Requested, NotYet
<1>1. TypeInv
  BY DEF TypeInv
<1>2. InFlightInv /\ FutureInv /\ FollowInv /\ JudgedInv /\ AnswersGrounded
  BY DEF InFlightInv, FutureInv, FollowInv, JudgedInv, AnswersGrounded, Ends, Verdicts
<1>3. CacheInv
  BY DEF CacheInv, CacheHoldsJudgments
<1> QED  BY <1>1, <1>2, <1>3 DEF IInv

-----------------------------------------------------------------------------
(* What evaluate answers before it turns to the LLM is a verdict of the    *)
(* policy, or the fallback; it turns to the LLM only for an allowed call.  *)
LEMMA EarlyFacts ==
    ASSUME TypeInv, NEW k \in Keys
    PROVE  /\ Early(k) \in Verdicts \cup {"none"}
           /\ Early(k) = "none" => ForTheLlm(k)
           /\ Early(k) # "none" => Settled(k, Early(k))
BY EvaluatorAssumption DEF TypeInv, Early, Verdicts, ForTheLlm, Settled

(* A look-up leaves in the cache only what it held, and nothing that had   *)
(* expired at the latest clean-up; what it finds has not expired.          *)
LEMMA LookUpStep ==
    ASSUME IInv, NEW k \in Keys, LookUp(k), UNCHANGED <<clock, judged>>
    PROVE  /\ CacheInv'
           /\ lastCleanup' \in Nat
           /\ lastCleanup' <= clock
           /\ clock - lastCleanup' < CleanupInterval
           /\ k \in DOMAIN Swept(k) =>
                  \E j \in judged : /\ j.key = k
                                    /\ j.verdict = Swept(k)[k].verdict
                                    /\ clock < j.at + Ttl
<1> USE EvaluatorAssumption
<1>1. /\ DOMAIN Swept(k) \subseteq DOMAIN cache
      /\ \A i \in DOMAIN Swept(k) : Swept(k)[i] = cache[i]
  BY DEF Swept, Restrict
<1>2. \A i \in DOMAIN cache : cache[i].expires \in Nat
  BY DEF IInv, CacheInv, CacheHoldsJudgments, TypeInv, Judgment
<1>3. clock \in Nat /\ lastCleanup \in Nat /\ lastCleanup <= clock
  BY DEF IInv, TypeInv
<1>4. /\ lastCleanup' \in Nat
      /\ lastCleanup' <= clock
      /\ clock - lastCleanup' < CleanupInterval
  BY <1>3 DEF LookUp
<1>5. \A i \in DOMAIN Swept(k) : cache[i].expires > lastCleanup'
  <2> TAKE i \in DOMAIN Swept(k)
  <2>1. CASE clock - lastCleanup >= CleanupInterval
    BY <2>1, <1>1, <1>2, <1>3 DEF LookUp, Swept, Restrict, Stale
  <2>2. CASE ~(clock - lastCleanup >= CleanupInterval)
    BY <2>2, <1>1 DEF LookUp, IInv, CacheInv
  <2> QED  BY <2>1, <2>2
<1>6. CacheInv'
  BY <1>1, <1>5 DEF LookUp, IInv, CacheInv, CacheHoldsJudgments
<1>7. ASSUME k \in DOMAIN Swept(k) PROVE cache[k].expires > clock
  BY <1>1, <1>2, <1>3, <1>7 DEF Swept, Restrict, Stale
<1>8. ASSUME k \in DOMAIN Swept(k)
      PROVE  \E j \in judged : /\ j.key = k
                               /\ j.verdict = Swept(k)[k].verdict
                               /\ clock < j.at + Ttl
  BY <1>1, <1>7, <1>8 DEF IInv, CacheInv, CacheHoldsJudgments
<1> QED  BY <1>4, <1>6, <1>8

-----------------------------------------------------------------------------
(* A request that comes, and neither leads nor changes a future: the parts *)
(* of the invariant that speak of the others are not touched.              *)
LEMMA NewRequestStep ==
    ASSUME IInv, NEW r \in Requests, req[r].pc = "new",
           NEW new \in Request, new.since = clock, new.pc # "leading",
           req' = [req EXCEPT ![r] = new],
           UNCHANGED <<clock, fallback, inFlight, fut, cancelling, judged>>
    PROVE  /\ req' \in [Requests -> {NotYet} \cup Request]
           /\ \A q \in Requested' : req'[q].since <= clock
           /\ InFlightInv'
           /\ FutureInv'
           /\ r \notin Requested
           /\ Requested' = Requested \cup {r}
           /\ req[r] = NotYet
<1>1. req[r] = NotYet /\ r \notin Requested
  BY DEF IInv, TypeInv, NotYet, Request, Requested
<1>2. /\ req' \in [Requests -> {NotYet} \cup Request]
      /\ \A q \in Requested' : req'[q].since <= clock
      /\ Requested' = Requested \cup {r}
  BY <1>1 DEF IInv, TypeInv, NotYet, Request, Requested
<1>3. InFlightInv'
  BY <1>1, <1>2 DEF IInv, TypeInv, InFlightInv, NotYet, Request
<1>4. fut[r] \notin Ends /\ fut[r] # "pending"
  BY <1>1 DEF IInv, FutureInv, NotYet
<1>5. FutureInv'
  BY <1>1, <1>2, <1>4 DEF IInv, TypeInv, FutureInv, NotYet, Request, Ends, Verdicts
<1> QED  BY <1>1, <1>2, <1>3, <1>5

(* What it has to bring along: an end with grounds, or a call to judge.    *)
LEMMA NewRequestJudged ==
    ASSUME IInv, NEW r \in Requests, r \notin Requested, req[r] = NotYet,
           Requested' = Requested \cup {r},
           \A q \in Requests \ {r} : req'[q] = req[q] /\ fut'[q] = fut[q],
           UNCHANGED <<llm, fallback, judged>>,
           req'[r].pc = "done" => req'[r].end # "none" /\ Grounded(r)',
           req'[r].pc \in {"leading", "following"} =>
               ForTheLlm(req[r].key)' /\ req'[r].end = "none"
    PROVE  JudgedInv' /\ AnswersGrounded'
<1>1. \A q \in Requested : q \in Requests \ {r} /\ req'[q] = req[q]
  BY DEF Requested
<1>2. \A k : ForTheLlm(k) => ForTheLlm(k)'
  BY DEF ForTheLlm
<1>3. JudgedInv'
  BY <1>1, <1>2 DEF IInv, JudgedInv
<1>4. fut[r] \notin Ends
  BY DEF IInv, FutureInv, NotYet
<1>5. \A l \in Requests : fut[l] \in Ends => fut'[l] = fut[l] /\ req'[l].key = req[l].key
  BY <1>4
<1>6. ASSUME NEW q \in Requested, req[q].pc = "done" PROVE Grounded(q)'
  BY <1>1, <1>5, <1>6, GroundedStays
<1>7. AnswersGrounded'
  BY <1>1, <1>6 DEF AnswersGrounded
<1> QED  BY <1>3, <1>7

(* The end of a leader's judgment, whatever its outcome.                   *)
LEMMA PublishStep ==
    ASSUME IInv, NEW r \in Requests, req[r].pc = "leading", NEW end \in Ends,
           Publish(r, end), UNCHANGED <<clock, llm, fallback, lastCleanup>>,
           judged' \subseteq Judgment, judged \subseteq judged',
           \A j \in judged' : j.at <= clock,
           end \in Verdicts => \E j \in judged' : /\ j.key = req[r].key
                                                  /\ j.verdict = end
                                                  /\ j.at = clock
    PROVE  /\ TypeInv'
           /\ InFlightInv'
           /\ FutureInv'
           /\ FollowInv'
           /\ JudgedInv'
           /\ AnswersGrounded'
<1>1. /\ r \in Requested
      /\ req[r] \in Request
      /\ fut[r] = "pending"
      /\ req[r].since <= clock
      /\ ForTheLlm(req[r].key)
      /\ req[r].leader = r
  BY DEF IInv, TypeInv, InFlightInv, FutureInv, JudgedInv, Requested, NotYet
<1>2. /\ req' = [req EXCEPT ![r] = [req[r] EXCEPT !.pc = "done", !.end = end]]
      /\ req'[r].pc = "done"
      /\ req'[r].end = end
      /\ req'[r] \in Request
      /\ \A f \in {"key", "since", "leader"} : req'[r][f] = req[r][f]
      /\ \A q \in Requests \ {r} : req'[q] = req[q]
      /\ Requested' = Requested
  BY <1>1 DEF IInv, TypeInv, Publish, Settle, Request, Requested
<1>3. fut' = [fut EXCEPT ![r] = end]
  BY <1>1 DEF Publish, SetFuture
<1>4. TypeInv'
  <2>1. req' \in [Requests -> {NotYet} \cup Request]
    BY <1>2 DEF IInv, TypeInv
  <2>2. \A q \in Requested' : req'[q].since <= clock'
    BY <1>1, <1>2 DEF IInv, TypeInv
  <2> QED  BY <1>3, <2>1, <2>2 DEF IInv, TypeInv, Publish, Ends, Verdicts
<1>5. InFlightInv'
  <2>1. /\ DOMAIN inFlight' = DOMAIN inFlight \ {req[r].key}
        /\ \A k \in DOMAIN inFlight' : inFlight'[k] = inFlight[k]
    BY DEF Publish, Restrict
  <2>2. \A k \in DOMAIN inFlight' : inFlight'[k] # r
    BY <2>1 DEF IInv, InFlightInv
  <2>3. \A q \in Requested : q # r /\ req[q].pc = "leading" => req[q].key # req[r].key
    BY <1>1 DEF IInv, InFlightInv
  <2> QED  BY <1>2, <2>1, <2>2, <2>3 DEF IInv, InFlightInv, Requested
<1>6. FutureInv'
  BY <1>2, <1>3 DEF IInv, TypeInv, FutureInv, Ends, Verdicts
<1>7. FollowInv'
  <2> SUFFICES ASSUME NEW q \in Requested, req[q].pc = "following", q # r
               PROVE  LET l == req[q].leader
                      IN  /\ req'[l] \in Request
                          /\ req'[l].key = req[q].key
                          /\ fut'[l] # "none"
                          /\ fut'[l] \in Verdicts =>
                                \E j \in judged' : /\ j.key = req[q].key
                                                   /\ j.verdict = fut'[l]
                                                   /\ j.at >= req[q].since
    BY <1>2 DEF FollowInv, JudgedSince, Requested
  <2> DEFINE l == req[q].leader
  <2>1. /\ l \in Requests
        /\ req[l] \in Request
        /\ req[l].key = req[q].key
        /\ fut[l] # "none"
        /\ fut[l] \in Verdicts => JudgedSince(req[q].key, fut[l], req[q].since)
        /\ req[q].since \in Nat
        /\ req[q].since <= clock
    BY DEF IInv, TypeInv, FollowInv, Requested, NotYet, Request
  <2>2. CASE l = r
    BY <1>1, <1>2, <1>3, <2>1, <2>2 DEF IInv, TypeInv, JudgedSince, Ends, Verdicts
  <2>3. CASE l # r
    BY <1>2, <1>3, <2>1, <2>3 DEF IInv, TypeInv, JudgedSince
  <2> QED  BY <2>2, <2>3
<1>8. JudgedInv'
  <2>1. \A k : ForTheLlm(k) => ForTheLlm(k)'
    BY DEF ForTheLlm
  <2> QED  BY <1>2, <2>1 DEF IInv, JudgedInv, Requested, Ends, Verdicts
<1>9. AnswersGrounded'
  <2>1. \A l \in Requests : fut[l] \in Ends => fut'[l] = fut[l] /\ req'[l].key = req[l].key
    BY <1>1, <1>2, <1>3 DEF IInv, TypeInv, Ends, Verdicts
  <2>2. ASSUME NEW q \in Requested, q # r, req[q].pc = "done" PROVE Grounded(q)'
    BY <1>2, <2>1, <2>2, GroundedStays DEF Requested
  <2>3. Grounded(r)'
    <3>1. ForTheLlm(req[r].key)'
      BY <1>1, <1>2 DEF ForTheLlm
    <3>2. end \in Verdicts => Fresh(req[r].key, end, req[r].since)'
      BY <1>1, <1>2 DEF Fresh, IInv, TypeInv
    <3>3. fut'[r] = end /\ req'[r].leader = r
      BY <1>1, <1>2, <1>3 DEF IInv, TypeInv
    <3> QED  BY <1>2, <3>1, <3>2, <3>3 DEF Grounded
  <2>4. \A q \in Requested' : req'[q].pc = "done" => Grounded(q)'
    BY <1>2, <2>2, <2>3 DEF Requested
  <2> QED  BY <2>4 DEF AnswersGrounded
<1> QED  BY <1>4, <1>5, <1>6, <1>7, <1>8, <1>9

-----------------------------------------------------------------------------
(* Time passes: the past of every judgment and request stays the past.     *)
LEMMA TickStep == IInv /\ Tick => IInv'
<1> SUFFICES ASSUME IInv, Tick PROVE IInv'
  OBVIOUS
<1>1. TypeInv'
  <2>1. clock' \in Nat /\ clock <= clock' /\ Requested' = Requested
    BY DEF IInv, TypeInv, Tick, Requested
  <2>2. \A j \in judged : j.at \in Nat /\ j.at <= clock
    BY DEF IInv, TypeInv, Judgment
  <2>3. \A r \in Requested : req[r].since \in Nat /\ req[r].since <= clock
    BY DEF IInv, TypeInv, Requested, NotYet, Request
  <2> QED  BY <2>1, <2>2, <2>3 DEF IInv, TypeInv, Tick
<1>2. InFlightInv' /\ FutureInv' /\ JudgedInv'
  BY DEF IInv, Tick, InFlightInv, FutureInv, JudgedInv, ForTheLlm, Requested
<1>3. FollowInv'
  BY DEF IInv, Tick, FollowInv, JudgedSince, Requested
<1>4. CacheInv'
  BY DEF IInv, Tick, CacheInv, CacheHoldsJudgments
<1>5. AnswersGrounded'
  BY GroundedStays DEF Tick, AnswersGrounded, Requested
<1> QED  BY <1>1, <1>2, <1>3, <1>4, <1>5 DEF IInv

(* A request is answered by policy, or by the fallback.                    *)
LEMMA AnswerEarlyStep ==
    ASSUME IInv, NEW r \in Requests, NEW k \in Keys, req[r].pc = "new",
           AnswerEarly(r, k)
    PROVE  IInv'
<1> DEFINE new == Answered(r, k, Early(k))
<1>1. Early(k) \in Verdicts
  BY EarlyFacts DEF AnswerEarly, IInv
<1>2. /\ new \in Request
      /\ new.since = clock
      /\ new.pc = "done"
      /\ new.key = k
      /\ new.end = Early(k)
      /\ req' = [req EXCEPT ![r] = new]
  BY <1>1 DEF Answered, Request, Ends, IInv, TypeInv, AnswerEarly
<1>3. /\ req' \in [Requests -> {NotYet} \cup Request]
      /\ \A q \in Requested' : req'[q].since <= clock
      /\ InFlightInv'
      /\ FutureInv'
      /\ r \notin Requested
      /\ Requested' = Requested \cup {r}
      /\ req[r] = NotYet
  <2> HIDE DEF new
  <2> QED  BY <1>2, NewRequestStep DEF AnswerEarly
<1>4. /\ req'[r] = new
      /\ \A q \in Requested : req'[q] = req[q]
  BY <1>2, <1>3 DEF IInv, TypeInv, Requested
<1> HIDE DEF new
<1>5. TypeInv'
  BY <1>3 DEF IInv, TypeInv, AnswerEarly
<1>6. FollowInv'
  <2>1. \A l \in Requests : req[l] \in Request => req'[l] = req[l]
    BY <1>3, <1>4 DEF Requested, Request, NotYet
  <2>2. \A q \in Requested : req[q].leader \in Requests
    BY DEF IInv, TypeInv, Requested, Request, NotYet
  <2> QED  BY <1>2, <1>3, <1>4, <2>1, <2>2
           DEF IInv, FollowInv, JudgedSince, AnswerEarly
<1>7. Grounded(r)'
  <2>1. Settled(k, Early(k))
    BY EarlyFacts DEF AnswerEarly, IInv
  <2>2. Settled(k, Early(k))'
    BY <2>1 DEF Settled, Early, AnswerEarly
  <2>3. Early(k)' = Early(k)
    BY DEF Early, AnswerEarly
  <2> QED  BY <1>2, <1>4, <2>2, <2>3 DEF Grounded
<1>8. JudgedInv' /\ AnswersGrounded'
  <2>1. /\ \A q \in Requests \ {r} : req'[q] = req[q] /\ fut'[q] = fut[q]
        /\ UNCHANGED <<llm, fallback, judged>>
    BY <1>2 DEF AnswerEarly, IInv, TypeInv
  <2>2. req'[r].pc = "done" /\ req'[r].end # "none"
    BY <1>1, <1>2, <1>4 DEF Verdicts
  <2> QED  BY <1>3, <1>7, <2>1, <2>2, NewRequestJudged
<1>9. CacheInv'
  BY DEF IInv, CacheInv, CacheHoldsJudgments, AnswerEarly
<1> QED  BY <1>3, <1>5, <1>6, <1>8, <1>9 DEF IInv

(* A request is answered from the cache.                                   *)
LEMMA AnswerCachedStep ==
    ASSUME IInv, NEW r \in Requests, NEW k \in Keys, req[r].pc = "new",
           AnswerCached(r, k)
    PROVE  IInv'
<1> DEFINE new == Answered(r, k, Swept(k)[k].verdict)
<1>1. /\ CacheInv'
      /\ lastCleanup' \in Nat
      /\ lastCleanup' <= clock
      /\ \E j \in judged : /\ j.key = k
                           /\ j.verdict = Swept(k)[k].verdict
                           /\ clock < j.at + Ttl
  BY LookUpStep DEF AnswerCached
<1>2. Swept(k)[k].verdict \in Verdicts
  BY <1>1 DEF IInv, TypeInv, Judgment
<1>3. ForTheLlm(k)
  BY EarlyFacts DEF AnswerCached, LookUp, IInv
<1>4. /\ new \in Request
      /\ new.since = clock
      /\ new.pc = "done"
      /\ new.key = k
      /\ new.end = Swept(k)[k].verdict
      /\ req' = [req EXCEPT ![r] = new]
  BY <1>2 DEF Answered, Request, Ends, IInv, TypeInv, AnswerCached
<1>5. /\ req' \in [Requests -> {NotYet} \cup Request]
      /\ \A q \in Requested' : req'[q].since <= clock
      /\ InFlightInv'
      /\ FutureInv'
      /\ r \notin Requested
      /\ Requested' = Requested \cup {r}
      /\ req[r] = NotYet
  <2> HIDE DEF new
  <2> QED  BY <1>4, NewRequestStep DEF AnswerCached
<1>6. /\ req'[r] = new
      /\ \A q \in Requested : req'[q] = req[q]
  BY <1>4, <1>5 DEF IInv, TypeInv, Requested
<1> HIDE DEF new
<1>7. TypeInv'
  BY <1>1, <1>5 DEF IInv, TypeInv, AnswerCached
<1>8. FollowInv'
  <2>1. \A l \in Requests : req[l] \in Request => req'[l] = req[l]
    BY <1>5, <1>6 DEF Requested, Request, NotYet
  <2>2. \A q \in Requested : req[q].leader \in Requests
    BY DEF IInv, TypeInv, Requested, Request, NotYet
  <2> QED  BY <1>4, <1>5, <1>6, <2>1, <2>2
           DEF IInv, FollowInv, JudgedSince, AnswerCached
<1>9. Grounded(r)'
  <2>1. ForTheLlm(k)'
    BY <1>3 DEF ForTheLlm, AnswerCached
  <2>2. Fresh(req[r].key, req[r].end, req[r].since)'
    BY <1>1, <1>4, <1>6 DEF Fresh, AnswerCached
  <2>3. req'[r].end \notin {"system_ask", "error"}
    BY <1>2, <1>4, <1>6 DEF Verdicts
  <2> QED  BY <1>4, <1>6, <2>1, <2>2, <2>3 DEF Grounded
<1>10. JudgedInv' /\ AnswersGrounded'
  <2>1. /\ \A q \in Requests \ {r} : req'[q] = req[q] /\ fut'[q] = fut[q]
        /\ UNCHANGED <<llm, fallback, judged>>
    BY <1>4 DEF AnswerCached, IInv, TypeInv
  <2>2. req'[r].pc = "done" /\ req'[r].end # "none"
    BY <1>2, <1>4, <1>6 DEF Verdicts
  <2> QED  BY <1>5, <1>9, <2>1, <2>2, NewRequestJudged
<1> QED  BY <1>1, <1>5, <1>7, <1>8, <1>10 DEF IInv

(* A request finds an equal call being judged, and awaits its future.      *)
LEMMA FollowStep ==
    ASSUME IInv, NEW r \in Requests, NEW k \in Keys, req[r].pc = "new",
           Follow(r, k)
    PROVE  IInv'
<1> DEFINE new == Asking(r, k, "following", inFlight[k])
           l == inFlight[k]
<1>1. /\ CacheInv'
      /\ lastCleanup' \in Nat
      /\ lastCleanup' <= clock
  BY LookUpStep DEF Follow
<1>2. /\ l \in Requests
      /\ req[l] \in Request
      /\ req[l].pc = "leading"
      /\ req[l].key = k
      /\ fut[l] = "pending"
  BY DEF Follow, IInv, TypeInv, InFlightInv, FutureInv, NotYet
<1>3. ForTheLlm(k)
  BY EarlyFacts DEF Follow, LookUp, IInv
<1>4. /\ new \in Request
      /\ new.since = clock
      /\ new.pc = "following"
      /\ new.key = k
      /\ new.leader = l
      /\ new.end = "none"
      /\ req' = [req EXCEPT ![r] = new]
  BY <1>2 DEF Asking, Request, Ends, IInv, TypeInv, Follow
<1>5. /\ req' \in [Requests -> {NotYet} \cup Request]
      /\ \A q \in Requested' : req'[q].since <= clock
      /\ InFlightInv'
      /\ FutureInv'
      /\ r \notin Requested
      /\ Requested' = Requested \cup {r}
      /\ req[r] = NotYet
  <2> HIDE DEF new
  <2> QED  BY <1>4, NewRequestStep DEF Follow
<1>6. /\ req'[r] = new
      /\ \A q \in Requested : req'[q] = req[q]
  BY <1>4, <1>5 DEF IInv, TypeInv, Requested
<1> HIDE DEF new, l
<1>7. TypeInv'
  BY <1>1, <1>5 DEF IInv, TypeInv, Follow
<1>8. FollowInv'
  <2>1. \A q \in Requests : req[q] \in Request => req'[q] = req[q]
    BY <1>5, <1>6 DEF Requested, Request, NotYet
  <2>2. \A q \in Requested : req[q].leader \in Requests
    BY DEF IInv, TypeInv, Requested, Request, NotYet
  <2> QED  BY <1>2, <1>4, <1>5, <1>6, <2>1, <2>2
           DEF IInv, FollowInv, JudgedSince, Follow, Verdicts
<1>9. JudgedInv' /\ AnswersGrounded'
  <2>1. /\ \A q \in Requests \ {r} : req'[q] = req[q] /\ fut'[q] = fut[q]
        /\ UNCHANGED <<llm, fallback, judged>>
    BY <1>4 DEF Follow, IInv, TypeInv
  <2>2. ForTheLlm(req[r].key)'
    BY <1>3, <1>4, <1>6 DEF ForTheLlm, Follow
  <2> QED  BY <1>4, <1>5, <1>6, <2>1, <2>2, NewRequestJudged
<1> QED  BY <1>1, <1>5, <1>7, <1>8, <1>9 DEF IInv

(* A request finds nobody who judges the call, and leads.                  *)
LEMMA LeadStep ==
    ASSUME IInv, NEW r \in Requests, NEW k \in Keys, req[r].pc = "new",
           Lead(r, k)
    PROVE  IInv'
<1> DEFINE new == Asking(r, k, "leading", r)
<1>1. /\ CacheInv'
      /\ lastCleanup' \in Nat
      /\ lastCleanup' <= clock
  BY LookUpStep DEF Lead
<1>2. ForTheLlm(k)
  BY EarlyFacts DEF Lead, LookUp, IInv
<1>3. /\ new \in Request
      /\ new.since = clock
      /\ new.pc = "leading"
      /\ new.key = k
      /\ new.leader = r
      /\ new.end = "none"
      /\ req' = [req EXCEPT ![r] = new]
  BY DEF Asking, Request, IInv, TypeInv, Lead
<1>4. /\ req[r] = NotYet
      /\ r \notin Requested
  BY DEF IInv, TypeInv, NotYet, Request, Requested
<1> HIDE DEF new
<1>5. /\ req' \in [Requests -> {NotYet} \cup Request]
      /\ req'[r] = new
      /\ \A q \in Requests \ {r} : req'[q] = req[q]
      /\ Requested' = Requested \cup {r}
  BY <1>3 DEF IInv, TypeInv, Requested
<1>6. /\ fut'[r] = "pending"
      /\ \A q \in Requests \ {r} : fut'[q] = fut[q]
      /\ fut' \in [Requests -> Ends \cup {"none", "pending"}]
  BY DEF IInv, TypeInv, Lead
<1>7. TypeInv'
  BY <1>1, <1>3, <1>5, <1>6 DEF IInv, TypeInv, Requested, Lead
<1>8. InFlightInv'
  <2>1. /\ DOMAIN inFlight' = DOMAIN inFlight \cup {k}
        /\ inFlight'[k] = r
        /\ \A i \in DOMAIN inFlight : i # k /\ inFlight'[i] = inFlight[i]
        /\ k \notin DOMAIN inFlight
    BY DEF Lead
  <2>2. \A i \in DOMAIN inFlight : inFlight[i] # r
    BY DEF IInv, InFlightInv
  <2> QED  BY <1>3, <1>4, <1>5, <2>1, <2>2 DEF IInv, InFlightInv, Requested
<1>9. FutureInv'
  BY <1>3, <1>5, <1>6 DEF IInv, FutureInv, Ends, Verdicts
<1>10. FollowInv'
  <2>1. \A q \in Requested : req[q].leader \in Requests
    BY DEF IInv, TypeInv, Requested, Request, NotYet
  <2>2. \A q \in Requested : q # r
    BY <1>4
  <2>3. \A q \in Requested : req[q].pc = "following" => req[q].leader # r
    BY <1>4 DEF IInv, FollowInv, NotYet, Request
  <2> QED  BY <1>3, <1>5, <1>6, <2>1, <2>2, <2>3
           DEF IInv, FollowInv, JudgedSince, Requested, Lead
<1>11. JudgedInv' /\ AnswersGrounded'
  <2>1. ForTheLlm(req[r].key)'
    BY <1>2, <1>3, <1>5 DEF ForTheLlm, Lead
  <2>2. UNCHANGED <<llm, fallback, judged>>
    BY DEF Lead
  <2> QED  BY <1>3, <1>4, <1>5, <1>6, <2>1, <2>2, NewRequestJudged
<1> QED  BY <1>1, <1>7, <1>8, <1>9, <1>10, <1>11 DEF IInv

(* The LLM has judged: its verdict is cached and published.                *)
LEMMA JudgeReturnsStep ==
    ASSUME IInv, NEW r \in Requests, NEW v \in Verdicts, JudgeReturns(r, v)
    PROVE  IInv'
<1> DEFINE judgment == [key |-> req[r].key, verdict |-> v, at |-> clock]
<1>1. /\ req[r].pc = "leading"
      /\ req[r].key \in Keys
      /\ clock \in Nat
      /\ judged' = judged \cup {judgment}
      /\ judgment \in Judgment
  BY DEF IInv, TypeInv, JudgeReturns, Leading, NotYet, Request, Judgment
<1>2. /\ judged' \subseteq Judgment
      /\ \A j \in judged' : j.at <= clock
      /\ \E j \in judged' : /\ j.key = req[r].key
                            /\ j.verdict = v
                            /\ j.at = clock
  BY <1>1 DEF IInv, TypeInv
<1>3. /\ TypeInv'
      /\ InFlightInv'
      /\ FutureInv'
      /\ FollowInv'
      /\ JudgedInv'
      /\ AnswersGrounded'
  <2>1. v \in Ends
    BY DEF Ends
  <2>2. judged \subseteq judged'
    BY <1>1
  <2> QED  BY <1>1, <1>2, <2>1, <2>2, PublishStep DEF JudgeReturns
<1>4. CacheInv'
  <2>1. CASE Ttl = 0
    BY <2>1, <1>1 DEF JudgeReturns, Store, IInv, CacheInv, CacheHoldsJudgments
  <2>2. CASE Ttl # 0
    <3>1. /\ DOMAIN cache' = DOMAIN cache \cup {req[r].key}
          /\ \A i \in DOMAIN cache \ {req[r].key} : cache'[i] = cache[i]
          /\ cache'[req[r].key].expires = clock + Ttl
          /\ cache'[req[r].key].verdict = v
      BY <2>2 DEF JudgeReturns, Store
    <3>2. clock + Ttl > lastCleanup /\ lastCleanup' = lastCleanup
      BY <2>2, EvaluatorAssumption DEF IInv, TypeInv, JudgeReturns
    <3> QED  BY <1>1, <3>1, <3>2 DEF IInv, CacheInv, CacheHoldsJudgments
  <2> QED  BY <2>1, <2>2
<1> QED  BY <1>3, <1>4 DEF IInv

(* The judgment ends without a verdict: the cache stays as it is.          *)
LEMMA NoVerdictStep ==
    ASSUME IInv, NEW r \in Requests,
           JudgeFails(r) \/ JudgeRaises(r) \/ UnwindLeader(r)
    PROVE  IInv'
<1>1. /\ req[r].pc = "leading"
      /\ UNCHANGED <<clock, llm, fallback, cache, lastCleanup, judged>>
      /\ \E end \in {"system_ask", "error", "cancelled"} : Publish(r, end)
  BY DEF JudgeFails, JudgeRaises, UnwindLeader, Leading
<1>2. PICK end \in {"system_ask", "error", "cancelled"} : Publish(r, end)
  BY <1>1
<1>3. end \in Ends /\ end \notin Verdicts
  BY DEF Ends, Verdicts
<1>4. judged' \subseteq Judgment /\ \A j \in judged' : j.at <= clock
  BY <1>1 DEF IInv, TypeInv
<1>5. /\ TypeInv'
      /\ InFlightInv'
      /\ FutureInv'
      /\ FollowInv'
      /\ JudgedInv'
      /\ AnswersGrounded'
  BY <1>1, <1>2, <1>3, <1>4, PublishStep
<1>6. CacheInv'
  BY <1>1 DEF IInv, CacheInv, CacheHoldsJudgments
<1> QED  BY <1>5, <1>6 DEF IInv

(* A follower takes over how its leader's judgment ended, or is cancelled. *)
LEMMA FollowerEndsStep ==
    ASSUME IInv, NEW r \in Requests, FollowerWakes(r) \/ UnwindFollower(r)
    PROVE  IInv'
<1> DEFINE end == IF r \in cancelling THEN "cancelled" ELSE fut[req[r].leader]
<1>1. /\ req[r].pc = "following"
      /\ r \in Requested
      /\ req[r] \in Request
      /\ req' = Settle(r, end)
      /\ cancelling' \subseteq cancelling
      /\ UNCHANGED <<clock, llm, fallback, cache, lastCleanup, inFlight, fut, judged>>
  BY DEF IInv, TypeInv, FollowerWakes, UnwindFollower, Requested, NotYet
<1>2. /\ end \in Ends
      /\ end \in Verdicts => JudgedSince(req[r].key, end, req[r].since)
      /\ end \in {"system_ask", "error"} => fut[req[r].leader] = end
      /\ req[req[r].leader].key = req[r].key
      /\ ForTheLlm(req[r].key)
  <2>1. CASE r \in cancelling
    BY <1>1, <2>1 DEF Ends, Verdicts, IInv, JudgedInv, FollowInv
  <2>2. CASE r \notin cancelling
    <3>1. fut[req[r].leader] # "pending"
      BY <2>2 DEF FollowerWakes, UnwindFollower
    <3>2. req[r].leader \in Requests
      BY <1>1 DEF Request
    <3> QED  BY <1>1, <2>2, <3>1, <3>2 DEF IInv, TypeInv, FollowInv, JudgedInv
  <2> QED  BY <2>1, <2>2
<1> HIDE DEF end
<1>3. /\ req' = [req EXCEPT ![r] = [req[r] EXCEPT !.pc = "done", !.end = end]]
      /\ req'[r].pc = "done"
      /\ req'[r].end = end
      /\ req'[r] \in Request
      /\ \A f \in {"key", "since", "leader"} : req'[r][f] = req[r][f]
      /\ \A q \in Requests \ {r} : req'[q] = req[q]
      /\ Requested' = Requested
  BY <1>1, <1>2 DEF IInv, TypeInv, Settle, Request, Requested
<1>4. TypeInv'
  <2>1. req' \in [Requests -> {NotYet} \cup Request]
    BY <1>3 DEF IInv, TypeInv
  <2>2. \A q \in Requested' : req'[q].since <= clock'
    BY <1>1, <1>3 DEF IInv, TypeInv
  <2> QED  BY <1>1, <2>1, <2>2 DEF IInv, TypeInv
<1>5. InFlightInv'
  BY <1>1, <1>3 DEF IInv, InFlightInv
<1>6. FutureInv'
  BY <1>1, <1>3 DEF IInv, FutureInv
<1>7. FollowInv'
  <2> SUFFICES ASSUME NEW q \in Requested, req[q].pc = "following", q # r
               PROVE  /\ req'[req[q].leader] \in Request
                      /\ req'[req[q].leader].key = req[q].key
    BY <1>1, <1>3 DEF IInv, FollowInv, JudgedSince, Requested
  <2>1. req[q].leader \in Requests
    BY DEF IInv, TypeInv, Requested, Request, NotYet
  <2> QED  BY <1>3, <2>1 DEF IInv, FollowInv
<1>8. JudgedInv'
  <2>1. \A k : ForTheLlm(k) => ForTheLlm(k)'
    BY <1>1 DEF ForTheLlm
  <2> QED  BY <1>2, <1>3, <2>1 DEF IInv, JudgedInv, Requested, Ends, Verdicts
<1>9. CacheInv'
  BY <1>1 DEF IInv, CacheInv, CacheHoldsJudgments
<1>10. AnswersGrounded'
  <2>1. \A l \in Requests : fut'[l] = fut[l] /\ req'[l].key = req[l].key
    BY <1>1, <1>3
  <2>2. ASSUME NEW q \in Requested, q # r, req[q].pc = "done" PROVE Grounded(q)'
    BY <1>1, <1>3, <2>1, <2>2, GroundedStays DEF Requested
  <2>3. Grounded(r)'
    <3>1. ForTheLlm(req[r].key)'
      BY <1>1, <1>2, <1>3 DEF ForTheLlm
    <3>2. req'[r].key = req[r].key /\ req'[r].since = req[r].since
          /\ req'[r].leader = req[r].leader /\ req[r].leader \in Requests
      BY <1>1, <1>3 DEF Request
    <3>3. end \in Verdicts => Fresh(req[r].key, req[r].end, req[r].since)'
      BY <1>1, <1>2, <1>3, <3>2 DEF Fresh, JudgedSince
    <3>4. end \in {"system_ask", "error"} =>
              fut'[req'[r].leader] = end /\ req'[req'[r].leader].key = req'[r].key
      BY <1>2, <2>1, <3>2
    <3> QED  BY <1>3, <3>1, <3>3, <3>4 DEF Grounded
  <2>4. \A q \in Requested' : req'[q].pc = "done" => Grounded(q)'
    BY <1>3, <2>2, <2>3 DEF Requested
  <2> QED  BY <2>4 DEF AnswersGrounded
<1> QED  BY <1>4, <1>5, <1>6, <1>7, <1>8, <1>9, <1>10 DEF IInv

(* Every step of the evaluator and of its requests keeps the invariant.    *)
LEMMA NextIInv == IInv /\ [Next]_vars => IInv'
<1> SUFFICES ASSUME IInv, [Next]_vars PROVE IInv'
  OBVIOUS
<1>1. CASE Tick
  BY <1>1, TickStep
<1>2. ASSUME NEW r \in Requests, NEW k \in Keys, Evaluate(r, k) PROVE IInv'
  BY <1>2, AnswerEarlyStep, AnswerCachedStep, FollowStep, LeadStep DEF Evaluate
<1>3. ASSUME NEW r \in Requests, Cancel(r) PROVE IInv'
  <2>1. AnswersGrounded'
    BY <1>3, GroundedStays DEF Cancel, AnswersGrounded, Requested
  <2> QED
    BY <1>3, <2>1 DEF Cancel, IInv, TypeInv, InFlightInv, FutureInv, FollowInv, JudgedSince,
                      JudgedInv, ForTheLlm, CacheInv, CacheHoldsJudgments, Requested
<1>4. ASSUME NEW r \in Requests, RequestStep(r) PROVE IInv'
  BY <1>4, JudgeReturnsStep, NoVerdictStep, FollowerEndsStep DEF RequestStep
<1>5. CASE UNCHANGED vars
  <2>1. AnswersGrounded'
    BY <1>5, GroundedStays DEF vars, AnswersGrounded, Requested
  <2> QED
    BY <1>5, <2>1 DEF vars, IInv, TypeInv, InFlightInv, FutureInv, FollowInv, JudgedSince,
                      JudgedInv, ForTheLlm, CacheInv, CacheHoldsJudgments, Requested
<1> QED  BY <1>1, <1>2, <1>3, <1>4, <1>5 DEF Next

-----------------------------------------------------------------------------
(* The inductive invariant holds in every behaviour.                       *)
THEOREM Inductive == Spec => []IInv
<1> QED  BY InitIInv, NextIInv, PTL DEF Spec

(* Equal calls are judged once at a time, and a follower of an open future *)
(* waits for a judgment of its own call that is going on (_in_flight_      *)
(* judgments, composite.py).                                               *)
THEOREM JudgedOnce == Spec => []OneJudgmentPerKey
<1>1. IInv => OneJudgmentPerKey
  BY DEF IInv, TypeInv, InFlightInv, FutureInv, FollowInv, OneJudgmentPerKey,
         Requested, Request, NotYet
<1> QED  BY <1>1, Inductive, PTL

(* The cache holds judgments of the very call, kept as long as configured, *)
(* and never the ask that stands for a failure.                            *)
THEOREM CacheCorrect == Spec => []CacheHoldsJudgments
<1>1. IInv => CacheHoldsJudgments
  BY DEF IInv, CacheInv
<1> QED  BY <1>1, Inductive, PTL

(* Policy and configuration are always obeyed, and no request is answered  *)
(* on the strength of another call, of its failure, or of a judgment that  *)
(* had expired when it came.                                               *)
THEOREM AnswersCorrect == Spec => []AnswersGrounded
<1>1. IInv => AnswersGrounded
  BY DEF IInv
<1> QED  BY <1>1, Inductive, PTL

(* The step of CancellationContained.                                      *)
Contained ==
    \A r \in Requested :
        (req[r].end = "none" /\ req'[r].end = "cancelled" /\ r \notin cancelling) =>
            req[req[r].leader].end = "cancelled"

(* Only the leader's future can tell a request that was not cancelled that *)
(* it is.                                                                  *)
LEMMA NextContained == IInv /\ [Next]_vars => Contained
<1> SUFFICES ASSUME IInv, [Next]_vars, NEW r \in Requested, req[r].end = "none",
                    req'[r].end = "cancelled", r \notin cancelling
             PROVE  req[req[r].leader].end = "cancelled"
  BY DEF Contained
<1>1. r \in Requests /\ req[r].pc # "new" /\ req[r] \in Request
  BY DEF Requested, IInv, TypeInv, NotYet
<1>2. ASSUME NEW q \in Requests, NEW k \in Keys, Evaluate(q, k) PROVE FALSE
  BY <1>1, <1>2 DEF Evaluate, AnswerEarly, AnswerCached, Follow, Lead, IInv, TypeInv
<1>3. ASSUME NEW q \in Requests, NEW end \in Ends, Publish(q, end)
      PROVE  q = r /\ end = "cancelled"
  BY <1>1, <1>3 DEF Publish, Settle, IInv, TypeInv, Request
<1>4. ASSUME NEW q \in Requests, FollowerWakes(q)
      PROVE  req[req[r].leader].end = "cancelled"
  <2>1. q = r
    BY <1>1, <1>4 DEF FollowerWakes, Settle, IInv, TypeInv
  <2>2. fut[req[r].leader] = "cancelled"
    BY <1>1, <1>4, <2>1 DEF FollowerWakes, Settle, IInv, TypeInv, Request
  <2> QED  BY <1>1, <2>2 DEF IInv, FutureInv, Ends, Request
<1>5. ASSUME NEW q \in Requests, UnwindFollower(q) PROVE FALSE
  BY <1>1, <1>5 DEF UnwindFollower, Settle, IInv, TypeInv
<1>6. ASSUME NEW q \in Requests, RequestStep(q)
      PROVE  req[req[r].leader].end = "cancelled"
  <2>1. ASSUME NEW v \in Verdicts, JudgeReturns(q, v) PROVE FALSE
    BY <2>1, <1>3 DEF JudgeReturns, Ends, Verdicts
  <2>2. CASE JudgeFails(q) \/ JudgeRaises(q)
    BY <2>2, <1>3 DEF JudgeFails, JudgeRaises, Ends
  <2>3. CASE UnwindLeader(q)
    BY <2>3, <1>3 DEF UnwindLeader, Ends
  <2> QED  BY <1>4, <1>5, <1>6, <2>1, <2>2, <2>3 DEF RequestStep
<1>7. CASE Tick \/ UNCHANGED vars \/ \E q \in Requests : Cancel(q)
  BY <1>1, <1>7 DEF Tick, Cancel, vars
<1> QED  BY <1>2, <1>6, <1>7 DEF Next

(* The shield: a request that ends as cancelled without having been        *)
(* cancelled itself is a follower whose leader ended so.                   *)
THEOREM CancellationOfLeaderOnly == Spec => CancellationContained
<1>1. IInv /\ [Next]_vars => [Contained]_vars
  BY NextContained
<1>2. Spec => [][Contained]_vars
  BY <1>1, Inductive, PTL DEF Spec
<1> QED  BY <1>2 DEF CancellationContained, Contained

(* The step of ExpiredAreSwept.                                            *)
Sweeping ==
    \A r \in Requests :
        (req[r].pc = "new" /\ req'[r].pc # "new" /\ Early(req'[r].key) = "none") =>
            /\ clock - lastCleanup' < CleanupInterval
            /\ \A k \in DOMAIN cache' : cache'[k].expires > lastCleanup'

(* A request that gets past the policy has looked the cache up, whatever   *)
(* becomes of it.                                                          *)
LEMMA NextSweeping == IInv /\ [Next]_vars => Sweeping
<1> SUFFICES ASSUME IInv, [Next]_vars, NEW r \in Requests, req[r].pc = "new",
                    req'[r].pc # "new", Early(req'[r].key) = "none"
             PROVE  /\ clock - lastCleanup' < CleanupInterval
                    /\ \A k \in DOMAIN cache' : cache'[k].expires > lastCleanup'
  BY DEF Sweeping
<1>1. ASSUME NEW q \in Requests, NEW end \in Ends, Publish(q, end),
             req[q].pc = "leading"
      PROVE  FALSE
  BY <1>1 DEF Publish, Settle, IInv, TypeInv
<1>2. ASSUME NEW q \in Requests, RequestStep(q) PROVE FALSE
  <2>1. ASSUME NEW v \in Verdicts, JudgeReturns(q, v) PROVE FALSE
    BY <2>1, <1>1 DEF JudgeReturns, Leading, Ends
  <2>2. CASE JudgeFails(q) \/ JudgeRaises(q) \/ UnwindLeader(q)
    BY <2>2, <1>1 DEF JudgeFails, JudgeRaises, UnwindLeader, Leading, Ends
  <2>3. CASE FollowerWakes(q) \/ UnwindFollower(q)
    BY <2>3 DEF FollowerWakes, UnwindFollower, Settle, IInv, TypeInv
  <2> QED  BY <1>2, <2>1, <2>2, <2>3 DEF RequestStep
<1>3. CASE Tick \/ UNCHANGED vars \/ \E q \in Requests : Cancel(q)
  BY <1>3 DEF Tick, Cancel, vars
<1>4. ASSUME NEW q \in Requests, NEW k \in Keys, Evaluate(q, k)
      PROVE  /\ clock - lastCleanup' < CleanupInterval
             /\ CacheInv'
  <2>1. q = r
    BY <1>4 DEF Evaluate, AnswerEarly, AnswerCached, Follow, Lead, IInv, TypeInv
  <2>2. CASE AnswerEarly(q, k)
    BY <2>1, <2>2 DEF AnswerEarly, Answered, IInv, TypeInv
  <2>3. CASE AnswerCached(q, k) \/ Follow(q, k) \/ Lead(q, k)
    <3>1. LookUp(k) /\ UNCHANGED <<clock, judged>>
      BY <2>3 DEF AnswerCached, Follow, Lead
    <3> QED  BY <3>1, LookUpStep
  <2> QED  BY <1>4, <2>2, <2>3 DEF Evaluate
<1> QED  BY <1>2, <1>3, <1>4 DEF Next, CacheInv

(* Expired judgments do not pile up (_maybe_cleanup_cache): after a call   *)
(* that got past the policy, the latest sweep is younger than its interval *)
(* and what had expired by then is gone.                                   *)
THEOREM CacheSwept == Spec => ExpiredAreSwept
<1>1. IInv /\ [Next]_vars => [Sweeping]_vars
  BY NextSweeping
<1>2. Spec => [][Sweeping]_vars
  BY <1>1, Inductive, PTL DEF Spec
<1> QED  BY <1>2 DEF ExpiredAreSwept, Sweeping
=============================================================================

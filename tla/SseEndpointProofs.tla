------------------------- MODULE SseEndpointProofs -------------------------
(***************************************************************************)
(* Proofs about SseEndpoint, for any sessions, time to live and idle       *)
(* timeout.  The streams only watch: what holds of the registry holds      *)
(* whatever they do.                                                       *)
(***************************************************************************)
EXTENDS SseEndpoint, SessionRegistryProofs

(* Every step is one of the registry, or leaves it alone.                  *)
LEMMA StepOfRegistry == [SseNext]_sseVars => [Next]_sessionVars
BY DEF SseNext, GatewayNext, OtherRequests, UncalledStep, Handshake, Disconnect,
       StartStream, LeaveLoop, Next, sseVars

(* For any number of sessions, any ttl and any idle timeout.               *)
THEOREM Inductive == SseSpec => []SessionInv
<1>1. SseInit => SessionInv
  BY InitSession DEF SseInit
<1>2. SessionInv /\ [SseNext]_sseVars => SessionInv'
  BY StepOfRegistry, NextSession
<1> QED  BY <1>1, <1>2, PTL DEF SseSpec

(* A session leaves the registry once, and its hook is scheduled once, by  *)
(* whichever of lookup, touch, purge and remove (auth/session.py) is first.*)
THEOREM EvictedOnceOnly == SseSpec => []EvictedOnce
<1>1. SessionInv => EvictedOnce
  BY DEF SessionInv
<1> QED  BY <1>1, Inductive, PTL

(* No activity of a session is later than its end.                         *)
THEOREM NeverActiveAfterLife == SseSpec => []ActiveWithinLife
<1>1. SessionInv => ActiveWithinLife
  BY DEF SessionInv
<1> QED  BY <1>1, Inductive, PTL

-----------------------------------------------------------------------------
(* What NoRefreshAfterGap says of a step.                                  *)
RefreshedInTime ==
    \A s \in Live \cap DOMAIN records' :
        lastActive'[s] # lastActive[s] =>
            /\ lastActive'[s] - lastActive[s] < Idle
            /\ lastActive'[s] < records[s].expires

(* Only a refresh that found the session alive changes its activity.       *)
LEMMA StepRefreshedInTime == SessionInv /\ [Next]_sessionVars => RefreshedInTime
<1> SUFFICES ASSUME SessionInv, [Next]_sessionVars,
                    NEW s \in Live, s \in DOMAIN records', lastActive'[s] # lastActive[s]
             PROVE  /\ lastActive'[s] - lastActive[s] < Idle
                    /\ lastActive'[s] < records[s].expires
  BY DEF RefreshedInTime
<1>1. DOMAIN lastActive = Live
  BY DEF SessionInv
<1>2. ASSUME NEW S, Evict(S)  PROVE FALSE
  BY <1>1, <1>2 DEF Evict, Restrict, Live
<1>3. ASSUME NEW i, Refresh(i)
      PROVE  /\ i = s /\ lastActive'[s] = clock
             /\ clock - lastActive[s] < Idle /\ clock < records[s].expires
  <2>1. i = s /\ lastActive'[s] = clock
    BY <1>1, <1>3 DEF Refresh
  <2>2. clock \in Nat /\ lastActive[s] \in Nat /\ records[s].expires \in Nat
    BY DEF SessionInv, Record
  <2> QED  BY <1>1, <1>3, <2>1, <2>2, SessionAssumption DEF Refresh, Expired, LastActivity
<1>4. ASSUME NEW i \in Sessions, Create(i)  PROVE FALSE
  BY <1>1, <1>4 DEF Create, SessionInv
<1>5. ASSUME NEW i, Lookup(i)  PROVE Refresh(i)
  BY <1>2, <1>5 DEF Lookup, Unknown, FindExpired, sessionVars
<1> QED
  BY <1>2, <1>3, <1>4, <1>5 DEF Next, Tick, Purge, Touch, Remove, RunHook, sessionVars

(* A session that was idle for the whole timeout is not refreshed, nor is  *)
(* one at or past its expiry (lookup, auth/session.py).                    *)
THEOREM NeverRefreshedAfterGap == SseSpec => NoRefreshAfterGap
<1>1. SessionInv /\ [SseNext]_sseVars => [RefreshedInTime]_sseVars
  BY StepOfRegistry, StepRefreshedInTime
<1>2. SseSpec => [][RefreshedInTime]_sseVars
  BY <1>1, Inductive, PTL DEF SseSpec
<1> QED  BY <1>2 DEF NoRefreshAfterGap, RefreshedInTime
=============================================================================

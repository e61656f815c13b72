----------------------- MODULE SessionRegistryProofs -----------------------
(***************************************************************************)
(* The inductive invariant of SessionRegistry, for any time to live, idle  *)
(* timeout and set of sessions.  SseEndpointProofs and GatewayCallsProofs  *)
(* build on it.                                                            *)
(***************************************************************************)
EXTENDS SessionRegistry, TLAPS

Record == [issued : Nat, expires : Nat]

(* Beside what is promised: a session in the dictionaries was created, and *)
(* no more hooks wait to run than were scheduled.                          *)
SessionInv ==
    /\ clock \in Nat
    /\ Live \subseteq created
    /\ created \subseteq Sessions
    /\ records \in [Live -> Record]
    /\ lastActive \in [Live -> Nat]
    /\ hooks \in [Sessions -> Nat]
    /\ evictions \in [Sessions -> Nat]
    /\ \A s \in Sessions : hooks[s] <= evictions[s]
    /\ EvictedOnce
    /\ ActiveWithinLife

(* The registry starts empty.                                              *)
LEMMA InitSession == Init => SessionInv
BY DEF Init, SessionInv, EvictedOnce, ActiveWithinLife, Live

(* The evictions of lookup, touch, purge and remove.                       *)
LEMMA EvictStep ==
    ASSUME SessionInv, NEW S \in SUBSET Live, Evict(S)
    PROVE  SessionInv'
<1>1. Live' = Live \ S /\ DOMAIN lastActive' = Live \ S
  BY DEF Evict, Live, Restrict, SessionInv, EvictedOnce
<1>2. \A s \in Live' : records'[s] = records[s] /\ lastActive'[s] = lastActive[s]
  BY <1>1 DEF Evict, Live, Restrict, SessionInv, EvictedOnce
<1>3. /\ records' \in [Live' -> Record]
      /\ lastActive' \in [Live' -> Nat]
  BY <1>1 DEF Evict, Live, Restrict, SessionInv, EvictedOnce
<1>4. \A s \in Sessions : /\ hooks'[s] = hooks[s] + IF s \in S THEN 1 ELSE 0
                          /\ evictions'[s] = evictions[s] + IF s \in S THEN 1 ELSE 0
  BY DEF Evict
<1>5. hooks' \in [Sessions -> Nat] /\ evictions' \in [Sessions -> Nat]
  BY DEF Evict, SessionInv
<1>6. EvictedOnce'
  BY <1>1, <1>4 DEF EvictedOnce, SessionInv, Evict
<1>7. ActiveWithinLife'
  BY <1>1, <1>2 DEF ActiveWithinLife, SessionInv, Evict
<1>8. \A s \in Sessions : hooks'[s] <= evictions'[s]
  BY <1>4 DEF SessionInv
<1>9. clock' = clock /\ created' = created
  BY DEF Evict
<1> QED
  BY <1>1, <1>3, <1>5, <1>6, <1>7, <1>8, <1>9 DEF SessionInv

(* A session that is created has its whole life before it.                 *)
LEMMA CreateStep ==
    ASSUME SessionInv, NEW s \in Sessions, Create(s)
    PROVE  SessionInv'
<1> USE SessionAssumption
<1>1. s \notin created /\ s \notin Live /\ created' = created \cup {s}
  BY DEF Create, SessionInv
<1>2. Live' = Live \cup {s} /\ DOMAIN lastActive' = Live \cup {s}
  BY DEF Create, Live, SessionInv, EvictedOnce
<1>3. /\ records'[s] = [issued |-> clock, expires |-> clock + Ttl]
      /\ lastActive'[s] = clock
      /\ \A i \in Live : records'[i] = records[i] /\ lastActive'[i] = lastActive[i]
  BY <1>1 DEF Create, Live, SessionInv, EvictedOnce
<1>4. records'[s] \in Record
  BY <1>3 DEF Record, SessionInv
<1>5. records' \in [Live' -> Record] /\ lastActive' \in [Live' -> Nat]
  BY <1>1, <1>2, <1>3, <1>4 DEF Create, SessionInv, Live, EvictedOnce
<1>6. EvictedOnce'
  BY <1>1, <1>2 DEF EvictedOnce, SessionInv, Create
<1>7. ActiveWithinLife'
  BY <1>2, <1>3 DEF ActiveWithinLife, SessionInv, Create, Record
<1> QED
  BY <1>1, <1>2, <1>5, <1>6, <1>7 DEF SessionInv, Create

(* A session that is touched has not expired, so that it was active within *)
(* its life.                                                               *)
LEMMA RefreshStep ==
    ASSUME SessionInv, NEW s \in Sessions, Refresh(s)
    PROVE  SessionInv'
<1>1. s \in Live /\ ~Expired(s) /\ clock < records[s].expires
  BY DEF Refresh, Expired, SessionInv, Record
<1>2. Live' = Live /\ DOMAIN lastActive' = Live
  BY <1>1 DEF Refresh, Live, SessionInv, EvictedOnce
<1>3. \A i \in Live : lastActive'[i] = IF i = s THEN clock ELSE lastActive[i]
  BY <1>1 DEF Refresh, SessionInv, EvictedOnce
<1>4. lastActive' \in [Live' -> Nat]
  BY <1>1, <1>2 DEF Refresh, SessionInv, EvictedOnce
<1>5. EvictedOnce'
  BY <1>2 DEF EvictedOnce, SessionInv, Refresh
<1>6. ActiveWithinLife'
  BY <1>1, <1>2, <1>3 DEF ActiveWithinLife, SessionInv, Refresh, Record
<1> QED
  BY <1>2, <1>4, <1>5, <1>6 DEF SessionInv, Refresh

(* Every step of the registry keeps the invariant.                         *)
LEMMA NextSession == SessionInv /\ [Next]_sessionVars => SessionInv'
<1> SUFFICES ASSUME SessionInv, [Next]_sessionVars PROVE SessionInv'
  OBVIOUS
<1>1. CASE Tick
  BY <1>1 DEF Tick, SessionInv, EvictedOnce, ActiveWithinLife, Live, Record
<1>2. CASE Purge
  BY <1>2, EvictStep DEF Purge
<1>3. ASSUME NEW s \in Sessions, Create(s) PROVE SessionInv'
  BY <1>3, CreateStep
<1>4. CASE UNCHANGED sessionVars
  BY <1>4 DEF sessionVars, SessionInv, EvictedOnce, ActiveWithinLife, Live
<1>5. ASSUME NEW s \in Sessions, Lookup(s) PROVE SessionInv'
  <2>1. CASE Unknown(s)
    BY <1>4, <2>1 DEF Unknown
  <2>2. CASE FindExpired(s)
    BY <2>2, EvictStep DEF FindExpired
  <2>3. CASE Refresh(s)
    BY <2>3, RefreshStep
  <2> QED  BY <1>5, <2>1, <2>2, <2>3 DEF Lookup
<1>6. ASSUME NEW s \in Sessions, Remove(s) PROVE SessionInv'
  BY <1>6, EvictStep DEF Remove
<1>7. ASSUME NEW s \in Sessions, RunHook(s) PROVE SessionInv'
  BY <1>7 DEF RunHook, SessionInv, EvictedOnce, ActiveWithinLife, Live
<1> QED  BY <1>1, <1>2, <1>3, <1>4, <1>5, <1>6, <1>7 DEF Next, Touch
=============================================================================

----------------------- MODULE ApprovalRegistryProofs -----------------------
(***************************************************************************)
(* Proofs about ApprovalRegistry, for every set of sessions and agents and *)
(* every size of the table: the invariants its run checks, and that a      *)
(* decision is final.                                                      *)
(***************************************************************************)
EXTENDS ApprovalRegistry, TLAPS, FiniteSetTheorems, SequenceTheorems

(* What makes the invariants inductive.  Only an eviction takes an         *)
(* approval out of the table before its waiter has ended, so until then    *)
(* the entry the waiter holds and the history both say EVICTED.            *)
OnlyEvictionRemoves ==
    /\ \A id \in Ids : waiter[id] \notin Ended /\ id \notin pending
                          => entry[id].decision = "EVICTED"
    /\ \A id \in DOMAIN recent : waiter[id] \notin Ended => recent[id] = "EVICTED"

IInv ==
    /\ TypeOK
    /\ HistoryMirrorsDeque
    /\ TableHoldsOnlyOpen
    /\ NoLostWakeup
    /\ OnlyEvictionRemoves
    /\ AcceptedDecisionReturned
    /\ HistoryAgrees

(* What a step does to the history: it stays in step with the deque and    *)
(* within its bound, ids of S that were not in it may have come in with    *)
(* decision d, and what is still remembered did not change.                *)
HistoryStep(S, d) ==
    /\ recentIds' \in Seq(Ids)
    /\ Len(recentIds') <= MaxPending
    /\ IsInjective(recentIds')
    /\ DOMAIN recent' = Range(recentIds')
    /\ recent' \in [DOMAIN recent' -> Decisions]
    /\ \A id \in DOMAIN recent' :
          \/ id \in DOMAIN recent /\ recent'[id] = recent[id]
          \/ id \in S \ DOMAIN recent /\ recent'[id] = d

-----------------------------------------------------------------------------
(* _add_to_history for new ids is such a step.                             *)
LEMMA RememberLemma ==
    ASSUME TypeOK, HistoryMirrorsDeque,
           NEW ids \in Seq(Ids), IsInjective(ids), Range(ids) \cap DOMAIN recent = {},
           NEW d \in Decisions, Remember(ids, d)
    PROVE  HistoryStep(Range(ids), d)
<1> DEFINE all == recentIds \o ids
           drop == IF Len(all) > MaxPending THEN Len(all) - MaxPending ELSE 0
           kept == SubSeq(all, drop + 1, Len(all))
<1>1. /\ recentIds \in Seq(Ids)
      /\ MaxPending \in Nat \ {0}
      /\ Len(recentIds) \in Nat
      /\ Len(ids) \in Nat
      /\ DOMAIN recentIds = 1 .. Len(recentIds)
      /\ DOMAIN ids = 1 .. Len(ids)
  BY LenProperties, RegistryAssumption DEF TypeOK
<1>2. /\ all \in Seq(Ids)
      /\ Len(all) = Len(recentIds) + Len(ids)
      /\ \A i \in 1 .. Len(all) :
            all[i] = IF i <= Len(recentIds) THEN recentIds[i] ELSE ids[i - Len(recentIds)]
  BY <1>1, ConcatProperties
<1>3. \A i, j \in 1 .. Len(all) : all[i] = all[j] => i = j
  <2> SUFFICES ASSUME NEW i \in 1 .. Len(all), NEW j \in 1 .. Len(all), all[i] = all[j]
               PROVE  i = j
    OBVIOUS
  <2>1. \A m, n \in 1 .. Len(recentIds) : recentIds[m] = recentIds[n] => m = n
    BY <1>1 DEF HistoryMirrorsDeque, IsInjective
  <2>2. \A m, n \in 1 .. Len(ids) : ids[m] = ids[n] => m = n
    BY <1>1 DEF IsInjective
  <2>3. \A m \in 1 .. Len(recentIds), n \in 1 .. Len(ids) : recentIds[m] # ids[n]
    BY <1>1 DEF HistoryMirrorsDeque, Range
  <2> QED  BY <1>1, <1>2, <2>1, <2>2, <2>3
<1>4. /\ drop \in Nat
      /\ drop <= Len(all)
      /\ Len(all) - drop <= MaxPending
  BY <1>1, <1>2
<1>5. /\ kept \in Seq(Ids)
      /\ Len(kept) = Len(all) - drop
      /\ \A i \in 1 .. Len(kept) : kept[i] = all[drop + i]
  <2> HIDE DEF all, drop
  <2>1. \A i \in drop + 1 .. Len(all) : all[i] \in Ids
    BY <1>2, <1>4, ElementOfSeq
  <2>2. Len(all) \in Nat
    BY <1>2, LenProperties
  <2> QED  BY <1>4, <2>1, <2>2, SubSeqProperties
<1>6. DOMAIN kept = 1 .. Len(kept)
  BY <1>5, LenProperties
<1>7. recentIds' = kept /\ recent' = [id \in Range(kept) |->
                                IF id \in Range(ids) THEN d ELSE recent[id]]
  BY DEF Remember
<1>8. IsInjective(kept)
  <2> HIDE DEF all, drop, kept
  <2> SUFFICES ASSUME NEW i \in 1 .. Len(kept), NEW j \in 1 .. Len(kept), kept[i] = kept[j]
               PROVE  i = j
    BY <1>6 DEF IsInjective
  <2>1. /\ drop + i \in 1 .. Len(all)
        /\ drop + j \in 1 .. Len(all)
        /\ all[drop + i] = all[drop + j]
    BY <1>2, <1>4, <1>5, LenProperties
  <2> QED  BY <1>3, <1>4, <2>1
<1>9. Range(kept) \subseteq DOMAIN recent \cup Range(ids)
  <2> HIDE DEF all, drop, kept
  <2> SUFFICES ASSUME NEW i \in 1 .. Len(kept)
               PROVE  kept[i] \in DOMAIN recent \cup Range(ids)
    BY <1>6 DEF Range
  <2>1. drop + i \in 1 .. Len(all) /\ kept[i] = all[drop + i]
    BY <1>2, <1>4, <1>5, LenProperties
  <2>2. DOMAIN recent = Range(recentIds)
    BY DEF HistoryMirrorsDeque
  <2>3. CASE drop + i <= Len(recentIds)
    <3>1. kept[i] = recentIds[drop + i] /\ drop + i \in 1 .. Len(recentIds)
      BY <1>1, <1>2, <1>4, <2>1, <2>3
    <3> QED  BY <1>1, <2>2, <3>1 DEF Range
  <2>4. CASE ~(drop + i <= Len(recentIds))
    <3>1. kept[i] = ids[drop + i - Len(recentIds)] /\ drop + i - Len(recentIds) \in 1 .. Len(ids)
      BY <1>1, <1>2, <1>4, <2>1, <2>4
    <3> QED  BY <1>1, <3>1 DEF Range
  <2> QED  BY <2>3, <2>4
<1>10. \A id \in Range(kept) : (IF id \in Range(ids) THEN d ELSE recent[id]) \in Decisions
  BY <1>9 DEF TypeOK
<1> HIDE DEF all, drop, kept
<1> QED  BY <1>4, <1>5, <1>7, <1>8, <1>9, <1>10 DEF HistoryStep

(* So are the two forms in which the ends of a wait use it.                *)
LEMMA HistorySameLemma ==
    ASSUME TypeOK, HistoryMirrorsDeque, NEW S, NEW d, UNCHANGED <<recentIds, recent>>
    PROVE  HistoryStep(S, d)
BY DEF HistoryStep, TypeOK, HistoryMirrorsDeque

(* _add_to_history, which does nothing for an approval that is known.      *)
LEMMA AddToHistoryLemma ==
    ASSUME TypeOK, HistoryMirrorsDeque, NEW id \in Ids, NEW d \in Decisions,
           AddToHistory(id, d)
    PROVE  HistoryStep({id}, d)
<1>1. CASE id \in DOMAIN recent
  BY <1>1, HistorySameLemma DEF AddToHistory
<1>2. CASE id \notin DOMAIN recent
  <2>1. <<id>> \in Seq(Ids) /\ IsInjective(<<id>>) /\ Range(<<id>>) = {id}
    BY DEF IsInjective, Range
  <2> QED  BY <1>2, <2>1, RememberLemma DEF AddToHistory
<1> QED  BY <1>1, <1>2

(* The table is finite.                                                    *)
LEMMA PendingFinite ==
    ASSUME TypeOK
    PROVE  IsFiniteSet(pending)
<1>1. count \in Int
  BY RegistryAssumption DEF TypeOK
<1>2. IsFiniteSet(1 .. count)
  BY <1>1, FS_Interval
<1> QED  BY <1>2, FS_Subset DEF TypeOK, Ids

-----------------------------------------------------------------------------
(* The registry starts empty.                                              *)
LEMMA InitIInv == Init => IInv
<1> SUFFICES ASSUME Init PROVE IInv
  OBVIOUS
<1>1. TypeOK
  <2>1. Ids = {} /\ MaxRegistrations \in Nat /\ MaxPending \in Nat
    BY RegistryAssumption DEF Init, Ids
  <2>2. Cardinality(pending) = 0
    BY FS_EmptySet DEF Init
  <2>3. recentIds \in Seq(Ids) /\ Len(recentIds) = 0
    BY DEF Init
  <2>4. entry \in [Ids -> Entry] /\ waiter \in [Ids -> Phases]
        /\ answer \in [Ids -> Decisions \cup {NoDecision}]
    BY <2>1 DEF Init
  <2>5. recent \in [DOMAIN recent -> Decisions]
    BY DEF Init
  <2> QED  BY <2>1, <2>2, <2>3, <2>4, <2>5 DEF Init, TypeOK
<1>2. HistoryMirrorsDeque
  BY DEF Init, HistoryMirrorsDeque, Range, IsInjective
<1> QED
  BY <1>1, <1>2 DEF Init, IInv, TableHoldsOnlyOpen, NoLostWakeup, OnlyEvictionRemoves,
                    AcceptedDecisionReturned, HistoryAgrees, Ids

(***************************************************************************)
(* The end of a wait, in each of its branches: what the branch returns and *)
(* what it puts into the history are all that they differ in.              *)
(***************************************************************************)
LEMMA EndLemma ==
    ASSUME IInv, NEW id \in Ids, waiter[id] \notin Ended,
           NEW phase \in Ended, NEW d \in Decisions \cup {NoDecision}, NEW h \in Decisions,
           End(id, phase, d), HistoryStep({id}, h),
           phase = "returned" =>
              /\ entry[id].decision \in Resolutions => d = entry[id].decision
              /\ d = "APPROVED" => entry[id].decision = "APPROVED"
              /\ id \in DOMAIN recent' =>
                    recent'[id] = d \/ (recent'[id] = "EVICTED" /\ d = "TIMEOUT")
    PROVE  IInv'
<1>1. /\ count' = count /\ entry' = entry /\ Ids' = Ids
      /\ pending' = pending \ {id}
      /\ waiter' = [waiter EXCEPT ![id] = phase]
      /\ answer' = [answer EXCEPT ![id] = d]
  BY DEF End, Ids
<1>2. /\ waiter \in [Ids -> Phases]
      /\ answer \in [Ids -> Decisions \cup {NoDecision}]
      /\ entry \in [Ids -> Entry]
      /\ pending \in SUBSET Ids
      /\ DOMAIN recent \subseteq Ids
  <2>1. recentIds \in [1 .. Len(recentIds) -> Ids]
    BY LenProperties DEF IInv, TypeOK
  <2>2. Range(recentIds) \subseteq Ids
    BY <2>1 DEF Range
  <2> QED  BY <2>2 DEF IInv, TypeOK, HistoryMirrorsDeque
<1>3. TypeOK'
  <2>1. Cardinality(pending') <= MaxPending
    <3>1. IsFiniteSet(pending)
      BY PendingFinite DEF IInv
    <3>2. IsFiniteSet(pending') /\ Cardinality(pending') <= Cardinality(pending)
      BY <1>1, <3>1, FS_Subset
    <3>3. Cardinality(pending) \in Nat /\ Cardinality(pending') \in Nat
      BY <3>1, <3>2, FS_CardinalityType
    <3> QED  BY <3>2, <3>3, RegistryAssumption DEF IInv, TypeOK
  <2>2. waiter' \in [Ids -> Phases]
    BY <1>1, <1>2 DEF Phases
  <2>3. answer' \in [Ids -> Decisions \cup {NoDecision}]
    BY <1>1, <1>2
  <2> QED
    BY <1>1, <1>2, <2>1, <2>2, <2>3 DEF TypeOK, HistoryStep, IInv
<1>4. HistoryMirrorsDeque'
  BY DEF HistoryStep, HistoryMirrorsDeque
<1>5. TableHoldsOnlyOpen'
  BY <1>1, <1>2 DEF IInv, TableHoldsOnlyOpen, HistoryStep
<1>6. NoLostWakeup'
  BY <1>1, <1>2 DEF IInv, NoLostWakeup, Ended, Suspended
<1>7. OnlyEvictionRemoves'
  <2>1. \A i \in Ids : waiter'[i] \notin Ended => i # id /\ waiter[i] \notin Ended
    BY <1>1, <1>2
  <2>2. DOMAIN recent' \subseteq DOMAIN recent \cup {id}
    BY DEF HistoryStep
  <2> QED  BY <1>1, <1>2, <2>1, <2>2 DEF IInv, OnlyEvictionRemoves, HistoryStep
<1>8. AcceptedDecisionReturned'
  BY <1>1, <1>2 DEF IInv, AcceptedDecisionReturned
<1>9. HistoryAgrees'
  <2> SUFFICES ASSUME NEW i \in DOMAIN recent', waiter'[i] = "returned"
               PROVE  \/ recent'[i] = answer'[i]
                      \/ recent'[i] = "EVICTED" /\ answer'[i] = "TIMEOUT"
    BY DEF HistoryAgrees
  <2>1. CASE i = id
    BY <1>1, <1>2, <2>1
  <2>2. CASE i # id
    <3>1. i \in DOMAIN recent /\ recent'[i] = recent[i]
      BY <2>2 DEF HistoryStep
    <3>2. waiter'[i] = waiter[i] /\ answer'[i] = answer[i]
      BY <1>1, <1>2, <2>2, <3>1
    <3> QED  BY <3>1, <3>2 DEF IInv, HistoryAgrees
  <2> QED  BY <2>1, <2>2
<1> QED  BY <1>3, <1>4, <1>5, <1>6, <1>7, <1>8, <1>9 DEF IInv

-----------------------------------------------------------------------------
(* The facts every action below needs of the state it starts in.           *)
LEMMA StateFacts ==
    ASSUME IInv
    PROVE  /\ waiter \in [Ids -> Phases]
           /\ answer \in [Ids -> Decisions \cup {NoDecision}]
           /\ entry \in [Ids -> Entry]
           /\ pending \in SUBSET Ids
           /\ DOMAIN recent \subseteq Ids
           /\ recent \in [DOMAIN recent -> Decisions]
           /\ count \in Nat
<1>1. recentIds \in [1 .. Len(recentIds) -> Ids]
  BY LenProperties DEF IInv, TypeOK
<1>2. Range(recentIds) \subseteq Ids
  BY <1>1 DEF Range
<1>3. count \in Nat
  BY RegistryAssumption DEF IInv, TypeOK
<1> QED  BY <1>2, <1>3 DEF IInv, TypeOK, HistoryMirrorsDeque

(* A waiter that was woken returns the decision of its entry.              *)
LEMMA ReturnDecisionStep ==
    ASSUME IInv, NEW id \in Ids, waiter[id] \notin Ended, entry[id].event,
           ReturnDecision(id)
    PROVE  IInv'
<1> DEFINE d == entry[id].decision
<1>1. d \in Resolutions \cup {"EVICTED"}
  BY StateFacts DEF IInv, NoLostWakeup, Entry
<1>2. d \in Decisions /\ d # NoDecision
  BY <1>1 DEF Decisions, Resolutions, NoDecision
<1>3. End(id, "returned", d) /\ AddToHistory(id, d)
  BY <1>2 DEF ReturnDecision
<1>4. HistoryStep({id}, d)
  BY <1>2, <1>3, AddToHistoryLemma DEF IInv
<1>5. id \in DOMAIN recent' => recent'[id] = d
  <2>1. CASE id \in DOMAIN recent
    <3>1. id \notin pending /\ recent[id] = "EVICTED"
      BY <2>1 DEF IInv, TableHoldsOnlyOpen, OnlyEvictionRemoves
    <3>2. d = "EVICTED"
      BY <3>1 DEF IInv, OnlyEvictionRemoves
    <3> QED  BY <3>1, <3>2, <1>4 DEF HistoryStep
  <2>2. CASE id \notin DOMAIN recent
    BY <2>2, <1>4 DEF HistoryStep
  <2> QED  BY <2>1, <2>2
<1> QED
  <2> HIDE DEF d
  <2>1. "returned" \in Ended
    BY DEF Ended
  <2>2. d = entry[id].decision
    BY DEF d
  <2> QED  BY <1>2, <1>3, <1>4, <1>5, <2>1, <2>2, EndLemma

(* A waiter that was not woken in time returns the decision that was made  *)
(* meanwhile, or times out.                                                *)
LEMMA ReturnTimeoutStep ==
    ASSUME IInv, NEW id \in Ids, waiter[id] \notin Ended, ReturnTimeout(id)
    PROVE  IInv'
<1> DEFINE decided == id \in pending /\ entry[id].decision # NoDecision
           final == IF decided THEN entry[id].decision ELSE "TIMEOUT"
<1>1. entry[id].decision \in {NoDecision} \cup Resolutions \cup {"EVICTED"}
  BY StateFacts DEF Entry
<1>2. final \in Decisions /\ (final = "APPROVED" => entry[id].decision = "APPROVED")
  BY <1>1 DEF Decisions, Resolutions
<1>3. entry[id].decision \in Resolutions => final = entry[id].decision
  BY DEF IInv, OnlyEvictionRemoves, Resolutions, NoDecision
<1>4. End(id, "returned", final) /\ AddToHistory(id, final)
  BY DEF ReturnTimeout
<1>5. HistoryStep({id}, final)
  BY <1>2, <1>4, AddToHistoryLemma DEF IInv
<1>6. id \in DOMAIN recent' =>
         recent'[id] = final \/ (recent'[id] = "EVICTED" /\ final = "TIMEOUT")
  <2>1. CASE id \in DOMAIN recent
    <3>1. id \notin pending /\ recent[id] = "EVICTED"
      BY <2>1 DEF IInv, TableHoldsOnlyOpen, OnlyEvictionRemoves
    <3> QED  BY <3>1, <2>1, <1>5 DEF HistoryStep
  <2>2. CASE id \notin DOMAIN recent
    BY <2>2, <1>5 DEF HistoryStep
  <2> QED  BY <2>1, <2>2
<1> HIDE DEF final
<1>7. "returned" \in Ended
  BY DEF Ended
<1> QED  BY <1>2, <1>3, <1>4, <1>5, <1>6, <1>7, EndLemma

(* A cancelled waiter remembers a decision that was made, and raises.      *)
LEMMA RaiseCancelledStep ==
    ASSUME IInv, NEW id \in Ids, waiter[id] \notin Ended, RaiseCancelled(id)
    PROVE  IInv'
<1>1. End(id, "raised", NoDecision) /\ "raised" \in Ended /\ "raised" # "returned"
  BY DEF RaiseCancelled, Ended
<1>2. CASE id \in pending /\ entry[id].decision # NoDecision
  <2>1. entry[id].decision \in Decisions
    BY <1>2, StateFacts DEF Entry, Decisions, Resolutions
  <2>2. HistoryStep({id}, entry[id].decision)
    BY <1>2, <2>1, AddToHistoryLemma DEF RaiseCancelled, IInv
  <2> QED  BY <1>1, <2>1, <2>2, EndLemma
<1>3. CASE ~(id \in pending /\ entry[id].decision # NoDecision)
  <2>1. HistoryStep({id}, "TIMEOUT")
    BY <1>3, HistorySameLemma DEF RaiseCancelled, IInv
  <2>2. "TIMEOUT" \in Decisions
    BY DEF Decisions
  <2> QED  BY <1>1, <2>1, <2>2, EndLemma
<1> QED  BY <1>2, <1>3

(* A waiter that finds no entry returns what the history holds.            *)
LEMMA WaitWithoutEntryStep ==
    ASSUME IInv, NEW id \in Ids, WaitWithoutEntry(id)
    PROVE  IInv'
<1> DEFINE d == IF id \in DOMAIN recent THEN recent[id] ELSE "NOT_FOUND"
<1>1. waiter[id] \notin Ended /\ id \notin pending /\ "returned" \in Ended
  BY DEF WaitWithoutEntry, Ended
<1>2. d \in {"EVICTED", "NOT_FOUND"} /\ d \in Decisions
  BY <1>1 DEF IInv, OnlyEvictionRemoves, Decisions
<1>3. entry[id].decision = "EVICTED"
  BY <1>1 DEF IInv, OnlyEvictionRemoves
<1>4. End(id, "returned", d) /\ UNCHANGED <<recentIds, recent>>
  BY DEF WaitWithoutEntry
<1>5. HistoryStep({id}, d)
  BY <1>4, HistorySameLemma DEF IInv
<1>6. id \in DOMAIN recent' => recent'[id] = d
  BY <1>4
<1> HIDE DEF d
<1> QED  BY <1>1, <1>2, <1>3, <1>4, <1>5, <1>6, EndLemma DEF Resolutions

(***************************************************************************)
(* The steps that leave the table and the history alone.                   *)
(***************************************************************************)
LEMMA PhaseStep ==
    ASSUME IInv, NEW id \in Ids, NEW phase \in Suspended, waiter[id] \notin Ended,
           waiter[id] = "idle" => id \in pending,
           waiter' = [waiter EXCEPT ![id] = phase],
           UNCHANGED <<count, entry, pending, recentIds, recent, answer>>
    PROVE  IInv'
<1>1. Ids' = Ids /\ \A i \in Ids : waiter'[i] = IF i = id THEN phase ELSE waiter[i]
  BY StateFacts DEF Ids
<1>2. phase \in Phases /\ phase \notin Ended /\ phase # "returned"
  BY DEF Phases, Suspended, Ended
<1>3. TypeOK'
  BY <1>1, <1>2, StateFacts DEF IInv, TypeOK
<1>4. HistoryMirrorsDeque'
  BY DEF IInv, HistoryMirrorsDeque
<1>5. TableHoldsOnlyOpen'
  BY <1>1, <1>2, StateFacts DEF IInv, TableHoldsOnlyOpen
<1>6. NoLostWakeup'
  <2> SUFFICES ASSUME NEW i \in Ids, waiter'[i] \in Suspended, ~entry[i].event
               PROVE  i \in pending
    BY <1>1 DEF IInv, NoLostWakeup
  <2>1. waiter[i] \notin Ended
    BY <1>1 DEF Suspended, Ended
  <2>2. entry[i].decision # "EVICTED"
    BY DEF IInv, NoLostWakeup, NoDecision
  <2> QED  BY <2>1, <2>2 DEF IInv, OnlyEvictionRemoves
<1>7. OnlyEvictionRemoves'
  BY <1>1, <1>2, StateFacts DEF IInv, OnlyEvictionRemoves
<1>8. AcceptedDecisionReturned'
  BY <1>1, <1>2 DEF IInv, AcceptedDecisionReturned
<1>9. HistoryAgrees'
  BY <1>1, <1>2, StateFacts DEF IInv, HistoryAgrees
<1> QED  BY <1>3, <1>4, <1>5, <1>6, <1>7, <1>8, <1>9 DEF IInv

(* Every step of wait_for_decision keeps the invariant.                    *)
LEMMA WaiterStepLemma ==
    ASSUME IInv, NEW id \in Ids, WaiterStep(id)
    PROVE  IInv'
<1>1. CASE WaitWithoutEntry(id)
  BY <1>1, WaitWithoutEntryStep
<1>2. CASE WaitDecided(id)
  BY <1>2, ReturnDecisionStep DEF WaitDecided, Ended
<1>3. CASE WaitSuspends(id)
  BY <1>3, PhaseStep DEF WaitSuspends, Suspended, Ended
<1>4. CASE waiter[id] = "waiting" /\ entry[id].event /\ ReturnDecision(id)
  BY <1>4, ReturnDecisionStep DEF Ended
<1>5. CASE waiter[id] = "timedOut" /\ ReturnTimeout(id)
  BY <1>5, ReturnTimeoutStep DEF Ended
<1>6. CASE waiter[id] = "cancelled" /\ RaiseCancelled(id)
  BY <1>6, RaiseCancelledStep DEF Ended
<1>7. CASE TimerFires(id)
  BY <1>7, PhaseStep DEF TimerFires, Suspended, Ended
<1>8. CASE CancelTask(id)
  BY <1>8, PhaseStep DEF CancelTask, Suspended, Ended
<1> QED
  BY <1>1, <1>2, <1>3, <1>4, <1>5, <1>6, <1>7, <1>8 DEF WaiterStep, Resume

(***************************************************************************)
(* register                                                                *)
(***************************************************************************)
LEMMA EnterStep ==
    ASSUME IInv, NEW s \in Sessions, NEW phase \in {"idle", "waiting"}, Enter(s, phase)
    PROVE  IInv'
<1> DEFINE id == count + 1
           new == [session |-> s, requester |-> AgentOf[s],
                   event |-> FALSE, decision |-> NoDecision]
<1>1. /\ count' = id
      /\ entry' = [i \in 1 .. id |-> IF i = id THEN new ELSE entry[i]]
      /\ waiter' = [i \in 1 .. id |-> IF i = id THEN phase ELSE waiter[i]]
      /\ answer' = [i \in 1 .. id |-> IF i = id THEN NoDecision ELSE answer[i]]
      /\ pending' = pending \cup {id}
      /\ recentIds' = recentIds /\ recent' = recent
      /\ ~Full /\ count < MaxRegistrations
  BY DEF Enter
<1>2. /\ Ids' = Ids \cup {id}
      /\ Ids' = 1 .. id
      /\ id \notin Ids
      /\ id \in 0 .. MaxRegistrations
  BY <1>1, StateFacts, RegistryAssumption DEF Ids
<1>3. new \in Entry
  BY RegistryAssumption DEF Entry
<1>4. phase \in Phases /\ phase \notin Ended
  BY DEF Phases, Suspended, Ended
<1> HIDE DEF new, id
<1>5. \A i \in Ids : entry'[i] = entry[i] /\ waiter'[i] = waiter[i] /\ answer'[i] = answer[i]
  BY <1>1, <1>2
<1>6. entry'[id] = new /\ waiter'[id] = phase /\ id \in pending'
  BY <1>1, <1>2
<1>7. TypeOK'
  <2>1. Cardinality(pending') <= MaxPending
    <3>1. IsFiniteSet(pending)
      BY PendingFinite DEF IInv
    <3>2. Cardinality(pending) \in Nat
      BY <3>1, FS_CardinalityType
    <3>3. Cardinality(pending \cup {id}) \in {Cardinality(pending), Cardinality(pending) + 1}
      BY <3>1, FS_AddElement
    <3> QED  BY <1>1, <3>2, <3>3, RegistryAssumption DEF Full
  <2>2. recentIds \in Seq(Ids')
    BY <1>2, SeqMonotonic DEF IInv, TypeOK
  <2>3. entry' \in [Ids' -> Entry]
    BY <1>1, <1>2, <1>3, StateFacts
  <2>4. waiter' \in [Ids' -> Phases] /\ answer' \in [Ids' -> Decisions \cup {NoDecision}]
    BY <1>1, <1>2, <1>4, StateFacts
  <2>5. pending' \in SUBSET Ids' /\ count' \in 0 .. MaxRegistrations
    BY <1>1, <1>2, StateFacts
  <2> QED  BY <1>1, <2>1, <2>2, <2>3, <2>4, <2>5 DEF TypeOK, IInv
<1>8. HistoryMirrorsDeque'
  BY <1>1 DEF IInv, HistoryMirrorsDeque
<1>9. TableHoldsOnlyOpen'
  BY <1>1, <1>2, <1>4, <1>5, <1>6, StateFacts DEF IInv, TableHoldsOnlyOpen
<1>10. NoLostWakeup'
  BY <1>1, <1>2, <1>5, <1>6 DEF IInv, NoLostWakeup, new
<1>11. OnlyEvictionRemoves'
  BY <1>1, <1>2, <1>5, <1>6, StateFacts DEF IInv, OnlyEvictionRemoves
<1>12. AcceptedDecisionReturned'
  BY <1>2, <1>4, <1>5, <1>6 DEF IInv, AcceptedDecisionReturned, Ended
<1>13. HistoryAgrees'
  BY <1>1, <1>5, StateFacts DEF IInv, HistoryAgrees
<1> QED  BY <1>7, <1>8, <1>9, <1>10, <1>11, <1>12, <1>13 DEF IInv

(***************************************************************************)
(* resolve and cancel_session                                              *)
(***************************************************************************)
LEMMA ResolveStep ==
    ASSUME IInv, NEW id \in Ids, NEW a, NEW status, Resolve(id, a, status)
    PROVE  IInv'
<1>1. /\ id \in pending
      /\ status \in Resolutions
      /\ entry[id].decision = NoDecision
      /\ Ids' = Ids
  BY DEF Resolve, ResolveOutcome, Ids
<1>2. /\ entry' = [entry EXCEPT ![id].decision = status, ![id].event = TRUE]
      /\ UNCHANGED <<count, pending, recentIds, recent, waiter, answer>>
  BY DEF Resolve
<1>3. /\ entry' \in [Ids -> Entry]
      /\ entry'[id].decision = status /\ entry'[id].event = TRUE
      /\ \A i \in Ids \ {id} : entry'[i] = entry[i]
  <2>1. entry[id] \in Entry
    BY StateFacts
  <2>2. [entry[id] EXCEPT !.decision = status, !.event = TRUE] \in Entry
    BY <1>1, <2>1 DEF Entry
  <2>3. entry' = [entry EXCEPT ![id] = [entry[id] EXCEPT !.decision = status, !.event = TRUE]]
    BY <1>2, StateFacts
  <2>4. entry'[id] = [entry[id] EXCEPT !.decision = status, !.event = TRUE]
    BY <2>3, StateFacts
  <2>5. entry'[id].decision = status /\ entry'[id].event = TRUE
    BY <2>1, <2>4 DEF Entry
  <2> QED  BY <2>2, <2>3, <2>5, StateFacts
<1>4. TypeOK'
  BY <1>1, <1>2, <1>3 DEF IInv, TypeOK
<1>5. HistoryMirrorsDeque' /\ TableHoldsOnlyOpen' /\ HistoryAgrees'
  BY <1>2 DEF IInv, HistoryMirrorsDeque, TableHoldsOnlyOpen, HistoryAgrees
<1>6. NoLostWakeup'
  BY <1>1, <1>2, <1>3 DEF IInv, NoLostWakeup, Resolutions, NoDecision
<1>7. OnlyEvictionRemoves'
  BY <1>1, <1>2, <1>3 DEF IInv, OnlyEvictionRemoves
<1>8. AcceptedDecisionReturned'
  <2>1. waiter[id] # "returned"
    BY <1>1 DEF IInv, TableHoldsOnlyOpen, Ended
  <2> QED  BY <1>1, <1>2, <1>3, <2>1 DEF IInv, AcceptedDecisionReturned
<1> QED  BY <1>4, <1>5, <1>6, <1>7, <1>8 DEF IInv

(* The history after cancel_session: only open entries of the session come *)
(* in, as EVICTED.                                                         *)
LEMMA CancelSessionHistory ==
    ASSUME IInv, NEW s, CancelSession(s)
    PROVE  HistoryStep(Open(s), "EVICTED")
<1>1. PICK ids \in InOrder(Open(s)) : Remember(ids, "EVICTED")
  BY DEF CancelSession
<1> DEFINE n == Cardinality(Open(s))
<1>2. Open(s) \subseteq pending /\ Open(s) \subseteq Ids
  BY StateFacts DEF Open
<1>3. n \in Nat
  BY <1>2, PendingFinite, FS_Subset, FS_CardinalityType DEF IInv
<1> HIDE DEF n
<1>4. /\ ids \in [1 .. n -> Open(s)]
      /\ \A i, j \in 1 .. n : i < j => ids[i] < ids[j]
  BY <1>1 DEF InOrder, n
<1>5. ids \in Seq(Ids)
  <2>1. ids \in [1 .. n -> Ids]
    BY <1>2, <1>4
  <2> QED  BY <1>3, <2>1
<1>6. IsInjective(ids)
  <2> SUFFICES ASSUME NEW i \in 1 .. n, NEW j \in 1 .. n, ids[i] = ids[j]
               PROVE  i = j
    BY <1>4 DEF IsInjective
  <2>1. ids[i] \in Int
    BY <1>2, <1>4, StateFacts DEF Ids
  <2>2. ~(i < j) /\ ~(j < i)
    BY <1>4, <2>1
  <2> QED  BY <1>3, <2>2
<1>7. Range(ids) \subseteq Open(s)
  BY <1>4 DEF Range
<1>8. Range(ids) \cap DOMAIN recent = {}
  BY <1>2, <1>7 DEF IInv, TableHoldsOnlyOpen
<1>9. HistoryStep(Range(ids), "EVICTED")
  BY <1>1, <1>5, <1>6, <1>8, RememberLemma DEF IInv, Decisions
<1> QED  BY <1>7, <1>9 DEF HistoryStep

(* cancel_session evicts the open approvals of one session, and no other.  *)
LEMMA CancelSessionStep ==
    ASSUME IInv, NEW s, CancelSession(s)
    PROVE  IInv'
<1> DEFINE S == Open(s)
<1>1. /\ S \subseteq pending
      /\ S \subseteq Ids
      /\ \A id \in S : entry[id].decision = NoDecision
  BY StateFacts DEF Open
<1>2. HistoryStep(S, "EVICTED")
  BY CancelSessionHistory
<1>3. /\ pending' = pending \ S
      /\ entry' = [id \in Ids |-> IF id \in S
                     THEN [entry[id] EXCEPT !.decision = "EVICTED", !.event = TRUE]
                     ELSE entry[id]]
      /\ UNCHANGED <<count, waiter, answer>>
      /\ Ids' = Ids
  BY DEF CancelSession, Ids
<1> HIDE DEF S
<1>4. /\ \A id \in S : entry'[id].decision = "EVICTED" /\ entry'[id].event = TRUE
      /\ \A id \in Ids \ S : entry'[id] = entry[id]
      /\ entry' \in [Ids -> Entry]
  <2>1. \A id \in Ids : entry[id] \in Entry
    BY StateFacts
  <2>2. \A id \in S : /\ [entry[id] EXCEPT !.decision = "EVICTED", !.event = TRUE] \in Entry
                      /\ entry'[id] = [entry[id] EXCEPT !.decision = "EVICTED", !.event = TRUE]
    BY <1>1, <1>3, <2>1 DEF Entry
  <2>3. \A id \in S : entry'[id].decision = "EVICTED" /\ entry'[id].event = TRUE
    BY <1>1, <2>1, <2>2 DEF Entry
  <2> QED  BY <1>1, <1>3, <2>1, <2>2, <2>3
<1>5. TypeOK'
  <2>1. Cardinality(pending') <= MaxPending
    <3>1. IsFiniteSet(pending)
      BY PendingFinite DEF IInv
    <3>2. IsFiniteSet(pending') /\ Cardinality(pending') <= Cardinality(pending)
      BY <1>3, <3>1, FS_Subset
    <3>3. Cardinality(pending) \in Nat /\ Cardinality(pending') \in Nat
      BY <3>1, <3>2, FS_CardinalityType
    <3> QED  BY <3>2, <3>3, RegistryAssumption DEF IInv, TypeOK
  <2> QED  BY <1>2, <1>3, <1>4, <2>1 DEF IInv, TypeOK, HistoryStep
<1>6. HistoryMirrorsDeque'
  BY <1>2 DEF HistoryStep, HistoryMirrorsDeque
<1>7. TableHoldsOnlyOpen'
  BY <1>2, <1>3 DEF IInv, TableHoldsOnlyOpen, HistoryStep
<1>8. NoLostWakeup'
  BY <1>1, <1>3, <1>4 DEF IInv, NoLostWakeup, NoDecision
<1>9. OnlyEvictionRemoves'
  BY <1>2, <1>3, <1>4 DEF IInv, OnlyEvictionRemoves, HistoryStep
<1>10. \A id \in S : waiter[id] \notin Ended
  BY <1>1 DEF IInv, TableHoldsOnlyOpen
<1>11. AcceptedDecisionReturned'
  BY <1>3, <1>4, <1>10 DEF IInv, AcceptedDecisionReturned, Ended
<1>12. HistoryAgrees'
  BY <1>2, <1>3, <1>10 DEF IInv, HistoryAgrees, HistoryStep, Ended
<1> QED  BY <1>5, <1>6, <1>7, <1>8, <1>9, <1>11, <1>12 DEF IInv

-----------------------------------------------------------------------------
(* Every step of the registry keeps the invariant.                         *)
LEMMA NextIInv == IInv /\ [Next]_vars => IInv'
<1> SUFFICES ASSUME IInv, [Next]_vars PROVE IInv'
  OBVIOUS
<1>1. ASSUME NEW s \in Sessions, Register(s) PROVE IInv'
  BY <1>1, EnterStep DEF Register
<1>2. ASSUME NEW s \in Sessions, RegisterAndWait(s) PROVE IInv'
  BY <1>2, EnterStep DEF RegisterAndWait
<1>3. ASSUME NEW s \in Sessions, CancelSession(s) PROVE IInv'
  BY <1>3, CancelSessionStep
<1>4. ASSUME NEW id \in Ids, WaiterStep(id) PROVE IInv'
  BY <1>4, WaiterStepLemma
<1>5. ASSUME NEW id \in Ids, NEW a \in Agents, NEW status \in Decisions,
             Resolve(id, a, status)
      PROVE IInv'
  BY <1>5, ResolveStep
<1>6. CASE UNCHANGED vars
  BY <1>6 DEF vars, IInv, TypeOK, HistoryMirrorsDeque, TableHoldsOnlyOpen, NoLostWakeup,
              OnlyEvictionRemoves, AcceptedDecisionReturned, HistoryAgrees, Ids
<1> QED  BY <1>1, <1>2, <1>3, <1>4, <1>5, <1>6 DEF Next

(* The inductive invariant holds in every reachable state.                 *)
THEOREM Inductive == Spec => []IInv
BY InitIInv, NextIInv, PTL DEF Spec

(* Type correctness: the shape of the registry's state and the bounds of   *)
(* the table and of the history, for every max_pending.                    *)
THEOREM TypeCorrect == Spec => []TypeOK
<1>1. IInv => TypeOK
  BY DEF IInv
<1> QED  BY <1>1, Inductive, PTL

(* The decision an approver's resolve was accepted with is the one that    *)
(* wait_for_decision returns, whatever it raced with.                      *)
THEOREM AcceptedIsReturned == Spec => []AcceptedDecisionReturned
<1>1. IInv => AcceptedDecisionReturned
  BY DEF IInv
<1> QED  BY <1>1, Inductive, PTL

(* The two parts of the history, the deque and the dictionary, agree with  *)
(* each other.                                                             *)
THEOREM HistoryCorrect == Spec => []HistoryMirrorsDeque
<1>1. IInv => HistoryMirrorsDeque
  BY DEF IInv
<1> QED  BY <1>1, Inductive, PTL

(* The history agrees with what the waiters returned, but for an eviction  *)
(* between a waiter's timer and its next step.                             *)
THEOREM HistoryTruthful == Spec => []HistoryAgrees
<1>1. IInv => HistoryAgrees
  BY DEF IInv
<1> QED  BY <1>1, Inductive, PTL

(* The table holds only open approvals, and a suspended waiter that was    *)
(* not woken can still be reached through it.                              *)
THEOREM TableCorrect == Spec => [](TableHoldsOnlyOpen /\ NoLostWakeup)
<1>1. IInv => TableHoldsOnlyOpen /\ NoLostWakeup
  BY DEF IInv
<1> QED  BY <1>1, Inductive, PTL

-----------------------------------------------------------------------------
(***************************************************************************)
(* A decision is final.                                                    *)
(***************************************************************************)
Final ==
    /\ \A id \in Ids : entry[id].decision # NoDecision =>
                           entry'[id].decision = entry[id].decision
    /\ \A id \in DOMAIN recent \cap DOMAIN recent' : recent'[id] = recent[id]

(* A waiter decides nothing itself, and what it adds to the history is new *)
(* there.                                                                  *)
LEMMA WaiterStepFinal ==
    ASSUME IInv, NEW id \in Ids, WaiterStep(id)
    PROVE  Final
<1>1. entry' = entry
  BY DEF WaiterStep, WaitWithoutEntry, WaitDecided, WaitSuspends, Resume, TimerFires,
         CancelTask, ReturnDecision, ReturnTimeout, RaiseCancelled, End
<1>2. \A h \in Decisions : HistoryStep({id}, h) => Final
  BY <1>1 DEF Final, HistoryStep
<1>3. entry[id].decision \in Decisions \cup {NoDecision}
  BY StateFacts DEF Entry, Decisions, Resolutions
<1>4. "TIMEOUT" \in Decisions
  BY DEF Decisions
<1>5. CASE UNCHANGED <<recentIds, recent>>
  BY <1>1, <1>5 DEF Final
<1>6. CASE \E h \in Decisions : AddToHistory(id, h)
  BY <1>2, <1>6, AddToHistoryLemma DEF IInv
<1>7. CASE ReturnDecision(id)
  BY <1>3, <1>5, <1>6, <1>7 DEF ReturnDecision
<1>8. CASE ReturnTimeout(id)
  BY <1>3, <1>4, <1>6, <1>8 DEF ReturnTimeout
<1>9. CASE RaiseCancelled(id)
  BY <1>3, <1>5, <1>6, <1>9 DEF RaiseCancelled
<1> QED
  BY <1>5, <1>7, <1>8, <1>9
     DEF WaiterStep, WaitWithoutEntry, WaitDecided, WaitSuspends, Resume, TimerFires, CancelTask

(* So no step at all changes a decision.                                   *)
LEMMA NextFinal == IInv /\ [Next]_vars => Final
<1> SUFFICES ASSUME IInv, [Next]_vars PROVE Final
  OBVIOUS
<1>1. ASSUME NEW s \in Sessions, Register(s) \/ RegisterAndWait(s) PROVE Final
  <2>1. /\ count' = count + 1
        /\ \A id \in Ids : entry'[id] = entry[id]
        /\ recent' = recent
    BY <1>1, StateFacts DEF Register, RegisterAndWait, Enter, Ids
  <2> QED  BY <2>1 DEF Final
<1>2. ASSUME NEW s \in Sessions, CancelSession(s) PROVE Final
  <2>1. HistoryStep(Open(s), "EVICTED")
    BY <1>2, CancelSessionHistory
  <2>2. \A id \in Ids : entry[id].decision # NoDecision => entry'[id] = entry[id]
    BY <1>2 DEF CancelSession, Open
  <2>3. \A id \in Open(s) : id \notin DOMAIN recent
    BY DEF IInv, TableHoldsOnlyOpen, Open
  <2> QED  BY <2>1, <2>2, <2>3 DEF Final, HistoryStep
<1>3. ASSUME NEW id \in Ids, WaiterStep(id) PROVE Final
  BY <1>3, WaiterStepFinal
<1>4. ASSUME NEW id \in Ids, NEW a \in Agents, NEW status \in Decisions,
             Resolve(id, a, status)
      PROVE Final
  <2>1. \A i \in Ids \ {id} : entry'[i] = entry[i]
    BY <1>4, StateFacts DEF Resolve
  <2>2. entry[id].decision = NoDecision /\ recent' = recent
    BY <1>4 DEF Resolve, ResolveOutcome
  <2> QED  BY <2>1, <2>2 DEF Final
<1>5. CASE UNCHANGED vars
  BY <1>5 DEF vars, Final
<1> QED  BY <1>1, <1>2, <1>3, <1>4, <1>5 DEF Next

(* Only one resolution or eviction counts, and what the history remembers  *)
(* of it does not change.                                                  *)
THEOREM DecisionIsFinal == Spec => DecisionsFinal
<1>1. IInv /\ [Next]_vars => [Final]_vars
  BY NextFinal
<1>2. Spec => [][Final]_vars
  BY <1>1, Inductive, PTL DEF Spec
<1> QED  BY <1>2 DEF DecisionsFinal, Final
-----------------------------------------------------------------------------
(***************************************************************************)
(* No decision gets lost.                                                  *)
(***************************************************************************)
(* New ids that are no more than the deque holds are all remembered.       *)
LEMMA RememberKeeps ==
    ASSUME TypeOK, NEW ids \in Seq(Ids), Len(ids) <= MaxPending, NEW d, Remember(ids, d)
    PROVE  \A id \in Range(ids) : id \in DOMAIN recent' /\ recent'[id] = d
<1> DEFINE all == recentIds \o ids
           drop == IF Len(all) > MaxPending THEN Len(all) - MaxPending ELSE 0
           kept == SubSeq(all, drop + 1, Len(all))
<1>1. /\ recentIds \in Seq(Ids)
      /\ MaxPending \in Nat \ {0}
      /\ Len(recentIds) \in Nat /\ Len(recentIds) <= MaxPending
      /\ Len(ids) \in Nat
      /\ DOMAIN ids = 1 .. Len(ids)
  BY LenProperties, RegistryAssumption DEF TypeOK
<1>2. /\ all \in Seq(Ids)
      /\ Len(all) = Len(recentIds) + Len(ids)
      /\ \A i \in 1 .. Len(ids) : all[Len(recentIds) + i] = ids[i]
  BY <1>1, ConcatProperties
<1>3. drop \in Nat /\ drop <= Len(recentIds)
  BY <1>1, <1>2
<1>4. recent' = [id \in Range(kept) |-> IF id \in Range(ids) THEN d ELSE recent[id]]
  BY DEF Remember
<1> HIDE DEF all, drop
<1>5. /\ kept \in Seq(Ids)
      /\ Len(kept) = Len(all) - drop
      /\ \A i \in 1 .. Len(kept) : kept[i] = all[drop + i]
  <2>1. \A i \in drop + 1 .. Len(all) : all[i] \in Ids
    BY <1>2, <1>3, ElementOfSeq
  <2>2. Len(all) \in Nat /\ drop <= Len(all)
    BY <1>1, <1>2, <1>3
  <2> QED  BY <1>3, <2>1, <2>2, SubSeqProperties
<1>6. DOMAIN kept = 1 .. Len(kept)
  BY <1>5, LenProperties
<1> HIDE DEF kept
<1>7. ASSUME NEW i \in 1 .. Len(ids) PROVE ids[i] \in Range(kept)
  <2> DEFINE n == Len(recentIds) - drop + i
  <2>1. n \in 1 .. Len(kept) /\ drop + n = Len(recentIds) + i
    BY <1>1, <1>2, <1>3, <1>5
  <2>2. kept[n] = ids[i]
    BY <1>2, <1>5, <2>1
  <2> QED  BY <1>6, <2>1, <2>2 DEF Range
<1>8. Range(ids) \subseteq Range(kept)
  BY <1>1, <1>7 DEF Range
<1> QED  BY <1>4, <1>8

(* One id always fits.                                                     *)
LEMMA AddToHistoryKeeps ==
    ASSUME TypeOK, NEW id \in Ids, id \notin DOMAIN recent, NEW d, AddToHistory(id, d)
    PROVE  id \in DOMAIN recent' /\ recent'[id] = d
<1>1. <<id>> \in Seq(Ids) /\ Len(<<id>>) = 1 /\ id \in Range(<<id>>)
  BY DEF Range
<1>2. 1 <= MaxPending
  BY RegistryAssumption
<1> QED  BY <1>1, <1>2, RememberKeeps DEF AddToHistory

(* The step of RemovalsRemembered.                                         *)
Remembered ==
    \A id \in pending \ pending' :
        LET final == IF waiter'[id] = "returned" THEN answer'[id] ELSE entry'[id].decision
        IN  final # NoDecision => id \in DOMAIN recent' /\ recent'[id] = final

(* An approval in the table is not in the history yet, and its end adds it.*)
LEMMA WaiterStepRemembered ==
    ASSUME IInv, NEW i \in Ids, WaiterStep(i)
    PROVE  Remembered
<1> SUFFICES ASSUME NEW id \in pending \ pending'
             PROVE  LET final == IF waiter'[id] = "returned" THEN answer'[id]
                                                             ELSE entry'[id].decision
                    IN  final # NoDecision => id \in DOMAIN recent' /\ recent'[id] = final
  BY DEF Remembered
<1>1. /\ id \in Ids /\ id \notin DOMAIN recent
      /\ TypeOK
      /\ entry[id].event <=> entry[id].decision # NoDecision
  BY StateFacts DEF IInv, TableHoldsOnlyOpen, NoLostWakeup
<1>2. ASSUME NEW phase, NEW d, End(i, phase, d)
      PROVE  id = i /\ waiter'[id] = phase /\ answer'[id] = d /\ entry' = entry
  BY <1>1, <1>2, StateFacts DEF End
<1>3. CASE i \in pending /\ entry[i].event /\ ReturnDecision(i)
  <2>1. id = i
    BY <1>2, <1>3 DEF ReturnDecision
  <2>2. End(id, "returned", entry[id].decision) /\ AddToHistory(id, entry[id].decision)
    BY <1>1, <1>3, <2>1 DEF ReturnDecision
  <2> QED  BY <1>1, <1>2, <2>1, <2>2, AddToHistoryKeeps
<1>4. CASE ReturnTimeout(i)
  <2>1. PICK final : End(i, "returned", final) /\ AddToHistory(i, final)
    BY <1>4 DEF ReturnTimeout
  <2> QED  BY <1>1, <1>2, <2>1, AddToHistoryKeeps
<1>5. CASE RaiseCancelled(i)
  <2>1. End(i, "raised", NoDecision)
    BY <1>5 DEF RaiseCancelled
  <2>2. id = i /\ waiter'[id] = "raised" /\ entry' = entry
    BY <1>2, <2>1
  <2>3. entry[id].decision # NoDecision => AddToHistory(id, entry[id].decision)
    BY <1>5, <2>2 DEF RaiseCancelled
  <2> QED  BY <1>1, <2>2, <2>3, AddToHistoryKeeps
<1>6. CASE UNCHANGED pending \/ i \notin pending
  BY <1>2, <1>6 DEF WaiterStep, WaitWithoutEntry, WaitDecided, WaitSuspends, Resume, TimerFires,
     CancelTask, ReturnDecision, ReturnTimeout, RaiseCancelled
<1> QED
  BY <1>3, <1>4, <1>5, <1>6
     DEF WaiterStep, WaitWithoutEntry, WaitDecided, WaitSuspends, Resume, TimerFires, CancelTask

(* An eviction takes out no more than the table holds, which is as much as *)
(* the history does.                                                       *)
LEMMA CancelSessionRemembered ==
    ASSUME IInv, NEW s, CancelSession(s)
    PROVE  Remembered
<1>1. PICK ids \in InOrder(Open(s)) : Remember(ids, "EVICTED")
  BY DEF CancelSession
<1> DEFINE n == Cardinality(Open(s))
<1>2. Open(s) \subseteq pending /\ Open(s) \subseteq Ids
  BY StateFacts DEF Open
<1>3. IsFiniteSet(Open(s)) /\ n \in Nat /\ n <= MaxPending
  <2>1. IsFiniteSet(pending) /\ Cardinality(pending) \in Nat
    BY PendingFinite, FS_CardinalityType DEF IInv
  <2>2. IsFiniteSet(Open(s)) /\ n <= Cardinality(pending)
    BY <1>2, <2>1, FS_Subset
  <2>3. n \in Nat
    BY <2>2, FS_CardinalityType
  <2> QED  BY <2>1, <2>2, <2>3, RegistryAssumption DEF IInv, TypeOK
<1>4. /\ ids \in [1 .. n -> Open(s)]
      /\ \A i, j \in 1 .. n : i < j => ids[i] < ids[j]
  BY <1>1 DEF InOrder
<1> HIDE DEF n
<1>5. ids \in Seq(Ids) /\ Len(ids) = n
  <2>1. ids \in [1 .. n -> Ids]
    BY <1>2, <1>4
  <2> QED  BY <1>3, <2>1
<1>6. \A i, j \in 1 .. n : ids[i] = ids[j] => i = j
  <2> SUFFICES ASSUME NEW i \in 1 .. n, NEW j \in 1 .. n, ids[i] = ids[j]
               PROVE  i = j
    OBVIOUS
  <2>1. ids[i] \in Int
    BY <1>2, <1>4, StateFacts DEF Ids
  <2>2. ~(i < j) /\ ~(j < i)
    BY <1>4, <2>1
  <2> QED  BY <1>3, <2>2
<1>7. Range(ids) = Open(s)
  <2>1. ids \in Injection(1 .. n, Open(s))
    BY <1>4, <1>6 DEF Injection, IsInjective
  <2>2. Cardinality(1 .. n) = n
    BY <1>3, FS_Interval
  <2>3. ids \in Surjection(1 .. n, Open(s))
    BY <1>3, <2>1, <2>2, FS_Injection DEF n
  <2> QED  BY <1>4, <2>3 DEF Surjection, Range
<1>8. \A id \in Open(s) : id \in DOMAIN recent' /\ recent'[id] = "EVICTED"
  BY <1>1, <1>3, <1>5, <1>7, RememberKeeps DEF IInv
<1>9. ASSUME NEW id \in pending \ pending'
      PROVE  /\ id \in Open(s)
             /\ waiter'[id] # "returned"
             /\ entry'[id].decision = "EVICTED"
  <2>1. id \in Open(s) /\ id \in Ids
    BY <1>2 DEF CancelSession
  <2>2. entry[id] \in Entry /\ entry'[id] = [entry[id] EXCEPT !.decision = "EVICTED", !.event = TRUE]
    BY <2>1, StateFacts DEF CancelSession
  <2>3. entry'[id].decision = "EVICTED"
    BY <2>2 DEF Entry
  <2> QED  BY <2>1, <2>3 DEF CancelSession, IInv, TableHoldsOnlyOpen, Ended
<1> QED  BY <1>8, <1>9 DEF Remembered

(* The other steps take nothing out of the table.                          *)
LEMMA NextRemembered == IInv /\ [Next]_vars => Remembered
<1> SUFFICES ASSUME IInv, [Next]_vars PROVE Remembered
  OBVIOUS
<1>1. ASSUME pending \subseteq pending' PROVE Remembered
  BY <1>1 DEF Remembered
<1> QED
  BY <1>1, WaiterStepRemembered, CancelSessionRemembered
     DEF Next, Register, RegisterAndWait, Enter, Resolve, vars

(* Whatever takes an approval out of the table - wakeup, timer, late       *)
(* cancellation or eviction (registry.py) - leaves its decision in the     *)
(* history, for every size of the table.                                   *)
THEOREM NoDecisionLost == Spec => RemovalsRemembered
<1>1. IInv /\ [Next]_vars => [Remembered]_vars
  BY NextRemembered
<1>2. Spec => [][Remembered]_vars
  BY <1>1, Inductive, PTL DEF Spec
<1> QED  BY <1>2 DEF RemovalsRemembered, Remembered
=============================================================================

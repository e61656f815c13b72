--------------------------- MODULE SessionRegistry ---------------------------
(***************************************************************************)
(* InMemorySessionRegistry (auth/session.py): the sessions the handshake   *)
(* creates, with an absolute time to live and an idle timeout.             *)
(*                                                                         *)
(* Expiry is lazy: no task watches the clock, a session that is past its   *)
(* time stays in the dictionaries until a call names it (lookup, touch) or *)
(* purge or remove is called.  Every eviction schedules the on_evicted     *)
(* hook as a task of its own, which runs in a later step of the loop.      *)
(* All the methods run under one lock and are one step each.               *)
(***************************************************************************)
EXTENDS Naturals, FiniteSets, Functions

CONSTANTS
    Sessions,   \* session ids (uuid4, never used twice)
    Ttl,        \* session_ttl_seconds
    Idle,       \* session_idle_timeout_seconds
    MaxTime     \* bound of the model: the last instant of the clock

ASSUME SessionAssumption ==
    /\ Ttl \in Nat \ {0}
    /\ Idle \in Nat \ {0}
    /\ MaxTime \in Nat

VARIABLES
    clock,        \* _utcnow()
    created,      \* the ids that were ever created
    records,      \* _records: id -> [issued, expires]
    lastActive,   \* _last_active
    hooks,        \* hooks[s]: eviction tasks of s that were scheduled and have not run
    evictions     \* evictions[s]: how often the hook of s was scheduled

sessionVars == <<clock, created, records, lastActive, hooks, evictions>>

Init ==
    /\ clock = 0
    /\ created = {}
    /\ records = <<>>
    /\ lastActive = <<>>
    /\ hooks = [s \in Sessions |-> 0]
    /\ evictions = [s \in Sessions |-> 0]

Live == DOMAIN records

(* now >= expires_at, or now - last_active >= idle (issued_at when the     *)
(* activity is unknown); both bounds are exclusive for the session.        *)
LastActivity(s) == IF s \in DOMAIN lastActive THEN lastActive[s] ELSE records[s].issued
ExpiredAfterTtl(s) ==    \* mutant: > for >= at the end of life
    clock > records[s].expires \/ clock - LastActivity(s) >= Idle

ExpiredAfterIdle(s) ==   \* mutant: > for >= at the idle timeout
    clock >= records[s].expires \/ clock - LastActivity(s) > Idle

Expired(s) == clock >= records[s].expires \/ clock - LastActivity(s) >= Idle

(* Mutant: the session stays.                                              *)
EvictKeepingRecord(S) ==
    /\ hooks' = [s \in Sessions |-> hooks[s] + IF s \in S THEN 1 ELSE 0]
    /\ evictions' = [s \in Sessions |-> evictions[s] + IF s \in S THEN 1 ELSE 0]
    /\ UNCHANGED <<clock, created, records, lastActive>>

(* Sessions leave both dictionaries, and each schedules its hook.          *)
Evict(S) ==
    /\ records' = Restrict(records, Live \ S)
    /\ lastActive' = Restrict(lastActive, DOMAIN lastActive \ S)
    /\ hooks' = [s \in Sessions |-> hooks[s] + IF s \in S THEN 1 ELSE 0]
    /\ evictions' = [s \in Sessions |-> evictions[s] + IF s \in S THEN 1 ELSE 0]
    /\ UNCHANGED <<clock, created>>

Tick ==
    /\ clock < MaxTime
    /\ clock' = clock + 1
    /\ UNCHANGED <<created, records, lastActive, hooks, evictions>>

Create(s) ==
    /\ s \notin created
    /\ created' = created \cup {s}
    /\ records' = [i \in Live \cup {s} |->
                       IF i = s THEN [issued |-> clock, expires |-> clock + Ttl]
                                ELSE records[i]]
    /\ lastActive' = [i \in DOMAIN lastActive \cup {s} |->
                          IF i = s THEN clock ELSE lastActive[i]]
    /\ UNCHANGED <<clock, hooks, evictions>>

(* The three ends of lookup.  The first two raise SessionError.            *)
Unknown(s) == s \notin Live /\ UNCHANGED sessionVars

FindExpired(s) == s \in Live /\ Expired(s) /\ Evict({s})

Refresh(s) ==
    /\ s \in Live
    /\ ~Expired(s)
    /\ lastActive' = [i \in DOMAIN lastActive \cup {s} |->
                          IF i = s THEN clock ELSE lastActive[i]]
    /\ UNCHANGED <<clock, created, records, hooks, evictions>>

Lookup(s) == Unknown(s) \/ FindExpired(s) \/ Refresh(s)

(* What lookup answers: the record, or SessionError.                       *)
Found(s) == s \in Live /\ ~Expired(s)

(* touch has the same effects; it returns silently in every case.          *)
Touch(s) == Lookup(s)

Purge == Evict({s \in Live : Expired(s)})

Remove(s) == Evict({s} \cap Live)

(* The event loop runs one eviction task.                                  *)
RunHook(s) ==
    /\ hooks[s] > 0
    /\ hooks' = [hooks EXCEPT ![s] = @ - 1]
    /\ UNCHANGED <<clock, created, records, lastActive, evictions>>

Next ==
    \/ Tick
    \/ Purge
    \/ \E s \in Sessions :
          Create(s) \/ Lookup(s) \/ Touch(s) \/ Remove(s) \/ RunHook(s)

-----------------------------------------------------------------------------
(* A session leaves the registry exactly once and for good, whichever of   *)
(* lookup, touch, purge and remove comes first, and its hook is scheduled  *)
(* exactly then: the approvals of an evicted session are cancelled once.   *)
(* Nothing stays behind in the second dictionary.                          *)
EvictedOnce ==
    /\ DOMAIN lastActive = Live
    /\ \A s \in Sessions :
          evictions[s] = IF s \in created \ Live THEN 1 ELSE 0

(* A session is never kept alive past its time: the activity that keeps a  *)
(* record was seen within its life, never later than its expiry.           *)
ActiveWithinLife ==
    \A s \in Live :
        /\ records[s].expires = records[s].issued + Ttl
        /\ records[s].issued <= lastActive[s]
        /\ lastActive[s] < records[s].expires
        /\ lastActive[s] <= clock
=============================================================================

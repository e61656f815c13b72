----------------------- MODULE PermissionPluginProofs -----------------------
(***************************************************************************)
(* What the OpenCode plugin lets through, what it tells its host and how   *)
(* often it starts a gateway, proved for every number of activations,      *)
(* events and asks.                                                        *)
(*                                                                         *)
(* The replies to an ask are one sequence, and the tasks that write to it  *)
(* could be as many as there are listeners.  So the invariant has to say   *)
(* that an ask has one task: the registry of listeners gives an event at   *)
(* most one (ListenerInv), and a task in progress keeps the others idle    *)
(* (Alone).  Then what a task has done so far determines what the host has *)
(* heard (Phase).                                                          *)
(***************************************************************************)
EXTENDS PermissionPlugin, SequenceTheorems, TLAPS

TaskRecords ==
    [pc: {"idle", "evaluating", "replying", "rejecting", "done"},
     byEvent: BOOLEAN, ids: BOOLEAN,
     conn: {"none", "waiting", "receiving", "cut"},
     answer: Answers \cup {"none"}, output: Statuses \cup {"none"}, thrown: Nat]

PluginType ==
    /\ probe \in [Activations ->
                     {"none", "connecting", "refused", "closed"}]
    /\ latch \in BOOLEAN
    /\ gateway \in BOOLEAN
    /\ fresh \in Nat
    /\ old \in Nat
    /\ task \in [Tasks -> TaskRecords]
    /\ delivered \in [Asks -> Seq(Replies)]

(* An event has a listener, and no more than one, when it is registered.   *)
ListenerInv ==
    /\ tracked \subseteq Events
    /\ listeners = [e \in Events |-> IF e \in tracked THEN 1 ELSE 0]

Alone ==
    \A t, u \in Tasks :
        (t[1] = u[1] /\ task[t] # Idle /\ task[u] # Idle) => t = u

(* A host that has heard a reply heard it from a task.                     *)
Heard ==
    \A a \in Asks :
        delivered[a] # <<>> => \E t \in Tasks : t[1] = a /\ task[t] # Idle

(* What a task k and the replies d to its ask have to do with each other.  *)
Phase(k, d) ==
    /\ k.pc # "idle"
    /\ k.ids => k.byEvent
    /\ k.output = "allow" => k.answer = "allow"
    /\ k.conn # "none" => k.pc = "evaluating"
    /\ k.pc = "evaluating" => k.output = "none" /\ k.thrown = 0 /\ d = <<>>
    /\ k.pc = "replying" => k.output # "none" /\ k.thrown = 0 /\ d = <<>>
    /\ k.pc = "rejecting" => /\ k.thrown = IF k.output = "none" THEN 0 ELSE 1
                             /\ Len(d) <= k.thrown
    /\ k.pc = "done" => /\ Len(d) > 1 => k.thrown > 0
                        /\ (k.ids /\ d = <<>>) =>
                               k.thrown = IF k.output = "none" THEN 1 ELSE 2
    /\ \A i \in 1 .. Len(d) : d[i] = "once" => i = 1 /\ k.answer = "allow"

PhaseInv ==
    \A t \in Tasks : task[t] # Idle => Phase(task[t], delivered[t[1]])

IInv ==
    /\ PluginType
    /\ ListenerInv
    /\ Alone
    /\ Heard
    /\ PhaseInv
    /\ OneStartPerLatch

(* The part of the invariant that is about the asks, and the states it     *)
(* depends on.                                                             *)
AsksInv == Alone /\ Heard /\ PhaseInv

asking == <<task, delivered>>

(* What the activations do to listeners and gateway leaves the asks alone, *)
(* and the other way around.                                               *)
LEMMA AsksUntouched ==
    ASSUME AsksInv, UNCHANGED asking
    PROVE  AsksInv'
BY DEF AsksInv, Alone, Heard, PhaseInv, asking, Phase

(* A task of an ask that moves on from k and d, what it has done and what  *)
(* the host has heard, to phases that agree keeps the whole consistent: it *)
(* is the only one of its ask.                                             *)
LEMMA TaskMoves ==
    ASSUME task \in [Tasks -> TaskRecords],
           delivered \in [Asks -> Seq(Replies)],
           AsksInv,
           NEW t \in Tasks, task[t] # Idle,
           NEW k, k # Idle, NEW d,
           Phase(k, d),
           task' = [task EXCEPT ![t] = k],
           delivered' = [delivered EXCEPT ![t[1]] = d]
    PROVE  AsksInv'
<1> DEFINE NonIdle(u) == task[u] # Idle
<1>1. t[1] \in Asks
    BY DEF Tasks
<1>2. \A u \in Tasks : task'[u] = IF u = t THEN k ELSE task[u]
    OBVIOUS
<1>3. \A a \in Asks : delivered'[a] = IF a = t[1] THEN d ELSE delivered[a]
    OBVIOUS
<1>4. \A u \in Tasks : task'[u] # Idle <=> task[u] # Idle
    BY <1>2
<1>5. Alone'
    BY <1>4 DEF AsksInv, Alone, Idle
<1>6. Heard'
    BY <1>1, <1>3, <1>4 DEF AsksInv, Heard, Idle
<1>7. ASSUME NEW u \in Tasks, task'[u] # Idle
      PROVE  Phase(task'[u], delivered'[u[1]])
    <2>1. CASE u = t
        BY <2>1, <1>1, <1>2, <1>3
    <2>2. CASE u # t
        <3>1. u[1] # t[1]
            BY <2>2, <1>4, <1>7 DEF AsksInv, Alone
        <3>2. task'[u] = task[u] /\ delivered'[u[1]] = delivered[u[1]]
            BY <2>2, <3>1, <1>2, <1>3 DEF Tasks
        <3> QED
            BY <3>2, <1>7 DEF AsksInv, PhaseInv
    <2> QED
        BY <2>1, <2>2
<1>8. PhaseInv'
    BY <1>7 DEF PhaseInv, Idle
<1> QED
    BY <1>5, <1>6, <1>8 DEF AsksInv

(* A permission of which nothing has been asked yet has had no reply.      *)
LEMMA UnaskedIsUnheard ==
    ASSUME Heard, NEW a \in Asks, Unasked(a)
    PROVE  delivered[a] = <<>>
BY DEF Heard, Unasked, Tasks

(* A permission that is asked for gets one task: the hook's, or that of    *)
(* the one listener its event has.                                         *)
LEMMA AskStarts ==
    ASSUME task \in [Tasks -> TaskRecords],
           AsksInv,
           NEW a \in Asks, Unasked(a),
           NEW t \in Tasks, t[1] = a,
           NEW k, k # Idle, Phase(k, <<>>),
           task' = [task EXCEPT ![t] = k],
           UNCHANGED delivered
    PROVE  AsksInv'
<1>1. \A u \in Tasks : task'[u] = IF u = t THEN k ELSE task[u]
    OBVIOUS
<1>2. \A u \in Tasks : u[1] = a => task[u] = Idle
    BY DEF Unasked, Tasks
<1>3. delivered[a] = <<>>
    BY UnaskedIsUnheard DEF AsksInv
<1>4. Alone'
    BY <1>1, <1>2 DEF AsksInv, Alone, Idle
<1>5. Heard'
    BY <1>1, <1>3 DEF AsksInv, Heard, Idle
<1>6. ASSUME NEW u \in Tasks, task'[u] # Idle
      PROVE  Phase(task'[u], delivered'[u[1]])
    BY <1>1, <1>3, <1>6 DEF AsksInv, PhaseInv
<1>7. PhaseInv'
    BY <1>6 DEF PhaseInv, Idle
<1> QED
    BY <1>4, <1>5, <1>7 DEF AsksInv

-----------------------------------------------------------------------------
(* Activations and the gateway that is started.                            *)

(* An event gets its first listener and no second one.                     *)
LEMMA RegisterStep ==
    ASSUME ListenerInv, NEW e \in Events, RegisterPermissionAskedHandler(e)
    PROVE  ListenerInv'
<1>1. CASE e \in Capable \ tracked
    <2>1. tracked' = tracked \cup {e}
        BY <1>1 DEF RegisterPermissionAskedHandler
    <2>2. listeners' = [listeners EXCEPT ![e] = listeners[e] + 1]
        BY <1>1 DEF RegisterPermissionAskedHandler
    <2>3. listeners[e] = 0
        BY <1>1 DEF ListenerInv
    <2>4. listeners' = [f \in Events |-> IF f \in tracked' THEN 1 ELSE 0]
        BY <2>1, <2>2, <2>3 DEF ListenerInv
    <2> QED
        BY <2>1, <2>4 DEF ListenerInv
<1>2. CASE e \notin Capable \ tracked
    BY <1>2 DEF RegisterPermissionAskedHandler, ListenerInv
<1> QED
    BY <1>1, <1>2

(* An activation changes listeners, sockets, latch and gateways, and never *)
(* an ask; it starts no second gateway under a latch.                      *)
LEMMA ActivationStep ==
    ASSUME IInv, NEW a \in Activations,
           \/ \E e \in Events : ActivateTui(a, e) \/ ActivateServer(a, e)
           \/ ProbeConnects(a)
           \/ ProbeRefused(a)
           \/ SkipSpawn(a)
           \/ \E spawned \in BOOLEAN : Spawn(a, spawned)
    PROVE  IInv'
<1>1. UNCHANGED asking
    BY DEF ActivateTui, ActivateServer, ProbeConnects, ProbeRefused, SkipSpawn,
           Spawn, asking
<1>2. AsksInv'
    BY <1>1, AsksUntouched DEF IInv, AsksInv
<1>3. ListenerInv'
    <2>1. ASSUME NEW e \in Events, ActivateTui(a, e) \/ ActivateServer(a, e)
          PROVE  ListenerInv'
        BY <2>1, RegisterStep DEF ActivateTui, ActivateServer, IInv
    <2>2. ASSUME UNCHANGED <<tracked, listeners>>
          PROVE  ListenerInv'
        BY <2>2 DEF IInv, ListenerInv
    <2> QED
        BY <2>1, <2>2 DEF ProbeConnects, ProbeRefused, SkipSpawn, Spawn
<1>4. probe' \in [Activations -> {"none", "connecting", "refused", "closed"}]
    BY DEF ActivateTui, ActivateServer, ProbeConnects, ProbeRefused, SkipSpawn,
           Spawn, IInv, PluginType
<1>5. /\ latch' \in BOOLEAN /\ gateway' \in BOOLEAN
      /\ fresh' \in Nat /\ old' \in Nat
      /\ OneStartPerLatch'
    <2>1. ASSUME NEW spawned \in BOOLEAN, Spawn(a, spawned)
          PROVE  /\ latch' = TRUE /\ gateway' = gateway /\ old' = old
                 /\ fresh' \in {0, 1}
        <3>1. fresh = 0
            BY <2>1 DEF Spawn, IInv, PluginType, OneStartPerLatch
        <3>2. fresh' = IF spawned THEN fresh + 1 ELSE fresh
            BY <2>1 DEF Spawn
        <3>3. fresh' \in {0, 1}
            BY <3>1, <3>2
        <3> QED
            BY <2>1, <3>3 DEF Spawn
    <2>2. CASE \E spawned \in BOOLEAN : Spawn(a, spawned)
        <3>1. /\ latch' = TRUE /\ gateway' = gateway /\ old' = old
              /\ fresh' \in {0, 1}
            BY <2>1, <2>2
        <3>2. latch' \in BOOLEAN /\ gateway' \in BOOLEAN
            BY <3>1, Zenon DEF IInv, PluginType
        <3>3. fresh' \in Nat /\ old' \in Nat /\ fresh' <= 1
            BY <3>1 DEF IInv, PluginType
        <3> QED
            BY <3>1, <3>2, <3>3, Zenon DEF OneStartPerLatch
    <2>3. CASE UNCHANGED starting
        <3>1. latch' = latch /\ gateway' = gateway /\ fresh' = fresh /\ old' = old
            BY <2>3 DEF starting
        <3> QED
            BY <3>1 DEF IInv, PluginType, OneStartPerLatch
    <2> QED
        BY <2>2, <2>3 DEF ActivateTui, ActivateServer, ProbeConnects,
                          ProbeRefused, SkipSpawn
<1> QED
    BY <1>1, <1>2, <1>3, <1>4, <1>5 DEF IInv, AsksInv, PluginType, asking

(* When the latch is released, the gateways started under it count as old; *)
(* they come and go, and no ask is changed by that.                        *)
LEMMA GatewayStep ==
    ASSUME IInv, LatchExpires \/ GatewayChanges
    PROVE  IInv'
<1>1. UNCHANGED <<probe, tracked, listeners, task, delivered>>
    BY DEF LatchExpires, GatewayChanges
<1>2. AsksInv'
    BY <1>1, AsksUntouched DEF IInv, AsksInv, asking
<1>3. ListenerInv'
    BY <1>1 DEF IInv, ListenerInv
<1>4. /\ latch' \in BOOLEAN /\ gateway' \in BOOLEAN
      /\ fresh' \in Nat /\ old' \in Nat
      /\ OneStartPerLatch'
    <2>1. CASE LatchExpires
        <3>1. latch' = FALSE /\ fresh' = 0 /\ old' = old + fresh
            BY <2>1 DEF LatchExpires
        <3>2. latch' \in BOOLEAN /\ gateway' \in BOOLEAN
            BY <2>1, Zenon DEF LatchExpires, IInv, PluginType
        <3>3. fresh' \in Nat /\ old' \in Nat /\ fresh' <= 1 /\ fresh' # 1
            BY <3>1 DEF IInv, PluginType
        <3> QED
            BY <3>2, <3>3, Zenon DEF OneStartPerLatch
    <2>2. CASE GatewayChanges
        <3>1. gateway' \in BOOLEAN
            <4>1. gateway \in BOOLEAN
                BY DEF IInv, PluginType
            <4>2. \/ gateway' \in {gateway, TRUE}
                  \/ gateway' = FALSE
                BY <2>2, Zenon DEF GatewayChanges
            <4>3. {gateway, TRUE} \subseteq BOOLEAN
                BY <4>1, Zenon
            <4> QED
                BY <4>2, <4>3, Zenon
        <3>2. latch' = latch
            BY <2>2 DEF GatewayChanges
        <3>3. /\ fresh' \in Nat /\ old' \in Nat
              /\ fresh' = fresh \/ fresh' = fresh - 1
            <4>1. \/ fresh > 0 /\ fresh' = fresh - 1 /\ old' = old
                  \/ old > 0 /\ old' = old - 1 /\ fresh' = fresh
                  \/ fresh' = fresh /\ old' = old
                BY <2>2, Zenon DEF GatewayChanges
            <4> QED
                BY <4>1 DEF IInv, PluginType
        <3>4. OneStartPerLatch'
            BY <3>2, <3>3 DEF IInv, PluginType, OneStartPerLatch
        <3> QED
            BY <3>1, <3>2, <3>3, <3>4 DEF IInv, PluginType
    <2> QED
        BY <2>1, <2>2
<1> QED
    BY <1>1, <1>2, <1>3, <1>4 DEF IInv, AsksInv, PluginType

-----------------------------------------------------------------------------
(* Asks.                                                                   *)

(* What is left to show for a step that is about asks alone.               *)
LEMMA AskStep ==
    ASSUME IInv, AsksInv',
           UNCHANGED <<probe, tracked, listeners, starting>>,
           task' \in [Tasks -> TaskRecords],
           delivered' \in [Asks -> Seq(Replies)]
    PROVE  IInv'
BY DEF IInv, AsksInv, PluginType, ListenerInv, OneStartPerLatch, starting

(* A task that begins has not settled anything.                            *)
LEMMA BeginsInPhase ==
    /\ \A byEvent, ids \in BOOLEAN :
           /\ Evaluating(byEvent, ids) \in TaskRecords
           /\ Evaluating(byEvent, ids) # Idle
           /\ (ids => byEvent) => Phase(Evaluating(byEvent, ids), <<>>)
    /\ \A k \in {[Idle EXCEPT !.pc = "rejecting", !.byEvent = TRUE, !.ids = TRUE],
                 [Idle EXCEPT !.pc = "done", !.byEvent = TRUE]} :
           k \in TaskRecords /\ k # Idle /\ Phase(k, <<>>)
<1>1. ASSUME NEW byEvent \in BOOLEAN, NEW ids \in BOOLEAN, NEW k,
             k = Evaluating(byEvent, ids)
      PROVE  k \in TaskRecords /\ k # Idle /\ ((ids => byEvent) => Phase(k, <<>>))
    <2>1. k = [pc |-> "evaluating", byEvent |-> byEvent, ids |-> ids,
               conn |-> "waiting", answer |-> "none", output |-> "none",
               thrown |-> 0]
        BY <1>1 DEF Evaluating, Idle
    <2>2. k \in TaskRecords
        BY <2>1 DEF TaskRecords
    <2>3. k # Idle
        BY <2>1 DEF Idle
    <2>4. (ids => byEvent) => Phase(k, <<>>)
        BY <2>1 DEF Phase
    <2> QED
        BY <2>2, <2>3, <2>4
<1>2. ASSUME NEW k,
             \/ k = [Idle EXCEPT !.pc = "rejecting", !.byEvent = TRUE, !.ids = TRUE]
             \/ k = [Idle EXCEPT !.pc = "done", !.byEvent = TRUE]
      PROVE  k \in TaskRecords /\ k # Idle /\ Phase(k, <<>>)
    <2>1. PICK pc \in {"rejecting", "done"}, ids \in BOOLEAN :
              /\ k = [pc |-> pc, byEvent |-> TRUE, ids |-> ids,
                      conn |-> "none", answer |-> "none", output |-> "none",
                      thrown |-> 0]
              /\ ids => pc = "rejecting"
        BY <1>2 DEF Idle
    <2>2. k \in TaskRecords
        BY <2>1 DEF TaskRecords
    <2>3. k # Idle
        BY <2>1 DEF Idle
    <2>4. Phase(k, <<>>)
        BY <2>1 DEF Phase
    <2> QED
        BY <2>2, <2>3, <2>4
<1> QED
    BY <1>1, <1>2

(* The hook's task is the only one of its ask.                             *)
LEMMA CallHookStep ==
    ASSUME IInv, NEW a \in Asks, CallHook(a)
    PROVE  IInv'
<1> DEFINE k == Evaluating(FALSE, FALSE)
           t == <<a, 0>>
<1>1. k \in TaskRecords /\ k # Idle /\ Phase(k, <<>>)
    BY BeginsInPhase
<1>2. task' = [task EXCEPT ![t] = k] /\ UNCHANGED delivered /\ Unasked(a)
    BY DEF CallHook
<1>3. task' \in [Tasks -> TaskRecords]
    BY <1>1, <1>2 DEF IInv, PluginType
<1>4. AsksInv'
    <2>1. CASE t \in Tasks
        <3> HIDE DEF k
        <3>1. t[1] = a
            OBVIOUS
        <3> HIDE DEF t
        <3> QED
            BY <2>1, <3>1, <1>1, <1>2, AskStarts DEF IInv, AsksInv, PluginType
    <2>2. CASE t \notin Tasks
        <3>1. UNCHANGED asking
            BY <2>2, <1>2 DEF IInv, PluginType, asking
        <3> QED
            BY <3>1, AsksUntouched DEF IInv, AsksInv
    <2> QED
        BY <2>1, <2>2
<1> QED
    BY <1>2, <1>3, <1>4, AskStep DEF CallHook, IInv, PluginType

(* An event that is emitted starts the task of its one listener.           *)
LEMMA EmitStep ==
    ASSUME IInv, NEW a \in Asks, NEW e \in Events,
           NEW ids \in BOOLEAN, NEW permission \in BOOLEAN,
           EmitAsked(a, e, ids, permission)
    PROVE  IInv'
<1> DEFINE started ==
               CASE permission -> Evaluating(TRUE, ids)
                 [] ~permission /\ ids ->
                        [Idle EXCEPT !.pc = "rejecting", !.byEvent = TRUE,
                                     !.ids = TRUE]
                 [] OTHER -> [Idle EXCEPT !.pc = "done", !.byEvent = TRUE]
           t == <<a, 1>>
<1>1. PICK k : k = started
    OBVIOUS
<1>2. k \in TaskRecords /\ k # Idle /\ Phase(k, <<>>)
    <2>1. CASE permission
        BY <2>1, <1>1, BeginsInPhase
    <2>2. CASE ~permission /\ ids
        BY <2>2, <1>1, BeginsInPhase
    <2>3. CASE ~permission /\ ~ids
        BY <2>3, <1>1, BeginsInPhase
    <2> QED
        BY <2>1, <2>2, <2>3
<1>3. task' = [u \in Tasks |-> IF u[1] = a /\ u[2] \in 1 .. listeners[e]
                               THEN k ELSE task[u]]
    BY <1>1 DEF EmitAsked
<1>4. listeners[e] = 1
    BY DEF EmitAsked, IInv, ListenerInv
<1>5. \A u \in Tasks : (u[1] = a /\ u[2] \in 1 .. listeners[e]) <=> u = t
    BY <1>4 DEF Tasks
<1> HIDE DEF started, t
<1>6. task' = [task EXCEPT ![t] = k]
    BY <1>3, <1>5 DEF IInv, PluginType
<1>7. UNCHANGED <<probe, tracked, listeners, starting, delivered>> /\ Unasked(a)
    BY DEF EmitAsked
<1>8. task' \in [Tasks -> TaskRecords]
    BY <1>2, <1>6 DEF IInv, PluginType
<1>9. AsksInv'
    <2>1. CASE t \in Tasks
        <3>1. t[1] = a
            BY DEF t
        <3> QED
            BY <2>1, <3>1, <1>2, <1>6, <1>7, AskStarts
               DEF IInv, AsksInv, PluginType
    <2>2. CASE t \notin Tasks
        <3>1. UNCHANGED asking
            BY <2>2, <1>6, <1>7 DEF IInv, PluginType, asking
        <3> QED
            BY <3>1, AsksUntouched DEF IInv, AsksInv
    <2> QED
        BY <2>1, <2>2
<1> QED
    BY <1>7, <1>8, <1>9, AskStep DEF IInv, PluginType

(* A task that moves on to k while the host has heard d: what remains of a *)
(* step of one task.                                                       *)
LEMMA OneTaskStep ==
    ASSUME IInv, NEW t \in Tasks, task[t] # Idle,
           NEW k \in TaskRecords, NEW d \in Seq(Replies),
           Phase(k, d),
           task' = [task EXCEPT ![t] = k],
           delivered' = [delivered EXCEPT ![t[1]] = d],
           UNCHANGED <<probe, tracked, listeners, starting>>
    PROVE  IInv'
<1>1. k # Idle
    BY DEF Phase, Idle
<1>2. AsksInv'
    BY <1>1, TaskMoves DEF IInv, AsksInv, PluginType
<1>3. task' \in [Tasks -> TaskRecords] /\ delivered' \in [Asks -> Seq(Replies)]
    BY DEF IInv, PluginType
<1> QED
    BY <1>2, <1>3, AskStep

-----------------------------------------------------------------------------
(* The steps of one task.                                                  *)

(* A task with an open connection is being evaluated, and the host has not *)
(* heard of its ask.                                                       *)
LEMMA OpenIsEvaluating ==
    ASSUME IInv, NEW t \in Tasks, task[t].conn # "none"
    PROVE  /\ task[t] \in TaskRecords /\ task[t] # Idle
           /\ Phase(task[t], delivered[t[1]])
           /\ task[t].pc = "evaluating"
           /\ delivered[t[1]] = <<>> /\ t[1] \in Asks
<1>1. task[t] \in TaskRecords /\ t[1] \in Asks
    BY DEF IInv, PluginType, Tasks
<1>2. task[t] # Idle
    BY DEF Idle
<1>3. Phase(task[t], delivered[t[1]])
    BY <1>2 DEF IInv, PhaseInv
<1> QED
    BY <1>1, <1>2, <1>3 DEF Phase

(* A response begins, or is cut: only the connection changes.              *)
LEMMA ConnectionStep ==
    ASSUME IInv, NEW t \in Tasks, ResponseBegins(t) \/ ResponseIsCut(t)
    PROVE  IInv'
<1>1. PICK c \in {"receiving", "cut"} :
          /\ task' = [task EXCEPT ![t].conn = c]
          /\ task[t].conn # "none"
    BY DEF ResponseBegins, ResponseIsCut
<1>2. UNCHANGED <<probe, tracked, listeners, starting, delivered>>
    BY DEF ResponseBegins, ResponseIsCut
<1>3. PICK k : k = [task[t] EXCEPT !.conn = c]
    OBVIOUS
<1>4. /\ task[t] \in TaskRecords /\ task[t] # Idle
      /\ Phase(task[t], delivered[t[1]])
      /\ task[t].pc = "evaluating"
      /\ delivered[t[1]] = <<>> /\ t[1] \in Asks
    BY <1>1, OpenIsEvaluating
<1>5. k \in TaskRecords
    BY <1>3, <1>4 DEF TaskRecords
<1>6. Phase(k, delivered[t[1]])
    BY <1>3, <1>4 DEF Phase, TaskRecords
<1>7. task' = [task EXCEPT ![t] = k]
    BY <1>1, <1>3 DEF IInv, PluginType
<1>8. delivered' = [delivered EXCEPT ![t[1]] = delivered[t[1]]]
    BY <1>2 DEF IInv, PluginType
<1>9. delivered[t[1]] \in Seq(Replies)
    BY <1>4 DEF IInv, PluginType
<1> QED
    BY <1>2, <1>4, <1>5, <1>6, <1>7, <1>8, <1>9, OneTaskStep

(* The promise of the evaluation is settled: nothing but a complete answer *)
(* "allow" gives an output "allow".                                        *)
LEMMA SettleStep ==
    ASSUME IInv, NEW t \in Tasks, task[t].conn # "none",
           NEW answer \in Answers \cup {"none"}, NEW status \in Statuses,
           status = "allow" => answer = "allow",
           Settle(t, answer, status)
    PROVE  IInv'
<1>1. PICK k : k = [task[t] EXCEPT
          !.conn = "none", !.answer = answer, !.output = status,
          !.pc = IF task[t].byEvent /\ task[t].ids THEN "replying" ELSE "done"]
    OBVIOUS
<1>2. UNCHANGED <<probe, tracked, listeners, starting, delivered>>
    BY DEF Settle
<1>3. /\ task[t] \in TaskRecords /\ task[t] # Idle
      /\ Phase(task[t], delivered[t[1]])
      /\ task[t].pc = "evaluating"
      /\ delivered[t[1]] = <<>> /\ t[1] \in Asks
    BY OpenIsEvaluating
<1>4. task' = [task EXCEPT ![t] = k]
    BY <1>1, <1>3 DEF Settle, IInv, PluginType
<1>5. k \in TaskRecords
    BY <1>1, <1>3 DEF TaskRecords
<1>6. /\ k.conn = "none" /\ k.answer = answer /\ k.output = status
      /\ k.thrown = 0 /\ k.byEvent = task[t].byEvent /\ k.ids = task[t].ids
      /\ k.pc \in {"replying", "done"}
      /\ k.pc = "done" => ~(task[t].byEvent /\ task[t].ids)
    BY <1>1, <1>3 DEF TaskRecords, Phase
<1>7. k.ids => k.byEvent
    BY <1>3, <1>6 DEF Phase
<1>8. k.pc = "done" => ~k.ids
    BY <1>6, <1>7
<1>9. Phase(k, <<>>)
    BY <1>6, <1>7, <1>8 DEF Phase, Statuses
<1>10. delivered' = [delivered EXCEPT ![t[1]] = <<>>] /\ <<>> \in Seq(Replies)
    BY <1>2, <1>3 DEF IInv, PluginType
<1> QED
    BY <1>2, <1>3, <1>4, <1>5, <1>9, <1>10, OneTaskStep

(* An evaluation ends with an answer, or fails and counts as a denial.     *)
LEMMA EvaluationEnds ==
    ASSUME IInv, NEW t \in Tasks,
           RequestFails(t) \/ \E answer \in Answers : ResponseEnds(t, answer)
    PROVE  IInv'
<1>1. CASE RequestFails(t)
    <2>1. task[t].conn # "none" /\ Settle(t, "none", "deny")
        BY <1>1 DEF RequestFails
    <2> QED
        BY <2>1, SettleStep DEF Statuses
<1>2. ASSUME NEW answer \in Answers, ResponseEnds(t, answer)
      PROVE  IInv'
    <2>1. PICK status : status = StatusOf(answer)
        OBVIOUS
    <2>2. task[t].conn # "none" /\ Settle(t, answer, status)
        BY <1>2, <2>1 DEF ResponseEnds
    <2>3. status \in Statuses /\ (status = "allow" => answer = "allow")
        BY <2>1 DEF StatusOf, Answers, Statuses
    <2> QED
        BY <2>2, <2>3, SettleStep
<1> QED
    BY <1>1, <1>2

(* A call of reply sends "once" only for an answer "allow", and then it is *)
(* the first thing the host hears.                                         *)
LEMMA ReplyIsEarned ==
    ASSUME IInv, NEW t \in Tasks, task[t].pc \in {"replying", "rejecting"}
    PROVE  /\ task[t] \in TaskRecords /\ task[t] # Idle /\ t[1] \in Asks
           /\ Phase(task[t], delivered[t[1]])
           /\ delivered[t[1]] \in Seq(Replies)
           /\ Reply(t) \in Replies
           /\ Reply(t) = "once" => /\ task[t].answer = "allow"
                                   /\ delivered[t[1]] = <<>>
<1>1. task[t] \in TaskRecords /\ t[1] \in Asks
    BY DEF IInv, PluginType, Tasks
<1>2. task[t] # Idle
    BY DEF Idle
<1>3. Phase(task[t], delivered[t[1]])
    BY <1>2 DEF IInv, PhaseInv
<1>4. delivered[t[1]] \in Seq(Replies)
    BY <1>1 DEF IInv, PluginType
<1>5. Reply(t) \in Replies
    BY DEF Reply, Replies
<1>6. Reply(t) = "once" => task[t].pc = "replying" /\ task[t].output = "allow"
    BY DEF Reply
<1> QED
    BY <1>1, <1>2, <1>3, <1>4, <1>5, <1>6 DEF Phase

(* The replies to an ask before and after an attempt that may or may not   *)
(* have arrived.                                                           *)
LEMMA Arrivals ==
    ASSUME IInv, NEW t \in Tasks, task[t].pc \in {"replying", "rejecting"},
           NEW arrived \in BOOLEAN,
           IF arrived THEN Deliver(t) ELSE UNCHANGED delivered
    PROVE  \E d \in Seq(Replies) :
              /\ delivered' = [delivered EXCEPT ![t[1]] = d]
              /\ Len(d) = Len(delivered[t[1]]) + (IF arrived THEN 1 ELSE 0)
              /\ \A i \in 1 .. Len(d) :
                    d[i] = "once" => i = 1 /\ task[t].answer = "allow"
<1>1. PICK r, e : r = Reply(t) /\ e = delivered[t[1]]
    OBVIOUS
<1>2. /\ e \in Seq(Replies) /\ r \in Replies /\ t[1] \in Asks
      /\ \A i \in 1 .. Len(e) : e[i] = "once" => i = 1 /\ task[t].answer = "allow"
      /\ r = "once" => task[t].answer = "allow" /\ e = <<>>
    BY <1>1, ReplyIsEarned DEF Phase
<1>3. CASE arrived
    <2>1. delivered' = [delivered EXCEPT ![t[1]] = Append(e, r)]
        BY <1>1, <1>3 DEF Deliver
    <2>2. PICK d : d = Append(e, r)
        OBVIOUS
    <2>3. /\ d \in Seq(Replies) /\ Len(d) = Len(e) + 1
          /\ d[Len(d)] = r
          /\ \A i \in 1 .. Len(e) : d[i] = e[i]
        BY <1>2, <2>2, AppendProperties
    <2>4. ASSUME NEW i \in 1 .. Len(d), d[i] = "once"
          PROVE  i = 1 /\ task[t].answer = "allow"
        <3>1. CASE i \in 1 .. Len(e)
            BY <1>2, <2>3, <2>4, <3>1
        <3>2. CASE i = Len(d)
            <4>1. r = "once"
                BY <2>3, <2>4, <3>2
            <4>2. Len(e) = 0
                BY <4>1, <1>2
            <4> QED
                BY <4>1, <4>2, <1>2, <2>3, <3>2
        <3>3. Len(e) \in Nat
            BY <1>2
        <3> QED
            BY <3>1, <3>2, <3>3, <2>3
    <2> QED
        BY <1>1, <1>3, <2>1, <2>2, <2>3, <2>4
<1>4. CASE ~arrived
    <2>1. delivered' = [delivered EXCEPT ![t[1]] = e]
        BY <1>1, <1>4 DEF IInv, PluginType
    <2>2. Len(e) = Len(delivered[t[1]]) + (IF arrived THEN 1 ELSE 0)
        <3>1. Len(e) \in Nat /\ e = delivered[t[1]]
            BY <1>1, <1>2
        <3> QED
            BY <3>1, <1>4
    <2> QED
        BY <1>2, <2>1, <2>2
<1> QED
    BY <1>3, <1>4

(* A reply that returns ends the task: the host has heard it.              *)
LEMMA ReplyReturnsStep ==
    ASSUME IInv, NEW t \in Tasks, ReplyReturns(t)
    PROVE  IInv'
<1>1. /\ task[t].pc \in {"replying", "rejecting"}
      /\ task' = [task EXCEPT ![t].pc = "done"]
      /\ UNCHANGED <<probe, tracked, listeners, starting>>
    BY DEF ReplyReturns
<1>2. PICK d \in Seq(Replies) :
          /\ delivered' = [delivered EXCEPT ![t[1]] = d]
          /\ Len(d) = Len(delivered[t[1]]) + 1
          /\ \A i \in 1 .. Len(d) :
                d[i] = "once" => i = 1 /\ task[t].answer = "allow"
    <2>1. IF TRUE THEN Deliver(t) ELSE UNCHANGED delivered
        BY DEF ReplyReturns
    <2> QED
        BY <1>1, <2>1, Arrivals
<1>3. PICK k : k = [task[t] EXCEPT !.pc = "done"]
    OBVIOUS
<1>4. /\ task[t] \in TaskRecords /\ task[t] # Idle /\ t[1] \in Asks
      /\ Phase(task[t], delivered[t[1]])
      /\ delivered[t[1]] \in Seq(Replies)
    BY <1>1, ReplyIsEarned
<1>5. k \in TaskRecords /\ task' = [task EXCEPT ![t] = k]
    BY <1>1, <1>3, <1>4 DEF TaskRecords, IInv, PluginType
<1>6. /\ k.pc = "done" /\ k.byEvent = task[t].byEvent /\ k.ids = task[t].ids
      /\ k.conn = task[t].conn /\ k.answer = task[t].answer
      /\ k.output = task[t].output /\ k.thrown = task[t].thrown
    BY <1>3, <1>4 DEF TaskRecords
<1>7. Len(delivered[t[1]]) <= task[t].thrown /\ Len(delivered[t[1]]) \in Nat
    BY <1>1, <1>4 DEF Phase
<1>8. task[t].thrown \in Nat
    BY <1>4 DEF TaskRecords
<1>9. Len(d) \in Nat /\ Len(d) > 0 /\ (Len(d) > 1 => k.thrown > 0)
    BY <1>2, <1>6, <1>7, <1>8
<1>10. d # <<>>
    BY <1>9
<1>11. Phase(k, d)
    BY <1>1, <1>2, <1>4, <1>6, <1>9, <1>10 DEF Phase
<1> QED
    BY <1>1, <1>2, <1>4, <1>5, <1>11, OneTaskStep

(* A reply that throws is followed by a "reject", unless it was one.       *)
LEMMA ReplyThrowsStep ==
    ASSUME IInv, NEW t \in Tasks, NEW arrived \in BOOLEAN, ReplyThrows(t, arrived)
    PROVE  IInv'
<1>1. /\ task[t].pc \in {"replying", "rejecting"}
      /\ UNCHANGED <<probe, tracked, listeners, starting>>
    BY DEF ReplyThrows
<1>2. PICK d \in Seq(Replies) :
          /\ delivered' = [delivered EXCEPT ![t[1]] = d]
          /\ Len(d) = Len(delivered[t[1]]) + (IF arrived THEN 1 ELSE 0)
          /\ \A i \in 1 .. Len(d) :
                d[i] = "once" => i = 1 /\ task[t].answer = "allow"
    BY <1>1, Arrivals DEF ReplyThrows
<1>3. PICK k : k = [task[t] EXCEPT
          !.pc = IF task[t].pc = "replying" THEN "rejecting" ELSE "done",
          !.thrown = task[t].thrown + 1]
    OBVIOUS
<1>4. /\ task[t] \in TaskRecords /\ task[t] # Idle /\ t[1] \in Asks
      /\ Phase(task[t], delivered[t[1]])
      /\ delivered[t[1]] \in Seq(Replies)
    BY <1>1, ReplyIsEarned
<1>5. k \in TaskRecords
    <2>1. task[t].thrown + 1 \in Nat
        BY <1>4 DEF TaskRecords
    <2>2. (IF task[t].pc = "replying" THEN "rejecting" ELSE "done")
              \in {"rejecting", "done"}
        OBVIOUS
    <2> QED
        BY <1>3, <1>4, <2>1, <2>2 DEF TaskRecords
<1>6. task' = [task EXCEPT ![t] = k]
    BY <1>3, <1>4 DEF ReplyThrows, IInv, PluginType
<1>7. /\ k.pc = IF task[t].pc = "replying" THEN "rejecting" ELSE "done"
      /\ k.byEvent = task[t].byEvent /\ k.ids = task[t].ids
      /\ k.conn = task[t].conn /\ k.answer = task[t].answer
      /\ k.output = task[t].output /\ k.thrown = task[t].thrown + 1
    BY <1>3, <1>4 DEF TaskRecords
<1>8. Len(d) \in Nat /\ Len(d) <= Len(delivered[t[1]]) + 1
      /\ task[t].thrown \in Nat
    <2>1. Len(d) \in Nat /\ Len(delivered[t[1]]) \in Nat
        BY <1>4
    <2>2. (IF arrived THEN 1 ELSE 0) \in {0, 1}
        OBVIOUS
    <2>3. Len(d) <= Len(delivered[t[1]]) + 1
        BY <1>2, <2>1, <2>2
    <2> QED
        BY <1>4, <2>1, <2>3 DEF TaskRecords
<1>9. ASSUME task[t].pc = "replying" PROVE Phase(k, d)
    <2>1. /\ k.pc = "rejecting" /\ k.thrown = 1 /\ k.output # "none"
          /\ Len(d) <= 1
        BY <1>4, <1>7, <1>8, <1>9 DEF Phase
    <2> QED
        BY <2>1, <1>2, <1>4, <1>7, <1>9 DEF Phase
<1>10. ASSUME task[t].pc = "rejecting" PROVE Phase(k, d)
    <2>1. /\ k.pc = "done"
          /\ k.thrown = IF k.output = "none" THEN 1 ELSE 2
        BY <1>4, <1>7, <1>10 DEF Phase
    <2>2. k.thrown > 0 /\ k.conn = "none"
        BY <2>1, <1>4, <1>7, <1>10 DEF Phase
    <2>3. /\ k.ids => k.byEvent
          /\ k.output = "allow" => k.answer = "allow"
        BY <1>4, <1>7 DEF Phase
    <2>4. \A i \in 1 .. Len(d) : d[i] = "once" => i = 1 /\ k.answer = "allow"
        BY <1>2, <1>7
    <2> QED
        BY <2>1, <2>2, <2>3, <2>4 DEF Phase
<1>11. Phase(k, d)
    BY <1>1, <1>9, <1>10
<1> QED
    BY <1>1, <1>2, <1>4, <1>5, <1>6, <1>11, OneTaskStep

-----------------------------------------------------------------------------
(* A step keeps the invariant.                                             *)
LEMMA NextPlugin == IInv /\ [Next]_vars => IInv'
<1> SUFFICES ASSUME IInv, [Next]_vars
             PROVE  IInv'
    OBVIOUS
<1>1. ASSUME NEW a \in Activations,
             \/ \E e \in Events : ActivateTui(a, e) \/ ActivateServer(a, e)
             \/ ProbeConnects(a)
             \/ ProbeRefused(a)
             \/ SkipSpawn(a)
             \/ \E spawned \in BOOLEAN : Spawn(a, spawned)
      PROVE  IInv'
    BY <1>1, ActivationStep
<1>2. CASE LatchExpires \/ GatewayChanges
    BY <1>2, GatewayStep
<1>3. ASSUME NEW a \in Asks, CallHook(a)
      PROVE  IInv'
    BY <1>3, CallHookStep
<1>4. ASSUME NEW a \in Asks, NEW e \in Events,
             NEW ids \in BOOLEAN, NEW permission \in BOOLEAN,
             EmitAsked(a, e, ids, permission)
      PROVE  IInv'
    BY <1>4, EmitStep
<1>5. ASSUME NEW t \in Tasks, ResponseBegins(t) \/ ResponseIsCut(t)
      PROVE  IInv'
    BY <1>5, ConnectionStep
<1>6. ASSUME NEW t \in Tasks, TaskStep(t)
      PROVE  IInv'
    <2>1. CASE RequestFails(t) \/ \E answer \in Answers : ResponseEnds(t, answer)
        BY <2>1, EvaluationEnds
    <2>2. CASE ReplyReturns(t)
        BY <2>2, ReplyReturnsStep
    <2>3. CASE \E arrived \in BOOLEAN : ReplyThrows(t, arrived)
        BY <2>3, ReplyThrowsStep
    <2> QED
        BY <1>6, <2>1, <2>2, <2>3 DEF TaskStep
<1>7. CASE UNCHANGED vars
    <2>1. UNCHANGED <<probe, tracked, listeners, starting>> /\ UNCHANGED asking
        BY <1>7 DEF vars, asking
    <2>2. AsksInv'
        BY <2>1, AsksUntouched DEF IInv, AsksInv
    <2>3. task' \in [Tasks -> TaskRecords] /\ delivered' \in [Asks -> Seq(Replies)]
        BY <2>1 DEF IInv, PluginType, asking
    <2> QED
        BY <2>1, <2>2, <2>3, AskStep
<1> QED
    BY <1>1, <1>2, <1>3, <1>4, <1>5, <1>6, <1>7 DEF Next

(* Nothing has been asked, registered or started at first.                 *)
LEMMA InitPlugin == Init => IInv
<1> SUFFICES ASSUME Init
             PROVE  IInv
    OBVIOUS
<1>1. Idle \in TaskRecords
    BY DEF Idle, TaskRecords
<1>2. \A t \in Tasks : task[t] = Idle
    BY DEF Init
<1>3. \A a \in Asks : delivered[a] = <<>>
    BY DEF Init
<1>4. Alone /\ Heard /\ PhaseInv
    BY <1>2, <1>3 DEF Alone, Heard, PhaseInv
<1>5. ListenerInv
    BY DEF Init, ListenerInv
<1>6. OneStartPerLatch
    BY DEF Init, OneStartPerLatch
<1>7. PluginType
    <2>1. task \in [Tasks -> TaskRecords] /\ delivered \in [Asks -> Seq(Replies)]
        BY <1>1 DEF Init
    <2>2. latch \in BOOLEAN /\ gateway \in BOOLEAN
        BY DEF Init
    <2>3. /\ probe \in [Activations -> {"none", "connecting", "refused", "closed"}]
          /\ fresh \in Nat /\ old \in Nat
        BY DEF Init
    <2> QED
        BY <2>1, <2>2, <2>3 DEF PluginType
<1> QED
    BY <1>4, <1>5, <1>6, <1>7 DEF IInv

(* The invariant holds in every state the plugin reaches.                  *)
THEOREM Inductive == Spec => []IInv
<1> QED
    BY InitPlugin, NextPlugin, PTL DEF Spec

(* Whatever becomes of a request, and however often a reply is tried: an   *)
(* output "allow" and a reply "once" come from a complete answer "allow"   *)
(* of the gateway to this very request (chronos-gate.js: the status starts *)
(* as a denial, and the catch block of the reply rejects).                 *)
THEOREM AllowEarned == Spec => []AllowIsEarned
<1>1. IInv => AllowIsEarned
    <2> SUFFICES ASSUME IInv
                 PROVE  AllowIsEarned
        OBVIOUS
    <2>1. ASSUME NEW t \in Tasks, task[t].output = "allow"
          PROVE  task[t].answer = "allow"
        <3>1. task[t] # Idle
            BY <2>1 DEF Idle
        <3> QED
            BY <2>1, <3>1 DEF IInv, PhaseInv, Phase
    <2>2. ASSUME NEW a \in Asks, NEW i \in DOMAIN delivered[a],
                 delivered[a][i] = "once"
          PROVE  \E t \in Tasks : t[1] = a /\ task[t].answer = "allow"
        <3>1. delivered[a] \in Seq(Replies)
            BY DEF IInv, PluginType
        <3>2. i \in 1 .. Len(delivered[a]) /\ delivered[a] # <<>>
            BY <3>1, <2>2
        <3>3. PICK t \in Tasks : t[1] = a /\ task[t] # Idle
            BY <3>2 DEF IInv, Heard
        <3> QED
            BY <2>2, <3>2, <3>3 DEF IInv, PhaseInv, Phase
    <2> QED
        BY <2>1, <2>2 DEF AllowIsEarned
<1> QED
    BY <1>1, Inductive, PTL

(* The host never hears "once" after a "reject", and it hears two replies  *)
(* to an ask only if a call of reply threw in between.                     *)
THEOREM RepliesAgree == Spec => []RepliesConsistent
<1>1. IInv => RepliesConsistent
    <2> SUFFICES ASSUME IInv, NEW a \in Asks
                 PROVE  /\ \A i \in 2 .. Len(delivered[a]) :
                               delivered[a][i] = "reject"
                        /\ Len(delivered[a]) > 1 =>
                               \E t \in Tasks : t[1] = a /\ task[t].thrown > 0
        BY DEF RepliesConsistent
    <2>1. PICK d : d = delivered[a]
        OBVIOUS
    <2>2. d \in Seq(Replies)
        BY <2>1 DEF IInv, PluginType
    <2>3. CASE d = <<>>
        BY <2>1, <2>3
    <2>4. CASE d # <<>>
        <3>1. PICK t \in Tasks : t[1] = a /\ task[t] # Idle
            BY <2>1, <2>4 DEF IInv, Heard
        <3>2. Phase(task[t], d) /\ task[t] \in TaskRecords
            BY <2>1, <3>1 DEF IInv, PluginType, PhaseInv
        <3>3. \A i \in 2 .. Len(d) : d[i] = "reject"
            <4>1. \A i \in 1 .. Len(d) : d[i] \in {"once", "reject"}
                BY <2>2 DEF Replies
            <4>2. \A i \in 1 .. Len(d) : d[i] = "once" => i = 1
                BY <3>2 DEF Phase
            <4> QED
                BY <2>2, <4>1, <4>2
        <3>4. Len(d) > 1 => task[t].thrown > 0
            <4>1. task[t].pc \in {"rejecting", "done"}
                BY <2>4, <3>2 DEF Phase, TaskRecords
            <4>2. Len(d) \in Nat /\ task[t].thrown \in Nat
                BY <2>2, <3>2 DEF TaskRecords
            <4>3. CASE task[t].pc = "rejecting"
                BY <3>2, <4>2, <4>3 DEF Phase
            <4>4. CASE task[t].pc = "done"
                BY <3>2, <4>2, <4>4 DEF Phase
            <4> QED
                BY <4>1, <4>3, <4>4
        <3> QED
            BY <2>1, <3>1, <3>3, <3>4
    <2> QED
        BY <2>3, <2>4
<1> QED
    BY <1>1, Inductive, PTL

(* The handler of an event that names its request does not end before the  *)
(* host has heard an answer or the last "reject" has thrown too.           *)
THEOREM EventsGetAnswers == Spec => []EventsAnswered
<1>1. IInv => EventsAnswered
    <2> SUFFICES ASSUME IInv, NEW t \in Tasks,
                        task[t].pc = "done", task[t].ids, delivered[t[1]] = <<>>
                 PROVE  task[t].thrown = IF task[t].output = "none" THEN 1 ELSE 2
        BY DEF EventsAnswered
    <2>1. task[t] # Idle
        BY DEF Idle
    <2> QED
        BY <2>1 DEF IInv, PhaseInv, Phase
<1> QED
    BY <1>1, Inductive, PTL

(* Any number of activations that find the port closed start one gateway   *)
(* while the latch is set.                                                 *)
THEOREM StartsOnce == Spec => []OneStartPerLatch
<1>1. IInv => OneStartPerLatch
    BY DEF IInv
<1> QED
    BY <1>1, Inductive, PTL
=============================================================================

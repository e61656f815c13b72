--------------------------- MODULE UpstreamClient ---------------------------
(***************************************************************************)
(* UpstreamClient (upstream/context_store_client.py), which owns the       *)
(* subprocess of the context store, and the lifespan of app.py that starts *)
(* and stops it around the serving of requests.                            *)
(*                                                                         *)
(* The lifespan is one coroutine; phase is the await it is suspended on.   *)
(* Every start makes a new transport (the subprocess) and a new session    *)
(* over it; both are named by the number of that start.  Tool calls run in *)
(* tasks of their own beside it.                                           *)
(*                                                                         *)
(* An await of start or stop may end normally, by an Exception (the        *)
(* subprocess cannot be started, dies or answers nonsense) or by the       *)
(* cancellation of the lifespan's task, which is no Exception: no except   *)
(* clause of this code sees it.                                            *)
(***************************************************************************)
EXTENDS Naturals

CONSTANTS
    Calls,      \* tool calls
    MaxLives    \* bound of the model: how often the application is started

VARIABLES
    phase,        \* where the lifespan is
    life,         \* the number of the latest start
    transports,   \* transports that were entered and not exited: subprocesses
    sessions,     \* sessions that were entered and whose exit has not begun
    session,      \* _session (_started is session # None)
    transport,    \* _stdio_ctx
    toolsCache,   \* _tools_cache: the life whose tools it holds
    tools,        \* ToolRegistry._all, likewise
    listening,    \* the server accepts requests
    interrupted,  \* history: the lives whose start or stop was cancelled
    calls         \* calls[c]: the session that c was sent to, None, or Over

vars == <<phase, life, transports, sessions, session, transport, toolsCache,
          tools, listening, interrupted, calls>>

None == 0
Over == MaxLives + 1
Lives == 1 .. MaxLives

Init ==
    /\ phase = "down"
    /\ life = 0
    /\ transports = {}
    /\ sessions = {}
    /\ session = None
    /\ transport = None
    /\ toolsCache = None
    /\ tools = None
    /\ listening = FALSE
    /\ interrupted = {}
    /\ calls = [c \in Calls |-> None]

Go(next) == phase' = next

fields == <<session, transport, toolsCache>>
server == <<tools, listening, interrupted, calls>>

-----------------------------------------------------------------------------
(* start(), up to the entry of the transport.                              *)
Start ==
    /\ phase = "down"
    /\ ~listening
    /\ life < MaxLives
    /\ life' = life + 1
    /\ toolsCache' = None
    /\ Go("entering")
    /\ UNCHANGED <<transports, sessions, session, transport, server>>

EnterTransport ==
    /\ phase = "entering"
    /\ \/ transports' = transports \cup {life} /\ Go("opening")
       \/ UNCHANGED transports /\ Go("down")
    /\ UNCHANGED <<life, sessions, fields, server>>

EnterSession ==
    /\ phase = "opening"
    /\ \/ sessions' = sessions \cup {life} /\ Go("initializing")
       \/ UNCHANGED sessions /\ Go("undoTransport")
    /\ UNCHANGED <<life, transports, fields, server>>

(* There is no time limit on initialize.                                   *)
Initialize ==
    /\ phase = "initializing"
    /\ session' = life
    /\ transport' = life
    /\ Go("listing")
    /\ UNCHANGED <<life, transports, sessions, toolsCache, server>>

InitializeFails ==
    /\ phase = "initializing"
    /\ sessions' = sessions \ {life}
    /\ Go("undoSession")
    /\ UNCHANGED <<life, transports, fields, server>>

(* The rollback: what an exit raises is logged, and the next one follows.  *)
UndoSession ==
    /\ phase = "undoSession"
    /\ Go("undoTransport")
    /\ UNCHANGED <<life, transports, sessions, fields, server>>

UndoTransport ==
    /\ phase = "undoTransport"
    /\ transports' = transports \ {life}
    /\ session' = None
    /\ transport' = None
    /\ Go("down")
    /\ UNCHANGED <<life, sessions, toolsCache, server>>

-----------------------------------------------------------------------------
(* Mutant: the fields are cleared when all is closed, not before.          *)
StopKeepingFields ==
    /\ sessions' = sessions \ {session}
    /\ Go("exitSession")
    /\ UNCHANGED <<life, transports, fields, tools, calls>>

(* stop(), up to the exit of the session: the fields are cleared first.    *)
Stop ==
    /\ session' = None
    /\ transport' = None
    /\ toolsCache' = None
    /\ sessions' = sessions \ {session}
    /\ Go("exitSession")
    /\ UNCHANGED <<life, transports, tools, calls>>

(* The lifespan asks for the tools, and the server opens once it has them. *)
ListTools ==
    /\ phase = "listing"
    /\ toolsCache' = IF toolsCache = None THEN session ELSE toolsCache
    /\ tools' = toolsCache'
    /\ listening' = TRUE
    /\ Go("serving")
    /\ UNCHANGED <<life, transports, sessions, session, transport, interrupted, calls>>

ListToolsFails ==
    /\ phase = "listing"
    /\ Stop
    /\ UNCHANGED <<listening, interrupted>>

(* The server closes.  If the lifespan has ended early it only does that.  *)
Shutdown ==
    /\ listening
    /\ listening' = FALSE
    /\ IF phase = "serving" THEN Stop
       ELSE UNCHANGED <<phase, life, transports, sessions, fields, tools, calls>>
    /\ UNCHANGED interrupted

(* Mutant: what the exit of the session raises ends stop.                  *)
ExitSessionOrRaise ==
    /\ phase = "exitSession"
    /\ Go("exitTransport") \/ Go("down")
    /\ UNCHANGED <<life, transports, sessions, fields, server>>

ExitSession ==
    /\ phase = "exitSession"
    /\ Go("exitTransport")
    /\ UNCHANGED <<life, transports, sessions, fields, server>>

ExitTransport ==
    /\ phase = "exitTransport"
    /\ transports' = transports \ {life}
    /\ Go("down")
    /\ UNCHANGED <<life, sessions, fields, server>>

-----------------------------------------------------------------------------
(* The task of the lifespan is cancelled, for one by the MCP library, when *)
(* a background task of the transport that was entered in it fails.        *)
(* Before or after stop, the finally clause of the lifespan stops the      *)
(* client, and a server that was open stays open.                          *)
CancelServing ==
    /\ phase \in {"listing", "serving"}
    /\ Stop
    /\ UNCHANGED <<listening, interrupted>>

(* Within start or stop the rest of them is skipped, rollback included.  A *)
(* transport whose own entry or exit is cancelled may or may not be left.  *)
CancelStartOrStop ==
    /\ phase \notin {"down", "listing", "serving"}
    /\ interrupted' = interrupted \cup {life}
    /\ sessions' = sessions \ {life}
    /\ \/ UNCHANGED transports
       \/ /\ phase \in {"undoTransport", "exitTransport"}
          /\ transports' = transports \ {life}
    /\ Go("down")
    /\ UNCHANGED <<life, fields, tools, listening, calls>>

-----------------------------------------------------------------------------
(* call_tool: without a session an UpstreamError at once, else it waits.   *)
CallTool(c) ==
    /\ calls[c] = None
    /\ calls' = [calls EXCEPT ![c] = IF session = None THEN Over ELSE session]
    /\ UNCHANGED <<phase, life, transports, sessions, fields, tools, listening,
                   interrupted>>

EndCall(c) ==
    /\ calls[c] \in Lives
    /\ calls' = [calls EXCEPT ![c] = Over]
    /\ UNCHANGED <<phase, life, transports, sessions, fields, tools, listening,
                   interrupted>>

(* The session returns a result, an error result, or raises.               *)
CallReturns(c) == EndCall(c)

(* Mutant: the time out is left to the session.                            *)
CallTimesOutIfOpen(c) == calls[c] \in sessions /\ EndCall(c)

(* asyncio.wait_for over get_timeout, which is never without a limit.      *)
CallTimesOut(c) == EndCall(c)

LifespanStep ==
    \/ Start
    \/ EnterTransport
    \/ EnterSession
    \/ Initialize
    \/ InitializeFails
    \/ UndoSession
    \/ UndoTransport
    \/ ListTools
    \/ ListToolsFails
    \/ Shutdown
    \/ ExitSession
    \/ ExitTransport
    \/ CancelServing
    \/ CancelStartOrStop

-----------------------------------------------------------------------------
(* No subprocess is left behind: when the lifespan is over, however it     *)
(* failed or ended, every transport it entered has been exited - unless    *)
(* the start or stop that owned it was itself cancelled.                   *)
SubprocessReaped == phase = "down" => transports \subseteq interrupted

(* Whoever reads _session, at any moment, gets a session that is open over *)
(* a running transport, never one that is being closed; and while requests *)
(* are served by a running lifespan, the tools on offer are that session's.*)
SessionInUseIsOpen ==
    /\ session # None =>
          session \in sessions /\ transport = session /\ transport \in transports
    /\ phase = "serving" => session = life /\ tools = life
=============================================================================

---------------------------- MODULE ChronosGate ----------------------------
(***************************************************************************)
(* The process (__main__.py): "run", the default, serves HTTP; "evaluate"  *)
(* answers one call from the command line.                                 *)
(*                                                                         *)
(* Serving is the lifespan of app.py with its upstream client, and the     *)
(* POST requests behind the body limit, some of which call the upstream.   *)
(* What their handlers decide is GatewayCalls; here a handler that has its *)
(* body answers, or calls the upstream and answers then.                   *)
(*                                                                         *)
(* The server is uvicorn: it closes the listening socket and lets every    *)
(* request that has come end before it ends the lifespan.                  *)
(***************************************************************************)
EXTENDS Naturals

CONSTANTS
    Requests, Limit, InnerLimit, MaxMessage,   \* MaxBodySize
    MaxLives                                   \* UpstreamClient

ASSUME ProcessAssumption ==
    /\ Limit \in Nat
    /\ InnerLimit \in Nat
    /\ MaxMessage \in Nat
    /\ MaxLives \in Nat \ {0}

VARIABLES
    command,     \* what the process was told to do
    req,         \* MaxBodySize
    phase, life, transports, sessions, session, transport, toolsCache, tools,
    listening, interrupted, calls,                       \* UpstreamClient
    pc, narrow, config, decision, why, reply, stdout, code, stopped  \* CommandLine

Body == INSTANCE MaxBodySize
Upstream == INSTANCE UpstreamClient WITH Calls <- Requests
Cli == INSTANCE CommandLine WITH interrupted <- stopped

upstreamVars == <<phase, life, transports, sessions, session, transport,
                  toolsCache, tools, listening, interrupted, calls>>
cliVars == <<pc, narrow, config, decision, why, reply, stdout, code, stopped>>
vars == <<command, req, upstreamVars, cliVars>>

Init ==
    /\ command = "none"
    /\ Body!Init
    /\ Upstream!Init
    /\ Cli!Init

(* main: "refused" is a command line that argparse turns down, or settings *)
(* that the application cannot be built from.                              *)
Dispatch ==
    /\ command = "none"
    /\ command' \in {"run", "evaluate", "refused"}
    /\ UNCHANGED <<req, upstreamVars, cliVars>>

Serving == command = "run" /\ UNCHANGED <<command, cliVars>>

-----------------------------------------------------------------------------
Arrive(r) ==
    /\ listening
    /\ \E kind \in Body!Kinds, declared \in Body!Declarations :
          Body!Arrive(r, kind, declared)
    /\ UNCHANGED upstreamVars

ReadBody(r) ==
    /\ Body!ClientStep(r) \/ Body!HandlerStep(r)
    /\ UNCHANGED upstreamVars

(* A request that is answered without the upstream.                        *)
Answer(r) == Body!Handle(r) /\ UNCHANGED upstreamVars

(* tools/call: an upstream that is not started is an error at once.        *)
CallTool(r) ==
    /\ Upstream!CallTool(r)
    /\ IF session = Upstream!None
       THEN req[r].kind = "messages" /\ Body!Handle(r)
       ELSE Body!HandleByCalling(r)

CallEnds(r) ==
    /\ Upstream!CallReturns(r) \/ Upstream!CallTimesOut(r)
    /\ Body!Return(r)

Drained == \A r \in Requests : req[r].pc \in {"new", "done"}

Lifespan ==
    /\ Upstream!LifespanStep
    /\ listening /\ ~listening' => Drained
    /\ UNCHANGED req

Next ==
    \/ Dispatch
    \/ Serving /\ Lifespan
    \/ \E r \in Requests :
          \/ Serving /\ Arrive(r)
          \/ Serving /\ ReadBody(r)
          \/ Serving /\ Answer(r)
          \/ Serving /\ CallTool(r)
          \/ Serving /\ CallEnds(r)
    \/ /\ command = "evaluate"
       /\ Cli!Next
       /\ UNCHANGED <<command, req, upstreamVars>>

(* The event loop runs a handler that is not suspended, and asyncio's timer *)
(* ends the wait for the upstream.  Nothing is asked of clients or of the   *)
(* upstream.                                                               *)
HandlerRuns(r) ==
    Serving /\ ((Body!HandlerStep(r) /\ UNCHANGED upstreamVars) \/ Answer(r) \/ CallTool(r))

TimerFires(r) == Serving /\ Upstream!CallTimesOut(r) /\ Body!Return(r)

Fairness == \A r \in Requests : WF_vars(HandlerRuns(r)) /\ WF_vars(TimerFires(r))

Spec == Init /\ [][Next]_vars /\ Fairness

-----------------------------------------------------------------------------
(* UpstreamClient, MaxBodySize and CommandLine explain these.              *)
SubprocessReaped == Upstream!SubprocessReaped
SessionInUseIsOpen == Upstream!SessionInUseIsOpen
SizeVerdictsRight == Body!SizeVerdictsRight
OutputMatchesExit == Cli!OutputMatchesExit
RepliesHonoured == Cli!RepliesHonoured

(* A request whose client has sent its body is answered whatever becomes   *)
(* of the upstream: while its session is being closed, after the lifespan  *)
(* has been cancelled, or when the subprocess no longer answers.           *)
RequestsAnswered ==
    \A r \in Requests :
        (req[r].pc \in {"handling", "read", "calling"}) ~>
            (req[r].pc \in {"reading", "done"})
=============================================================================

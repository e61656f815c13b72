----------------------------- MODULE SseEndpoint -----------------------------
(***************************************************************************)
(* GET /sse (server.py, _handle_sse): a handshake that passes creates a    *)
(* session and answers with an event stream.  The stream only watches its  *)
(* client: it neither keeps the session alive nor looks at it.  Refused    *)
(* handshakes (401, 403) change nothing and are left out.                  *)
(***************************************************************************)
EXTENDS SessionRegistry

VARIABLES
    connected,   \* sessions whose client holds its end of the stream
    stream       \* stream[s]: event_stream(), "none" until the response starts

sseVars == <<sessionVars, connected, stream>>

SseInit ==
    /\ Init
    /\ connected = {}
    /\ stream = [s \in Sessions |-> "none"]

Handshake(s) ==
    /\ Create(s)
    /\ connected' = connected \cup {s}
    /\ UNCHANGED stream

Disconnect(s) ==
    /\ s \in connected
    /\ connected' = connected \ {s}
    /\ UNCHANGED <<sessionVars, stream>>

(* The response starts: the endpoint event is sent.                        *)
StartStream(s) ==
    /\ s \in created
    /\ stream[s] = "none"
    /\ stream' = [stream EXCEPT ![s] = "open"]
    /\ UNCHANGED <<sessionVars, connected>>

(* One turn of the keep-alive loop finds the client gone.  A turn that     *)
(* finds it there changes nothing.                                         *)
LeaveLoop(s) ==
    /\ stream[s] = "open"
    /\ s \notin connected
    /\ stream' = [stream EXCEPT ![s] = "closed"]
    /\ UNCHANGED <<sessionVars, connected>>

(* What happens to the sessions on behalf of other requests: POST /messages*)
(* looks its session up and touches it, and that is all the gateway calls. *)
OtherRequests ==
    /\ \/ Tick
       \/ \E s \in Sessions : Lookup(s) \/ Touch(s) \/ RunHook(s)
    /\ UNCHANGED <<connected, stream>>

(* The methods of the registry that only its tests call.                   *)
UncalledStep ==
    /\ \/ Purge
       \/ \E s \in Sessions : Remove(s)
    /\ UNCHANGED <<connected, stream>>

GatewayNext ==
    \/ OtherRequests
    \/ \E s \in Sessions :
          Handshake(s) \/ Disconnect(s) \/ StartStream(s) \/ LeaveLoop(s)

SseNext == GatewayNext \/ UncalledStep

(* The server sends its response and runs its loop; clients owe nothing.   *)
SseFairness ==
    \A s \in Sessions : WF_sseVars(StartStream(s)) /\ WF_sseVars(LeaveLoop(s))

SseSpec == SseInit /\ [][SseNext]_sseVars /\ SseFairness

(* The gateway as it is, where every eviction is that of a session that a  *)
(* request found expired.                                                  *)
GatewaySpec == SseInit /\ [][GatewayNext]_sseVars /\ SseFairness

-----------------------------------------------------------------------------
(* A session's activity is never later than the instant of its expiry, and *)
(* a refresh never bridges a gap as long as the idle timeout: from one     *)
(* step to the next a session that stays alive was not idle for too long.  *)
NoRefreshAfterGap ==
    [][\A s \in Live \cap DOMAIN records' :
          lastActive'[s] # lastActive[s] =>
              /\ lastActive'[s] - lastActive[s] < Idle
              /\ lastActive'[s] < records[s].expires]_sseVars

(* auth/session.py:3-5 says of expiry that "TTL / idle-timeout failures    *)
(* all surface as SessionError so the HTTP layer can return a uniform 404  *)
(* + close the SSE stream": once a request has found a session past its    *)
(* ttl or idle timeout and evicted it, its stream closes.  A property of   *)
(* GatewaySpec, in which no session is evicted before its time.            *)
EvictionClosesStream ==
    \A s \in Sessions :
        (s \in created \ Live) ~> (stream[s] = "closed")
=============================================================================

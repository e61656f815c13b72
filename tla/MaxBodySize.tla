----------------------------- MODULE MaxBodySize -----------------------------
(***************************************************************************)
(* MaxBodySizeMiddleware (middleware.py) and the reading of bodies by the  *)
(* POST handlers (server.py) behind it.                                    *)
(*                                                                         *)
(* A body comes in messages of some size, the last of which says so, or    *)
(* ends with the disconnection of the client.  With a Content-Length the   *)
(* middleware counts what the handler reads; without one it reads the body *)
(* itself, before the handler starts, and replays it.  The two must agree. *)
(*                                                                         *)
(* The server need not hold a body to its Content-Length (a transfer       *)
(* encoding takes precedence), so that the sizes are independent here.     *)
(***************************************************************************)
EXTENDS Naturals

CONSTANTS
    Requests,     \* POST requests
    Limit,        \* max_request_body_size_bytes
    InnerLimit,   \* the limit of POST /approvals on its own body
    MaxMessage    \* bound of the model: the size of the largest message

VARIABLE req    \* req[r]: the request, what was read of it, how it ended

(* "messages" stands for POST /evaluate too, which reads its body alike.   *)
Kinds == {"messages", "approvals"}

(* What Content-Length says: nothing; twice, negative or no number; a size.*)
Declarations == {"absent", "malformed", "over", "within"}

(* "dropped" is a request whose client left before its body was read.      *)
Responses == {"bad_request", "too_large", "refused", "handled", "dropped"}

NotYet == [pc |-> "new", kind |-> "messages", declared |-> "absent", got |-> 0,
           whole |-> FALSE, response |-> "none"]

Init == req = [r \in Requests |-> NotYet]

At(r, pc) == req[r].pc = pc

Ended(rec, response) == [rec EXCEPT !.pc = "done", !.response = response]

Put(r, rec) == req' = [req EXCEPT ![r] = rec]

(* Mutant: a body of exactly the limit is too large.                       *)
ReachesLimit(n) == n >= Limit

ExceedsLimit(n) == n > Limit

-----------------------------------------------------------------------------
(* __call__ and the header checks of both paths.                           *)
Arrive(r, kind, declared) ==
    LET rec == [req[r] EXCEPT !.kind = kind, !.declared = declared]
    IN  /\ At(r, "new")
        /\ Put(r, CASE declared = "malformed" -> Ended(rec, "bad_request")
                    [] declared = "over"      -> Ended(rec, "too_large")
                    [] declared = "within"    -> [rec EXCEPT !.pc = "handling"]
                    [] declared = "absent"    -> [rec EXCEPT !.pc = "buffering"])

(* The next message of the body.                                           *)
Read(r, size, last) == [req[r] EXCEPT !.got = @ + size, !.whole = last]

(* Without a Content-Length: the loop that fills the buffer.               *)
Buffer(r, size, last) ==
    LET rec == Read(r, size, last)
    IN  /\ At(r, "buffering")
        /\ Put(r, IF ExceedsLimit(rec.got) THEN Ended(rec, "too_large")
                  ELSE IF last THEN [rec EXCEPT !.pc = "handling"]
                  ELSE rec)

BufferDisconnect(r) ==
    /\ At(r, "buffering")
    /\ Put(r, [req[r] EXCEPT !.pc = "handling"])

(* _parse_approval_body gives up on its own, lower limit.                  *)
TooLargeForHandler(rec) == rec.kind = "approvals" /\ rec.got > InnerLimit

(* The handler turns the request away by its headers or its session, with  *)
(* the body unread.                                                        *)
Refuse(r) ==
    /\ At(r, "handling")
    /\ Put(r, Ended(req[r], "refused"))

(* Mutant: a body that breaks off is taken for a whole one.                *)
ReplayBrokenOff(r) ==
    /\ At(r, "handling")
    /\ req[r].declared = "absent"
    /\ Put(r, IF TooLargeForHandler(req[r]) THEN Ended(req[r], "too_large")
              ELSE [req[r] EXCEPT !.pc = "read"])

(* The handler reads the body: from the buffer without waiting, ...        *)
Replay(r) ==
    /\ At(r, "handling")
    /\ req[r].declared = "absent"
    /\ Put(r, IF TooLargeForHandler(req[r]) THEN Ended(req[r], "too_large")
              ELSE IF ~req[r].whole THEN Ended(req[r], "dropped")
              ELSE [req[r] EXCEPT !.pc = "read"])

(* ... or from the client.                                                 *)
BeginToRead(r) ==
    /\ At(r, "handling")
    /\ req[r].declared = "within"
    /\ Put(r, [req[r] EXCEPT !.pc = "reading"])

(* wrapped_receive raises through the handler before the handler sees the  *)
(* message; the middleware answers, since no response has begun.           *)
Stream(r, size, last) ==
    LET rec == Read(r, size, last)
    IN  /\ At(r, "reading")
        /\ Put(r, IF ExceedsLimit(rec.got) \/ TooLargeForHandler(rec)
                  THEN Ended(rec, "too_large")
                  ELSE IF last THEN [rec EXCEPT !.pc = "read"]
                  ELSE rec)

StreamDisconnect(r) ==
    /\ At(r, "reading")
    /\ Put(r, Ended(req[r], "dropped"))

(* The handler has the body: it answers, or calls the upstream first.      *)
Handle(r) ==
    /\ At(r, "read")
    /\ Put(r, Ended(req[r], "handled"))

HandleByCalling(r) ==
    /\ At(r, "read")
    /\ req[r].kind = "messages"
    /\ Put(r, [req[r] EXCEPT !.pc = "calling"])

Return(r) ==
    /\ At(r, "calling")
    /\ Put(r, Ended(req[r], "handled"))

ClientStep(r) ==
    \/ \E size \in 0 .. MaxMessage, last \in BOOLEAN :
          Buffer(r, size, last) \/ Stream(r, size, last)
    \/ BufferDisconnect(r)
    \/ StreamDisconnect(r)

HandlerStep(r) == Refuse(r) \/ Replay(r) \/ BeginToRead(r)

-----------------------------------------------------------------------------
(* A handler acts only on a whole body within the limits, whichever way it *)
(* came and in whatever pieces; and a body is refused as too large only if *)
(* it, or what is declared of it, exceeds a limit that applies to it.      *)
SizeVerdictsRight ==
    \A r \in Requests :
        LET rec == req[r]
        IN  /\ rec.pc \in {"read", "calling"} \/ rec.response = "handled" =>
                  /\ rec.whole
                  /\ rec.declared \in {"absent", "within"}
                  /\ rec.got <= Limit
                  /\ rec.kind = "approvals" => rec.got <= InnerLimit
            /\ rec.response = "too_large" =>
                  \/ rec.declared = "over"
                  \/ rec.got > Limit
                  \/ rec.kind = "approvals" /\ rec.got > InnerLimit
=============================================================================

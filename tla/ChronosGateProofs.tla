-------------------------- MODULE ChronosGateProofs --------------------------
(***************************************************************************)
(* Proofs about ChronosGate, for any number of requests and starts of the  *)
(* application and any limits.  Each part of the process has an inductive  *)
(* invariant of its own, over its own variables.                           *)
(***************************************************************************)
EXTENDS ChronosGate, SequenceTheorems, TLAPS

-----------------------------------------------------------------------------
(* Where the lifespan is says what it has entered and what the fields are. *)
LifespanInv ==
    /\ life \in Nat
    /\ phase # "down" => life # Upstream!None
    /\ \A t \in transports :
          t \in interrupted \/ (t = life /\ phase \notin {"down", "entering"})
    /\ phase \in {"opening", "initializing", "listing", "serving"} => life \in transports
    /\ phase \in {"initializing", "listing", "serving"} => life \in sessions
    /\ phase \in {"entering", "opening", "initializing", "listing"} => toolsCache = Upstream!None
    /\ IF phase \in {"listing", "serving"} THEN session = life /\ transport = life
                                           ELSE session = Upstream!None
    /\ phase = "serving" => tools = life

(* Every step of the lifespan keeps it.                                    *)
LEMMA LifespanKeeps ==
    ASSUME LifespanInv, Upstream!LifespanStep
    PROVE  LifespanInv'
<1> USE DEF LifespanInv, Upstream!Go, Upstream!None, Upstream!fields, Upstream!server
<1>1. CASE Upstream!Start
  BY <1>1 DEF Upstream!Start
<1>2. CASE Upstream!EnterTransport
  BY <1>2 DEF Upstream!EnterTransport
<1>3. CASE Upstream!EnterSession
  BY <1>3 DEF Upstream!EnterSession
<1>4. CASE Upstream!Initialize
  BY <1>4 DEF Upstream!Initialize
<1>5. CASE Upstream!InitializeFails
  BY <1>5 DEF Upstream!InitializeFails
<1>6. CASE Upstream!UndoSession
  BY <1>6 DEF Upstream!UndoSession
<1>7. CASE Upstream!UndoTransport
  BY <1>7 DEF Upstream!UndoTransport
<1>8. CASE Upstream!ListTools
  BY <1>8 DEF Upstream!ListTools
<1>9. CASE Upstream!ListToolsFails
  BY <1>9 DEF Upstream!ListToolsFails, Upstream!Stop
<1>10. CASE Upstream!Shutdown
  BY <1>10 DEF Upstream!Shutdown, Upstream!Stop
<1>11. CASE Upstream!ExitSession
  BY <1>11 DEF Upstream!ExitSession
<1>12. CASE Upstream!ExitTransport
  BY <1>12 DEF Upstream!ExitTransport
<1>13. CASE Upstream!CancelServing
  BY <1>13 DEF Upstream!CancelServing, Upstream!Stop
<1>14. CASE Upstream!CancelStartOrStop
  BY <1>14 DEF Upstream!CancelStartOrStop
<1> QED  BY <1>1, <1>2, <1>3, <1>4, <1>5, <1>6, <1>7, <1>8, <1>9, <1>10, <1>11,
            <1>12, <1>13, <1>14 DEF Upstream!LifespanStep

-----------------------------------------------------------------------------
(* What holds of the record of a request, by where it is.  A body that is  *)
(* still being read into the buffer, or was, is within the limit.          *)
RequestInv(rec) ==
    /\ rec \in [pc : {"new", "buffering", "handling", "reading", "read", "calling", "done"},
                kind : Body!Kinds, declared : Body!Declarations, got : Nat,
                whole : BOOLEAN, response : Body!Responses \cup {"none"}]
    /\ rec.pc # "done" => rec.response = "none"
    /\ rec.pc = "new" => rec.got = 0
    /\ rec.pc = "buffering" => rec.declared = "absent"
    /\ rec.pc \in {"handling", "reading", "read", "calling"} =>
          rec.declared \in {"absent", "within"}
    /\ rec.pc = "reading" => rec.declared = "within"
    /\ rec.pc \in {"buffering", "handling"} /\ rec.declared = "absent" => rec.got <= Limit
    /\ rec.pc \in {"read", "calling"} \/ rec.response = "handled" =>
          /\ rec.whole
          /\ rec.declared \in {"absent", "within"}
          /\ rec.got <= Limit
          /\ rec.kind = "approvals" => rec.got <= InnerLimit
    /\ rec.response = "too_large" =>
          \/ rec.declared = "over"
          \/ rec.got > Limit
          \/ rec.kind = "approvals" /\ rec.got > InnerLimit

BodyInv ==
    /\ req = [r \in Requests |-> req[r]]
    /\ \A r \in Requests : RequestInv(req[r])

(* It is enough to look at the request that a step is about.               *)
LEMMA PutKeeps ==
    ASSUME BodyInv, NEW r \in Requests, NEW rec, RequestInv(rec), Body!Put(r, rec)
    PROVE  BodyInv'
<1>1. req' = [req EXCEPT ![r] = rec]
  BY DEF Body!Put
<1>2. ASSUME NEW q \in Requests  PROVE RequestInv(req'[q])
  <2>1. req'[q] = IF q = r THEN rec ELSE req[q]
    BY <1>1 DEF BodyInv
  <2> QED  BY <2>1 DEF BodyInv
<1>3. req' = [q \in Requests |-> req'[q]]
  BY <1>1 DEF BodyInv
<1>4. \A q \in Requests : RequestInv(req[q])'
  BY <1>2 DEF RequestInv
<1> QED  BY <1>3, <1>4 DEF BodyInv

(* What reading a message changes.                                         *)
LEMMA ReadLemma ==
    ASSUME NEW r \in Requests, RequestInv(req[r]),
           NEW size \in 0 .. MaxMessage, NEW last \in BOOLEAN
    PROVE  LET rec == Body!Read(r, size, last)
           IN  /\ rec \in [pc : {req[r].pc}, kind : {req[r].kind},
                           declared : {req[r].declared}, got : Nat,
                           whole : {last}, response : {req[r].response}]
<1> DEFINE old == req[r]
<1>1. /\ old \in [pc : {old.pc}, kind : {old.kind}, declared : {old.declared}, got : Nat,
                  whole : BOOLEAN, response : {old.response}]
      /\ old.got + size \in Nat
  BY ProcessAssumption DEF RequestInv
<1>2. Body!Read(r, size, last) = [old EXCEPT !.got = old.got + size, !.whole = last]
  BY DEF Body!Read
<1> HIDE DEF old
<1> QED  BY <1>1, <1>2 DEF old

(* Every step of a request keeps it.                                       *)
LEMMA BodyKeeps ==
    ASSUME BodyInv, NEW r \in Requests,
           \/ \E kind \in Body!Kinds, declared \in Body!Declarations :
                 Body!Arrive(r, kind, declared)
           \/ Body!ClientStep(r)
           \/ Body!HandlerStep(r)
           \/ Body!Handle(r)
           \/ Body!HandleByCalling(r)
           \/ Body!Return(r)
    PROVE  BodyInv'
<1> DEFINE old == req[r]
<1>0. RequestInv(old)
  BY DEF BodyInv
<1> USE <1>0 DEF Body!At, Body!Ended, Body!Responses, Body!Kinds, Body!Declarations
<1>1. ASSUME NEW kind \in Body!Kinds, NEW declared \in Body!Declarations,
             Body!Arrive(r, kind, declared)
      PROVE  BodyInv'
  <2> DEFINE rec == [old EXCEPT !.kind = kind, !.declared = declared]
  <2>1. old.pc = "new"
    BY <1>1 DEF Body!Arrive
  <2>2. CASE declared = "malformed"
    <3>1. RequestInv(Body!Ended(rec, "bad_request"))
      BY <2>1, <2>2 DEF RequestInv
    <3> QED  BY <1>1, <2>2, <3>1, PutKeeps DEF Body!Arrive
  <2>3. CASE declared = "over"
    <3>1. RequestInv(Body!Ended(rec, "too_large"))
      BY <2>1, <2>3 DEF RequestInv
    <3> QED  BY <1>1, <2>3, <3>1, PutKeeps DEF Body!Arrive
  <2>4. CASE declared = "within"
    <3>1. RequestInv([rec EXCEPT !.pc = "handling"])
      BY <2>1, <2>4 DEF RequestInv
    <3> QED  BY <1>1, <2>4, <3>1, PutKeeps DEF Body!Arrive
  <2>5. CASE declared = "absent"
    <3>1. old.got = 0 /\ 0 <= Limit
      BY <2>1, ProcessAssumption DEF RequestInv
    <3>2. RequestInv([rec EXCEPT !.pc = "buffering"])
      BY <2>1, <2>5, <3>1 DEF RequestInv
    <3> QED  BY <1>1, <2>5, <3>2, PutKeeps DEF Body!Arrive
  <2> QED  BY <2>2, <2>3, <2>4, <2>5
<1>2. ASSUME NEW size \in 0 .. MaxMessage, NEW last \in BOOLEAN, Body!Buffer(r, size, last)
      PROVE  BodyInv'
  <2> DEFINE rec == Body!Read(r, size, last)
  <2>1. old.pc = "buffering" /\ old.declared = "absent" /\ old.response = "none"
    BY <1>2 DEF Body!Buffer, RequestInv
  <2>2. rec \in [pc : {"buffering"}, kind : {old.kind}, declared : {"absent"}, got : Nat,
                 whole : {last}, response : {"none"}]
    BY <2>1, ReadLemma
  <2>3. old.kind \in Body!Kinds
    BY DEF RequestInv
  <2> HIDE DEF rec
  <2>4. CASE rec.got > Limit
    <3>1. RequestInv(Body!Ended(rec, "too_large"))
      BY <2>2, <2>3, <2>4, ProcessAssumption DEF RequestInv
    <3> QED  BY <1>2, <2>4, <3>1, PutKeeps DEF Body!Buffer, Body!ExceedsLimit, rec
  <2>5. CASE ~(rec.got > Limit) /\ last
    <3>1. rec.got \in Nat /\ rec.got <= Limit
      BY <2>2, <2>5, ProcessAssumption
    <3>2. RequestInv([rec EXCEPT !.pc = "handling"])
      BY <2>2, <2>3, <2>5, <3>1 DEF RequestInv
    <3> QED  BY <1>2, <2>5, <3>2, PutKeeps DEF Body!Buffer, Body!ExceedsLimit, rec
  <2>6. CASE ~(rec.got > Limit) /\ ~last
    <3>1. RequestInv(rec)
      BY <2>2, <2>3, <2>6, ProcessAssumption DEF RequestInv
    <3> QED  BY <1>2, <2>6, <3>1, PutKeeps DEF Body!Buffer, Body!ExceedsLimit, rec
  <2> QED  BY <2>4, <2>5, <2>6
<1>3. ASSUME NEW size \in 0 .. MaxMessage, NEW last \in BOOLEAN, Body!Stream(r, size, last)
      PROVE  BodyInv'
  <2> DEFINE rec == Body!Read(r, size, last)
             over == rec.got > Limit \/ (rec.kind = "approvals" /\ rec.got > InnerLimit)
  <2>1. old.pc = "reading" /\ old.declared = "within" /\ old.response = "none"
    BY <1>3 DEF Body!Stream, RequestInv
  <2>2. rec \in [pc : {"reading"}, kind : {old.kind}, declared : {"within"}, got : Nat,
                 whole : {last}, response : {"none"}]
    BY <2>1, ReadLemma
  <2>3. old.kind \in Body!Kinds
    BY DEF RequestInv
  <2> HIDE DEF rec
  <2>4. CASE over
    <3>1. RequestInv(Body!Ended(rec, "too_large"))
      BY <2>2, <2>3, <2>4, ProcessAssumption DEF RequestInv
    <3> QED
      BY <1>3, <2>4, <3>1, PutKeeps
      DEF Body!Stream, Body!ExceedsLimit, Body!TooLargeForHandler, rec
  <2>5. CASE ~over /\ last
    <3>1. /\ rec.got \in Nat
          /\ rec.got <= Limit
          /\ rec.kind = "approvals" => rec.got <= InnerLimit
      BY <2>2, <2>5, ProcessAssumption
    <3>2. RequestInv([rec EXCEPT !.pc = "read"])
      BY <2>2, <2>3, <2>5, <3>1 DEF RequestInv
    <3> QED
      BY <1>3, <2>5, <3>2, PutKeeps
      DEF Body!Stream, Body!ExceedsLimit, Body!TooLargeForHandler, rec
  <2>6. CASE ~over /\ ~last
    <3>1. RequestInv(rec)
      BY <2>2, <2>3, <2>6, ProcessAssumption DEF RequestInv
    <3> QED
      BY <1>3, <2>6, <3>1, PutKeeps
      DEF Body!Stream, Body!ExceedsLimit, Body!TooLargeForHandler, rec
  <2> QED  BY <2>4, <2>5, <2>6
<1>4. CASE Body!BufferDisconnect(r)
  <2>1. RequestInv([old EXCEPT !.pc = "handling"])
    BY <1>4 DEF Body!BufferDisconnect, RequestInv
  <2> QED  BY <1>4, <2>1, PutKeeps DEF Body!BufferDisconnect
<1>5. CASE Body!StreamDisconnect(r)
  <2>1. RequestInv(Body!Ended(old, "dropped"))
    BY <1>5 DEF Body!StreamDisconnect, RequestInv
  <2> QED  BY <1>5, <2>1, PutKeeps DEF Body!StreamDisconnect
<1>6. CASE Body!Refuse(r)
  <2>1. RequestInv(Body!Ended(old, "refused"))
    BY <1>6 DEF Body!Refuse, RequestInv
  <2> QED  BY <1>6, <2>1, PutKeeps DEF Body!Refuse
<1>7. CASE Body!Replay(r)
  <2>1. CASE Body!TooLargeForHandler(old)
    <3>1. RequestInv(Body!Ended(old, "too_large"))
      BY <1>7, <2>1 DEF Body!Replay, RequestInv, Body!TooLargeForHandler
    <3> QED  BY <1>7, <2>1, <3>1, PutKeeps DEF Body!Replay
  <2>2. CASE ~Body!TooLargeForHandler(old) /\ ~old.whole
    <3>1. RequestInv(Body!Ended(old, "dropped"))
      BY <1>7 DEF Body!Replay, RequestInv
    <3> QED  BY <1>7, <2>2, <3>1, PutKeeps DEF Body!Replay
  <2>3. CASE ~Body!TooLargeForHandler(old) /\ old.whole
    <3>1. RequestInv([old EXCEPT !.pc = "read"])
      BY <1>7, <2>3, ProcessAssumption
      DEF Body!Replay, RequestInv, Body!TooLargeForHandler
    <3> QED  BY <1>7, <2>3, <3>1, PutKeeps DEF Body!Replay
  <2> QED  BY <2>1, <2>2, <2>3
<1>8. CASE Body!BeginToRead(r)
  <2>1. RequestInv([old EXCEPT !.pc = "reading"])
    BY <1>8 DEF Body!BeginToRead, RequestInv
  <2> QED  BY <1>8, <2>1, PutKeeps DEF Body!BeginToRead
<1>9. CASE Body!Handle(r)
  <2>1. RequestInv(Body!Ended(old, "handled"))
    BY <1>9 DEF Body!Handle, RequestInv
  <2> QED  BY <1>9, <2>1, PutKeeps DEF Body!Handle
<1>10. CASE Body!HandleByCalling(r)
  <2>1. RequestInv([old EXCEPT !.pc = "calling"])
    BY <1>10 DEF Body!HandleByCalling, RequestInv
  <2> QED  BY <1>10, <2>1, PutKeeps DEF Body!HandleByCalling
<1>11. CASE Body!Return(r)
  <2>1. RequestInv(Body!Ended(old, "handled"))
    BY <1>11 DEF Body!Return, RequestInv
  <2> QED  BY <1>11, <2>1, PutKeeps DEF Body!Return
<1> QED
  BY <1>1, <1>2, <1>3, <1>4, <1>5, <1>6, <1>7, <1>8, <1>9, <1>10, <1>11
  DEF Body!ClientStep, Body!HandlerStep

-----------------------------------------------------------------------------
(* What may be on stdout when the fallback is written, and with a line of  *)
(* the fallback, whole or begun, after that.                               *)
Before(out) ==
    \/ out = <<>>
    \/ out = <<Cli!Piece>> /\ (stopped \/ ~Cli!Encodable)
    \/ out = <<decision.verdict>> /\ stopped

After(out, line) ==
    \/ out = <<line>>
    \/ out = <<Cli!Piece, line>> /\ (stopped \/ ~Cli!Encodable)
    \/ out = <<decision.verdict, line>> /\ stopped

(* What stdout and the exit code are, by where the evaluation is.          *)
OutputInv ==
    /\ pc \in {"start", "input", "building", "evaluating", "judging", "writing", "text",
              "returning", "fallback", "fallbackText", "exited"}
    /\ pc # "exited" => code = Cli!Running
    /\ pc \in {"start", "input", "building", "evaluating", "judging", "writing"} =>
          stdout = <<>>
    /\ pc \in {"writing", "text", "returning"} => why # "nothing"
    /\ pc = "text" => stdout = <<Cli!Piece>>
    /\ pc = "returning" => stdout = <<decision.verdict>>
    /\ pc = "fallback" => Before(stdout)
    /\ pc = "fallbackText" => After(stdout, Cli!Piece)
    /\ pc = "exited" =>
          \/ code = 0 /\ stdout = <<decision.verdict>> /\ why # "nothing"
          \/ code = 2 /\ After(stdout, Cli!Fallback)
          \/ code = 130 /\ stopped /\ (Before(stdout) \/ After(stdout, Cli!Piece))

(* What a decision that may be printed rests on.                           *)
DecisionInv ==
    /\ config.fallback \in {"allow", "ask"}
    /\ pc \in {"start", "input", "building", "evaluating", "judging"} =>
          decision.verdict = "none"
    /\ decision.verdict = "allow" =>
          \/ why = "exempt"
          \/ why = "no_llm" /\ config.fallback = "allow"
          \/ reply.form = "object" /\ reply.decision = "allow"
          \/ reply.form = "text" /\ reply.says = "safe"
    /\ decision.verdict = "deny" =>
          \/ why = "policy"
          \/ reply.form = "object" /\ reply.decision = "deny"
          \/ reply.form = "text" /\ reply.says = "unsafe"

(* Append, on a sequence of one element.                                   *)
LEMMA AppendToOne ==
    ASSUME NEW x, NEW y
    PROVE  Append(<<x>>, y) = <<x, y>>
<1> DEFINE S == {x, y}
           s == Append(<<x>>, y)
           t == <<x, y>>
<1>1. <<x>> \in Seq(S) /\ y \in S /\ Len(<<x>>) = 1 /\ <<x>>[1] = x
  OBVIOUS
<1>2. s \in Seq(S) /\ Len(s) = 2 /\ s[1] = x /\ s[2] = y
  BY <1>1, AppendProperties
<1>3. t \in Seq(S) /\ Len(t) = 2 /\ t[1] = x /\ t[2] = y
  OBVIOUS
<1>4. \A i \in 1 .. 2 : s[i] = t[i]
  <2>1. \A i \in 1 .. 2 : i = 1 \/ i = 2
    OBVIOUS
  <2> QED  BY <1>2, <1>3, <2>1
<1> QED
  <2> HIDE DEF s, t
  <2>1. s = t
    BY <1>2, <1>3, <1>4, SeqEqual
  <2> QED  BY <2>1 DEF s, t

(* Beginning a line on such a stdout.                                      *)
LEMMA AppendLine ==
    ASSUME NEW out, NEW line, Before(out)
    PROVE  After(Append(out, line), line)
<1>1. CASE out = <<>>
  BY <1>1 DEF After
<1>2. CASE out = <<Cli!Piece>> /\ (stopped \/ ~Cli!Encodable)
  BY <1>2, AppendToOne DEF After
<1>3. CASE out = <<decision.verdict>> /\ stopped
  BY <1>3, AppendToOne DEF After
<1> QED  BY <1>1, <1>2, <1>3 DEF Before

(* Ending the line that was begun last.                                    *)
LEMMA EndLastLine ==
    ASSUME NEW out, NEW line, NEW other, After(out, line)
    PROVE  After([out EXCEPT ![Len(out)] = other], other)
<1>1. CASE out = <<line>>
  <2>1. [out EXCEPT ![Len(out)] = other] = <<other>>
    BY <1>1
  <2> QED  BY <2>1 DEF After
<1>2. ASSUME NEW first, out = <<first, line>>
      PROVE  [out EXCEPT ![Len(out)] = other] = <<first, other>>
  BY <1>2
<1> QED  BY <1>1, <1>2 DEF After

(* Every step of the command line keeps it.                                *)
LEMMA OutputKeeps ==
    ASSUME OutputInv, Cli!Next
    PROVE  OutputInv'
<1> USE DEF OutputInv, Cli!At, Cli!GiveUp, Cli!Step, Cli!verdictVars, Cli!Exit, Cli!Running
<1>1. CASE Cli!ParseArguments
  BY <1>1 DEF Cli!ParseArguments, Before
<1>2. CASE Cli!ReadInput
  BY <1>2 DEF Cli!ReadInput, Before
<1>3. CASE Cli!BuildEvaluator
  BY <1>3 DEF Cli!BuildEvaluator, Before
<1>4. CASE Cli!EvaluateEarly
  BY <1>4 DEF Cli!EvaluateEarly, Cli!Decide, Cli!DecideBySystem
<1>5. CASE Cli!SearchMemories
  BY <1>5 DEF Cli!SearchMemories, Before
<1>6. CASE Cli!Judge
  BY <1>6 DEF Cli!Judge, Cli!Decide, Cli!DecideBySystem, Before
<1>7. CASE Cli!BeginLine
  BY <1>7 DEF Cli!BeginLine
<1>8. CASE Cli!EndLine
  <2>1. [<<Cli!Piece>> EXCEPT ![Len(<<Cli!Piece>>)] = decision.verdict] = <<decision.verdict>>
    OBVIOUS
  <2>2. stdout = <<Cli!Piece>> /\ why # "nothing" /\ code = Cli!Running
    BY <1>8 DEF Cli!EndLine
  <2>3. CASE Cli!Encodable
    BY <1>8, <2>1, <2>2, <2>3 DEF Cli!EndLine
  <2>4. CASE ~Cli!Encodable
    BY <1>8, <2>2, <2>4 DEF Cli!EndLine, Before, Cli!Encodable
  <2> QED  BY <2>3, <2>4
<1>9. CASE Cli!Return
  BY <1>9 DEF Cli!Return
<1>10. CASE Cli!BeginFallback
  <2>1. After(Append(stdout, Cli!Piece), Cli!Piece)
    BY <1>10, AppendLine DEF Cli!BeginFallback
  <2> QED  BY <1>10, <2>1 DEF Cli!BeginFallback, After, Cli!Encodable
<1>11. CASE Cli!EndFallback
  <2>1. After([stdout EXCEPT ![Len(stdout)] = Cli!Fallback], Cli!Fallback)
    BY <1>11, EndLastLine DEF Cli!EndFallback
  <2> QED  BY <1>11, <2>1 DEF Cli!EndFallback, After, Cli!Encodable
<1>12. CASE Cli!Interrupt
  BY <1>12 DEF Cli!Interrupt, Cli!Caught, Before, After, Cli!Encodable
<1> QED
  BY <1>1, <1>2, <1>3, <1>4, <1>5, <1>6, <1>7, <1>8, <1>9, <1>10, <1>11, <1>12
  DEF Cli!Next

(* What the parser makes of a reply: its allow and its deny are the LLM's. *)
LEMMA ParseLemma ==
    ASSUME NEW answer \in Cli!Replies
    PROVE  /\ Cli!ParseDecision(answer) \in {"allow", "deny", "ask", "unparsable"}
           /\ Cli!ParseDecision(answer) = "allow" =>
                 \/ answer.form = "object" /\ answer.decision = "allow"
                 \/ answer.form = "text" /\ answer.says = "safe"
           /\ Cli!ParseDecision(answer) = "deny" =>
                 \/ answer.form = "object" /\ answer.decision = "deny"
                 \/ answer.form = "text" /\ answer.says = "unsafe"
<1> USE DEF Cli!ParseDecision, Cli!FromObject, Cli!FromPlainText
<1>1. CASE answer.form = "unusable"
  BY <1>1
<1>2. CASE answer.form = "object"
  BY <1>2
<1>3. CASE answer.form = "braces"
  BY <1>3
<1>4. CASE answer.form = "text"
  BY <1>4
<1>5. answer.form \in {"unusable", "object", "braces", "text"}
  BY DEF Cli!Replies
<1> QED  BY <1>1, <1>2, <1>3, <1>4, <1>5

(* Every step of the command line keeps what a decision rests on.          *)
LEMMA DecisionKeeps ==
    ASSUME DecisionInv, Cli!Next
    PROVE  DecisionInv'
<1> USE DEF DecisionInv, Cli!At, Cli!GiveUp, Cli!Step, Cli!verdictVars, Cli!Exit
<1>1. CASE Cli!ParseArguments
  BY <1>1 DEF Cli!ParseArguments
<1>2. CASE Cli!ReadInput
  BY <1>2 DEF Cli!ReadInput
<1>3. CASE Cli!BuildEvaluator
  BY <1>3 DEF Cli!BuildEvaluator
<1>4. CASE Cli!EvaluateEarly
  <2>1. CASE \/ Cli!Decide("deny", "policy")
             \/ Cli!Decide("ask", "policy")
             \/ Cli!Decide("allow", "exempt")
    <3>1. /\ pc' = "writing" /\ UNCHANGED config
          /\ \/ decision'.verdict = "deny" /\ why' = "policy"
             \/ decision'.verdict = "ask"
             \/ decision'.verdict = "allow" /\ why' = "exempt"
      BY <1>4, <2>1 DEF Cli!EvaluateEarly, Cli!Decide
    <3> QED  BY <3>1
  <2>2. CASE Cli!DecideBySystem(config.fallback, "no_llm")
    <3>1. /\ pc' = "writing" /\ why' = "no_llm" /\ UNCHANGED config
          /\ decision'.verdict = config.fallback
      BY <1>4, <2>2 DEF Cli!EvaluateEarly, Cli!DecideBySystem
    <3> QED  BY <3>1
  <2> QED  BY <1>4, <2>1, <2>2 DEF Cli!EvaluateEarly
<1>5. CASE Cli!SearchMemories
  BY <1>5 DEF Cli!SearchMemories
<1>6. CASE Cli!Judge
  <2>1. ASSUME reply' \in Cli!Replies,
               LET verdict == Cli!ParseDecision(reply')
               IN  IF verdict = "unparsable" THEN Cli!DecideBySystem("ask", "reply")
                   ELSE Cli!Decide(verdict, "reply")
        PROVE  DecisionInv'
    <3> DEFINE verdict == Cli!ParseDecision(reply')
    <3>1. /\ verdict \in {"allow", "deny", "ask", "unparsable"}
          /\ verdict = "allow" =>
                \/ reply'.form = "object" /\ reply'.decision = "allow"
                \/ reply'.form = "text" /\ reply'.says = "safe"
          /\ verdict = "deny" =>
                \/ reply'.form = "object" /\ reply'.decision = "deny"
                \/ reply'.form = "text" /\ reply'.says = "unsafe"
      BY <2>1, ParseLemma
    <3>2. /\ verdict = "unparsable" => Cli!DecideBySystem("ask", "reply")
          /\ verdict # "unparsable" => Cli!Decide(verdict, "reply")
      BY <2>1
    <3>3. UNCHANGED config
      BY <1>6 DEF Cli!Judge
    <3> HIDE DEF verdict
    <3>4. CASE verdict = "unparsable"
      BY <3>2, <3>3, <3>4 DEF Cli!DecideBySystem
    <3>5. CASE verdict # "unparsable"
      <4>1. decision'.verdict = verdict /\ pc' = "writing"
        BY <3>2, <3>5 DEF Cli!Decide
      <4> QED  BY <3>1, <3>3, <3>5, <4>1
    <3> QED  BY <3>4, <3>5
  <2>2. CASE Cli!DecideBySystem("ask", "unavailable") /\ UNCHANGED <<reply, config>>
    BY <2>2 DEF Cli!DecideBySystem
  <2>3. CASE Cli!GiveUp /\ UNCHANGED config
    BY <2>3
  <2> QED  BY <1>6, <2>1, <2>2, <2>3 DEF Cli!Judge
<1>7. CASE Cli!BeginLine
  BY <1>7 DEF Cli!BeginLine
<1>8. CASE Cli!EndLine
  BY <1>8 DEF Cli!EndLine
<1>9. CASE Cli!Return
  BY <1>9 DEF Cli!Return
<1>10. CASE Cli!BeginFallback
  BY <1>10 DEF Cli!BeginFallback
<1>11. CASE Cli!EndFallback
  BY <1>11 DEF Cli!EndFallback
<1>12. CASE Cli!Interrupt
  BY <1>12 DEF Cli!Interrupt, Cli!Caught
<1> QED
  BY <1>1, <1>2, <1>3, <1>4, <1>5, <1>6, <1>7, <1>8, <1>9, <1>10, <1>11, <1>12
  DEF Cli!Next

-----------------------------------------------------------------------------
(* Each part changes its own variables only.                               *)
ProcessInv == LifespanInv /\ BodyInv /\ OutputInv /\ DecisionInv

(* The process starts in it ...                                            *)
LEMMA InitInv == Init => ProcessInv
<1> SUFFICES ASSUME Init PROVE ProcessInv
  OBVIOUS
<1>1. LifespanInv
  BY DEF Init, Upstream!Init, LifespanInv, Upstream!None
<1>2. BodyInv
  <2>1. req = [r \in Requests |-> Body!NotYet]
    BY DEF Init, Body!Init
  <2>2. RequestInv(Body!NotYet)
    BY DEF RequestInv, Body!NotYet, Body!Kinds, Body!Declarations, Body!Responses
  <2> QED  BY <2>1, <2>2 DEF BodyInv
<1>3. OutputInv
  BY DEF Init, Cli!Init, OutputInv, Cli!Running
<1>4. DecisionInv
  BY DEF Init, Cli!Init, DecisionInv, Cli!NoConfig, Cli!NoDecision
<1> QED  BY <1>1, <1>2, <1>3, <1>4 DEF ProcessInv

(* The lifespan, when a step leaves its variables alone.                   *)
LEMMA UpstreamKept ==
    ASSUME LifespanInv,
           UNCHANGED <<phase, life, transports, sessions, session, transport,
                       toolsCache, tools, interrupted>>
    PROVE  LifespanInv'
BY DEF LifespanInv, Upstream!None

(* The requests, when a step is another part's.                            *)
LEMMA BodyKept ==
    ASSUME BodyInv, UNCHANGED req
    PROVE  BodyInv'
BY DEF BodyInv

(* The command line, likewise.                                             *)
LEMMA CliKept ==
    ASSUME OutputInv, DecisionInv, UNCHANGED cliVars
    PROVE  OutputInv' /\ DecisionInv'
BY DEF OutputInv, DecisionInv, cliVars, Before, After, Cli!Encodable

(* ... and every step keeps it.                                            *)
LEMMA StepInv == ProcessInv /\ [Next]_vars => ProcessInv'
<1> SUFFICES ASSUME ProcessInv, [Next]_vars PROVE ProcessInv'
  OBVIOUS
<1> USE UpstreamKept, BodyKept, CliKept DEF ProcessInv, Serving
<1>1. CASE Dispatch
  BY <1>1 DEF Dispatch, upstreamVars
<1>2. CASE Serving /\ Lifespan
  BY <1>2, LifespanKeeps DEF Lifespan
<1>3. ASSUME NEW r \in Requests, Serving, Arrive(r)  PROVE ProcessInv'
  BY <1>3, BodyKeeps DEF Arrive, upstreamVars
<1>4. ASSUME NEW r \in Requests, Serving, ReadBody(r)  PROVE ProcessInv'
  BY <1>4, BodyKeeps DEF ReadBody, upstreamVars
<1>5. ASSUME NEW r \in Requests, Serving, Answer(r)  PROVE ProcessInv'
  BY <1>5, BodyKeeps DEF Answer, upstreamVars
<1>6. ASSUME NEW r \in Requests, Serving, CallTool(r)  PROVE ProcessInv'
  <2>1. LifespanInv'
    BY <1>6 DEF CallTool, Upstream!CallTool, Upstream!fields
  <2>2. BodyInv'
    BY <1>6, BodyKeeps DEF CallTool
  <2> QED  BY <1>6, <2>1, <2>2
<1>7. ASSUME NEW r \in Requests, Serving, CallEnds(r)  PROVE ProcessInv'
  <2>1. LifespanInv'
    BY <1>7 DEF CallEnds, Upstream!CallReturns, Upstream!CallTimesOut, Upstream!EndCall,
                Upstream!fields
  <2>2. BodyInv'
    BY <1>7, BodyKeeps DEF CallEnds
  <2> QED  BY <1>7, <2>1, <2>2
<1>8. CASE Cli!Next /\ UNCHANGED <<command, req, upstreamVars>>
  BY <1>8, OutputKeeps, DecisionKeeps DEF upstreamVars
<1>9. CASE UNCHANGED vars
  BY <1>9 DEF vars, upstreamVars
<1> QED  BY <1>1, <1>2, <1>3, <1>4, <1>5, <1>6, <1>7, <1>8, <1>9 DEF Next

(* For any number of requests and starts, whatever the limits.             *)
THEOREM ProcessSound == Spec => []ProcessInv
BY InitInv, StepInv, PTL DEF Spec

-----------------------------------------------------------------------------
(* A subprocess runs only while the lifespan that started it will still    *)
(* end it, unless its clean-up was interrupted (context_store_client.py's  *)
(* rollback and stop).                                                     *)
THEOREM SubprocessNeverLeaked == Spec => []SubprocessReaped
<1>1. ProcessInv => SubprocessReaped
  BY DEF ProcessInv, LifespanInv, SubprocessReaped, Upstream!SubprocessReaped
<1> QED  BY <1>1, ProcessSound, PTL

(* The session that tool calls use is open and is the lifespan's own, and  *)
(* the tools served were listed through it.                                *)
THEOREM SessionSound == Spec => []SessionInUseIsOpen
<1>1. ProcessInv => SessionInUseIsOpen
  BY DEF ProcessInv, LifespanInv, SessionInUseIsOpen, Upstream!SessionInUseIsOpen, Upstream!None
<1> QED  BY <1>1, ProcessSound, PTL

(* No handler acts on a body above the limits, and none within them is     *)
(* refused for its size, on whichever path it was read (middleware.py).    *)
THEOREM BodiesSound == Spec => []SizeVerdictsRight
<1>1. ProcessInv => SizeVerdictsRight
  BY DEF ProcessInv, BodyInv, RequestInv, SizeVerdictsRight, Body!SizeVerdictsRight
<1> QED  BY <1>1, ProcessSound, PTL

(* The exit code of the command line tells what is on stdout (cli.py).     *)
THEOREM OutputSound == Spec => []OutputMatchesExit
<1>1. ProcessInv => OutputMatchesExit
  <2> SUFFICES ASSUME OutputInv  PROVE OutputMatchesExit
    BY DEF ProcessInv
  <2> DEFINE F == Cli!Fallback
  <2>1. code = 2 => After(stdout, F)
    BY DEF OutputInv, Cli!Running
  <2>2. code = 0 => stdout = <<decision.verdict>> /\ why # "nothing"
    BY DEF OutputInv, Cli!Running
  <2>3. code = 130 => stopped
    BY DEF OutputInv, Cli!Running
  <2>4. After(stdout, F) => stdout # <<>> /\ stdout[Len(stdout)] = F
    BY DEF After
  <2>5. After(stdout, F) /\ Cli!Encodable /\ ~stopped => stdout = <<F>>
    BY Zenon DEF After
  <2> QED  BY <2>1, <2>2, <2>3, <2>4, <2>5 DEF OutputMatchesExit, Cli!OutputMatchesExit
<1> QED  BY <1>1, ProcessSound, PTL

(* An allow or a deny on stdout is the policy's, the user's or the LLM's   *)
(* own (llm_evaluator.py's parser).                                        *)
THEOREM RepliesSound == Spec => []RepliesHonoured
<1>1. ProcessInv => RepliesHonoured
  <2> SUFFICES ASSUME ProcessInv, NEW i \in DOMAIN stdout
               PROVE  stdout[i] \in {Cli!Piece, Cli!Fallback, decision.verdict}
    BY DEF ProcessInv, DecisionInv, RepliesHonoured, Cli!RepliesHonoured, Cli!Piece, Cli!Fallback
  <2> DEFINE Lines == {Cli!Piece, Cli!Fallback, decision.verdict}
  <2>1. \/ stdout \in {<<>>, <<Cli!Piece>>, <<Cli!Fallback>>, <<decision.verdict>>}
        \/ \E x, y \in Lines : stdout = <<x, y>>
    BY DEF ProcessInv, OutputInv, Before, After
  <2>2. ASSUME NEW x \in Lines, NEW y \in Lines, stdout = <<x, y>>
        PROVE  stdout[i] \in Lines
    BY <2>2
  <2>3. ASSUME NEW x \in Lines, stdout = <<x>>
        PROVE  stdout[i] \in Lines
    BY <2>3
  <2> QED  BY <2>1, <2>2, <2>3
<1> QED  BY <1>1, ProcessSound, PTL
=============================================================================

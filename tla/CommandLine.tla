---------------------------- MODULE CommandLine ----------------------------
(***************************************************************************)
(* "chronos-gate evaluate --json-io" (cli.py): one evaluation per process, *)
(* from a JSON object on stdin to one line of JSON on stdout and an exit   *)
(* code.  The evaluator is CompositeEvaluator with nothing cached and no   *)
(* other request; a LLM's reply is read as in LlmReply.                    *)
(*                                                                         *)
(* The line is written in pieces (json.dump), any of which stdout may be   *)
(* unable to encode, and the user may interrupt the process at any moment. *)
(***************************************************************************)
EXTENDS LlmReply, Integers, Sequences

VARIABLES
    pc,
    narrow,       \* stdout cannot encode every text (PYTHONIOENCODING, locale)
    config,       \* the environment: an LLM, a memory client, the fallback mode
    decision,     \* what evaluate returned: a verdict and whether its text is wide
    why,          \* history: what the decision rests on
    reply,        \* the LLM's answer
    stdout,       \* the lines on stdout; Piece is the beginning of one
    code,         \* the exit code
    interrupted   \* history: the user has interrupted the process

verdictVars == <<decision, why, reply>>
vars == <<pc, narrow, config, verdictVars, stdout, code, interrupted>>

NoDecision == [verdict |-> "none", wide |-> FALSE]
NoReply == [form |-> "none"]
NoConfig == [llm |-> FALSE, memory |-> FALSE, fallback |-> "ask"]
Fallback == "fallback"   \* the line of _FALLBACK_ASK
Piece == "piece"
Running == -1

Init ==
    /\ pc = "start"
    /\ narrow \in BOOLEAN
    /\ config = NoConfig
    /\ decision = NoDecision
    /\ why = "nothing"
    /\ reply = NoReply
    /\ stdout = <<>>
    /\ code = Running
    /\ interrupted = FALSE

At(here) == pc = here

(* Every except clause of main does the same.                              *)
GiveUp == pc' = "fallback" /\ UNCHANGED verdictVars

Step(from) == At(from) /\ UNCHANGED <<narrow, stdout, code, interrupted>>

-----------------------------------------------------------------------------
ParseArguments ==
    /\ Step("start")
    /\ \/ pc' = "input" /\ UNCHANGED verdictVars
       \/ GiveUp
    /\ UNCHANGED config

ReadInput ==
    /\ Step("input")
    /\ \/ pc' = "building" /\ UNCHANGED verdictVars
       \/ GiveUp
    /\ UNCHANGED config

(* The policy file, the dashboard's settings and the LLM's may be wrong.   *)
BuildEvaluator ==
    /\ Step("building")
    /\ \/ /\ config' \in [llm : BOOLEAN, memory : BOOLEAN, fallback : {"allow", "ask"}]
          /\ pc' = "evaluating"
          /\ UNCHANGED verdictVars
       \/ GiveUp /\ UNCHANGED config

(* A decision in words of the policy, the caller or the LLM; one that says *)
(* allow has no words.                                                     *)
Decide(verdict, because) ==
    /\ decision' \in [verdict : {verdict}, wide : {FALSE, verdict # "allow"}]
    /\ why' = because
    /\ pc' = "writing"

(* A decision in words of the gateway, which are ASCII.                    *)
DecideBySystem(verdict, because) ==
    /\ decision' = [verdict |-> verdict, wide |-> FALSE]
    /\ why' = because
    /\ pc' = "writing"

(* evaluate, as far as it goes without the LLM.                            *)
EvaluateEarly ==
    /\ Step("evaluating")
    /\ \/ Decide("deny", "policy")
       \/ Decide("ask", "policy")
       \/ Decide("allow", "exempt")   \* skip_llm, READ_ONLY_TOOLS
       \/ ~config.llm /\ DecideBySystem(config.fallback, "no_llm")
    /\ UNCHANGED <<config, reply>>

(* A search that fails in the ways retrieve knows goes on without memories.*)
SearchMemories ==
    /\ Step("evaluating")
    /\ config.llm
    /\ \/ pc' = "judging" /\ UNCHANGED verdictVars
       \/ config.memory /\ GiveUp
    /\ UNCHANGED config

Judge ==
    /\ Step("judging")
    /\ \/ /\ reply' \in Replies
          /\ LET verdict == ParseDecision(reply')
             IN  IF verdict = "unparsable" THEN DecideBySystem("ask", "reply")
                 ELSE Decide(verdict, "reply")
       \/ DecideBySystem("ask", "unavailable") /\ UNCHANGED reply
       \/ GiveUp
    /\ UNCHANGED config

-----------------------------------------------------------------------------
(* _write_decision: the pieces up to the text, ...                         *)
BeginLine ==
    /\ At("writing")
    /\ stdout' = Append(stdout, Piece)
    /\ pc' = "text"
    /\ UNCHANGED <<narrow, config, verdictVars, code, interrupted>>

Encodable == ~(narrow /\ decision.wide)

(* Mutant: the text that stdout cannot encode is left out.                 *)
EndLineAnyway ==
    /\ At("text")
    /\ stdout' = IF Encodable THEN [stdout EXCEPT ![Len(stdout)] = decision.verdict]
                 ELSE stdout
    /\ pc' = "returning"
    /\ UNCHANGED <<narrow, config, verdictVars, code, interrupted>>

(* ... and from there to the flush.                                        *)
EndLine ==
    /\ At("text")
    /\ IF Encodable
       THEN /\ stdout' = [stdout EXCEPT ![Len(stdout)] = decision.verdict]
            /\ pc' = "returning"
       ELSE pc' = "fallback" /\ UNCHANGED stdout
    /\ UNCHANGED <<narrow, config, verdictVars, code, interrupted>>

Exit(n) == pc' = "exited" /\ code' = n

Return ==
    /\ At("returning")
    /\ Exit(0)
    /\ UNCHANGED <<narrow, config, verdictVars, stdout, interrupted>>

(* The fallback's text is ASCII.  It is written where stdout is: after the *)
(* piece of a line that could not be ended, on the same line.              *)
BeginFallback ==
    /\ At("fallback")
    /\ stdout' = Append(stdout, Piece)
    /\ pc' = "fallbackText"
    /\ UNCHANGED <<narrow, config, verdictVars, code, interrupted>>

EndFallback ==
    /\ At("fallbackText")
    /\ stdout' = [stdout EXCEPT ![Len(stdout)] = Fallback]
    /\ Exit(2)
    /\ UNCHANGED <<narrow, config, verdictVars, interrupted>>

(* KeyboardInterrupt.  Inside the try statements of main it is caught.     *)
Caught == {"input", "building", "evaluating", "judging", "writing", "text", "returning"}

Interrupt ==
    /\ interrupted' = TRUE
    /\ \/ pc \in Caught /\ pc' = "fallback" /\ UNCHANGED code
       \/ pc \in {"start", "fallback", "fallbackText"} /\ Exit(130)
    /\ UNCHANGED <<narrow, config, verdictVars, stdout>>

Next ==
    \/ ParseArguments
    \/ ReadInput
    \/ BuildEvaluator
    \/ EvaluateEarly
    \/ SearchMemories
    \/ Judge
    \/ BeginLine
    \/ EndLine
    \/ Return
    \/ BeginFallback
    \/ EndFallback
    \/ Interrupt

Spec == Init /\ [][Next]_vars

-----------------------------------------------------------------------------
(* Whoever runs the program can trust its exit code: 0 stands for the      *)
(* decision that was reached, and nothing else on stdout; 2 for a fallback *)
(* ask, and nothing else either if the user did not interrupt and there is *)
(* no decision that stdout cannot encode; any other end is the user's own  *)
(* doing.  (In the two cases left out the fallback comes last, but not     *)
(* alone: ExactlyOneLine.)                                                 *)
OutputMatchesExit ==
    /\ code = 0 => stdout = <<decision.verdict>> /\ why # "nothing"
    /\ code = 2 =>
          /\ stdout # <<>>
          /\ stdout[Len(stdout)] = Fallback
          /\ Encodable /\ ~interrupted => stdout = <<Fallback>>
    /\ code = 130 => interrupted

(* What cli.py:3-4 promises: exactly one line of Decision JSON, be it the  *)
(* decision or, when something goes wrong, the fallback ask.  Whoever      *)
(* reads the line parses it.                                               *)
ExactlyOneLine ==
    code \in {0, 2} /\ ~interrupted => stdout \in {<<decision.verdict>>, <<Fallback>>}

(* The worst outcome is a false allow.  An allow is printed only if policy *)
(* exempts the call, no LLM is configured and the user chose so, or the    *)
(* LLM said so: in the decision of a JSON object, whatever words are in    *)
(* it, or outside JSON by the word "safe" with no "unsafe" anywhere.  A    *)
(* deny, too, is the policy's or the LLM's own.                            *)
RepliesHonoured ==
    \A i \in DOMAIN stdout :
        /\ stdout[i] = "allow" =>
              \/ why = "exempt"
              \/ why = "no_llm" /\ config.fallback = "allow"
              \/ reply.form = "object" /\ reply.decision = "allow"
              \/ reply.form = "text" /\ reply.says = "safe"
        /\ stdout[i] = "deny" =>
              \/ why = "policy"
              \/ reply.form = "object" /\ reply.decision = "deny"
              \/ reply.form = "text" /\ reply.says = "unsafe"
=============================================================================

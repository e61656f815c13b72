------------------------------ MODULE LlmReply ------------------------------
(***************************************************************************)
(* What LlmEvaluator.judge (policy/llm_evaluator.py) makes of an answer of *)
(* the LLM.  An answer is what the parser can tell of its text: whether it *)
(* stands in braces, whether these enclose a JSON object, what that says,  *)
(* and which of the words "safe" and "unsafe" occur in it anywhere.        *)
(***************************************************************************)

(* says: "unsafe" if that word occurs, "safe" if only "safe" does.         *)
Words == {"safe", "unsafe", "neither"}

(* explained: the field that the decision needs is a string with text in   *)
(* its first 200 or 300 characters, with text only after them, or neither. *)
Replies ==
    [form : {"unusable"}]             \* no choices, another shape, no text
    \cup [form : {"text", "braces"}, says : Words]
    \cup [form : {"object"}, says : Words,
          decision : {"allow", "deny", "ask", "other"},
          explained : {"yes", "late", "no"}]

Verdicts == {"allow", "deny", "ask"}

(* _decision_from_json_object; a field that is blank once it is cut to its *)
(* length is refused by Decision itself.                                   *)
FromObject(reply) ==
    CASE reply.decision = "allow" -> "allow"
      [] reply.decision \in {"deny", "ask"} /\ reply.explained = "yes" -> reply.decision
      [] OTHER -> "unparsable"

(* _parse_plain_text_decision                                              *)
FromPlainText(reply) ==
    CASE reply.says = "safe"   -> "allow"
      [] reply.says = "unsafe" -> "deny"
      [] OTHER -> "unparsable"

(* Mutant: the labels are looked for first, in JSON as well.               *)
ParseLabelsFirst(reply) ==
    IF reply.form = "unusable" THEN "unparsable"
    ELSE IF FromPlainText(reply) # "unparsable" THEN FromPlainText(reply)
    ELSE IF reply.form = "object" THEN FromObject(reply)
    ELSE "unparsable"

ParseDecision(reply) ==
    CASE reply.form = "unusable" -> "unparsable"
      [] reply.form = "object"   -> FromObject(reply)
      [] reply.form = "braces"   -> "unparsable"
      [] reply.form = "text"     -> FromPlainText(reply)
=============================================================================

---------------------------- MODULE ApprovalGate ----------------------------
(***************************************************************************)
(* What the gateway promises about calls that may need a human decision,   *)
(* with no registry, session, timer or handler in sight: a call runs at    *)
(* most once, a call that asked runs only after it was granted, a question *)
(* that was settled stays settled, and every question is settled.          *)
(***************************************************************************)
CONSTANT Calls

VARIABLES
    asked,   \* asked[c]: "no", "open", "granted" or "refused"
    ran      \* the calls that reached the upstream server

gateVars == <<asked, ran>>

Init ==
    /\ asked = [c \in Calls |-> "no"]
    /\ ran = {}

Ask(c) ==
    /\ asked[c] = "no"
    /\ c \notin ran
    /\ asked' = [asked EXCEPT ![c] = "open"]
    /\ UNCHANGED ran

Grant(c) ==
    /\ asked[c] = "open"
    /\ asked' = [asked EXCEPT ![c] = "granted"]
    /\ UNCHANGED ran

(* Several questions may be refused at once: those of an evicted session.  *)
Refuse(S) ==
    /\ S # {}
    /\ \A c \in S : asked[c] = "open"
    /\ asked' = [c \in Calls |-> IF c \in S THEN "refused" ELSE asked[c]]
    /\ UNCHANGED ran

Run(c) ==
    /\ asked[c] \in {"no", "granted"}
    /\ c \notin ran
    /\ ran' = ran \cup {c}
    /\ UNCHANGED asked

Next ==
    \/ \E c \in Calls : Ask(c) \/ Grant(c) \/ Run(c)
    \/ \E S \in SUBSET Calls : Refuse(S)

Spec ==
    /\ Init
    /\ [][Next]_gateVars
    /\ \A c \in Calls : WF_gateVars(\E S \in SUBSET Calls : c \in S /\ Refuse(S))
=============================================================================

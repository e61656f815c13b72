------------------------- MODULE MCApprovalRegistry -------------------------
(***************************************************************************)
(* The instance of ApprovalRegistry that TLC checks: two sessions of       *)
(* different agents, and one approval more than the table and the deque    *)
(* hold, so that registration is refused and the history overflows.        *)
(***************************************************************************)
EXTENDS ApprovalRegistry, TLC

CONSTANTS s1, s2, alice, bob

MCAgentOf == (s1 :> alice) @@ (s2 :> bob)
=============================================================================

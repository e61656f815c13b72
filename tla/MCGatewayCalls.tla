--------------------------- MODULE MCGatewayCalls ---------------------------
(***************************************************************************)
(* The instance of GatewayCalls that TLC checks: alice and bob have a      *)
(* session each, bob and carol may approve, so bob's call cannot be        *)
(* approved by bob and alice's only by the others.                         *)
(***************************************************************************)
EXTENDS GatewayCalls, TLC

CONSTANTS s1, s2, alice, bob, carol

MCAgentOf == (s1 :> alice) @@ (s2 :> bob)
=============================================================================

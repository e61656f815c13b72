------------------------ MODULE MCEvaluatorCoalescing ------------------------
(***************************************************************************)
(* The instance of EvaluatorCoalescing that TLC checks: three requests,    *)
(* two calls that are judged and one of each kind that is not.             *)
(***************************************************************************)
EXTENDS EvaluatorCoalescing, TLC

CONSTANTS write, shell, reset, publish, exempt

MCTier1 == (write :> "ALLOW") @@ (shell :> "ALLOW") @@ (reset :> "DENY")
           @@ (publish :> "REQUIRES_APPROVAL") @@ (exempt :> "ALLOW")
=============================================================================

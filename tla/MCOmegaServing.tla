---------------------------- MODULE MCOmegaServing ----------------------------
(* Two runners share an environment with different episodes; the third has  *)
(* one of its own and an episode that the first also plans.                *)
EXTENDS OmegaServing, TLC

CONSTANTS r1, r2, r3, e1, e2, A, B, C

MCEnvOf == (r1 :> e1) @@ (r2 :> e1) @@ (r3 :> e2)
MCPlan == (r1 :> <<A>>) @@ (r2 :> <<B>>) @@ (r3 :> <<C, A>>)

\* The instance satisfies the hypothesis under which InvisibleTheorem is proved.
ASSUME MCPlansApart == PlansApart
================================================================================

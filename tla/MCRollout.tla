----------------------------- MODULE MCRollout -----------------------------
(* The rollouts on small budgets of mishaps. *)
EXTENDS Rollout

(* The proposals of the last, longest scripts do not depend on one another *)
(* and multiply the orders; they are run twice in the staging plan.        *)
FirstScripts ==
  [p \in Plans |-> CASE p = "OMMF" -> 0 [] p = "USDY" -> 8 [] p = "OUSGProd" -> 2
               [] p = "Local" -> 0 [] OTHER -> 15]
=============================================================================

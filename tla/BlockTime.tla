----------------------------- MODULE BlockTime -----------------------------
(* block.timestamp as oracles and pricer read it.  Deployment is not at 0, *)
(* the timestamp of what never happened.  Several calls may share a block. *)
EXTENDS Integers

CONSTANTS DeployTime,  \* when the contracts were deployed
          MaxTime      \* bound: the last block timestamp

ASSUME TimeAssumption == DeployTime \in Nat \ {0} /\ MaxTime \in Nat

VARIABLE now

ClockInit == now = DeployTime

ClockTick == now < MaxTime /\ now' = now + 1
=============================================================================

------------------------------- MODULE MCHub -------------------------------
(* One investor, who is also the redemption prover, and everyone else the  *)
(* hub pays or is paid by.                                                 *)
EXTENDS OUSGManager, TLC

CONSTANTS zero, alice, fund, desk

MCFunds == [a \in Address |-> IF a = alice THEN 2 ELSE IF a = fund THEN 2 ELSE 0]

MCRoles == [role \in {"OUSG_MINTER"} |-> {hub}]
=============================================================================

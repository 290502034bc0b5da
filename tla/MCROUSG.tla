------------------------------ MODULE MCROUSG ------------------------------
(* rOUSG, OUSG, the oracle and the registries together; alice holds every  *)
(* role of both tokens besides being a holder.                             *)
EXTENDS ROUSG, TLC

CONSTANTS alice, bob, carol, r1, r2, o1, o2

MCRoles == [role \in {"OUSG_MINTER", "OUSG_BURNER", "OUSG_PAUSER", "OUSG_KYC_CONFIGURER",
                      "BURNER", "PAUSER", "ADMIN", "CONFIGURER"} |-> {alice}]
=============================================================================

------------------------------- MODULE MCOUSG -------------------------------
(* The OUSG token and one registry.  Alice holds every role of the token   *)
(* and administers the registry; bob is the investor under review; carol   *)
(* can be paid but sends no transactions to the token, and may be made a   *)
(* holder of the registry's roles.                                         *)
EXTENDS OUSGWithRegistry, TLC

CONSTANTS alice, bob, carol, r1

MCRoles == [role \in {"OUSG_MINTER", "OUSG_BURNER", "OUSG_PAUSER",
                      "OUSG_KYC_CONFIGURER"} |-> {alice}]
=============================================================================

----------------------------- MODULE MCManager -----------------------------
(* The whole instant-manager system: alice invests and holds the roles of  *)
(* each run.                                                               *)
EXTENDS OUSGInstantManager, TLC

CONSTANTS alice, treasury, r1, o1, o2, l1

RoleNames == {"OUSG_MINTER", "OUSG_BURNER", "OUSG_PAUSER", "OUSG_KYC_CONFIGURER",
              "BURNER", "PAUSER", "ADMIN", "CONFIGURER",
              "M_CONFIGURER", "M_PAUSER", "M_ADMIN"}

(* This contract is a minter of OUSG; alice holds the roles of a set. *)
AliceHolds(roles) == [role \in RoleNames |->
                        (IF role \in roles THEN {alice} ELSE {})
                          \cup (IF role = "OUSG_MINTER" THEN {manager} ELSE {})]

FeeRoles == AliceHolds({"M_CONFIGURER"})
MoneyRoles == AliceHolds({"M_ADMIN", "M_CONFIGURER", "M_PAUSER"})

(* 100,000, 50,000 and 250,000 USDC in the code. *)
Minimums424 == [deposit |-> 4, redemption |-> 2, buidl |-> 4]

Funds4 == alice :> 4
Funds8 == alice :> 8

MCRejects == l1 :> {alice}
MCNoRejects == [l \in {} |-> {}]
=============================================================================

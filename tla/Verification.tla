---------------------------- MODULE Verification ----------------------------
(* The tasks of scripts/usdy/verification-scripts: what each finds on the  *)
(* chain, for a configuration c.  The addresses they have written down are *)
(* those the rollout recorded.                                             *)
EXTENDS USDYRollout

(* assertRoleMembers: the count, then each member in its place. *)
RoleMembersAre(chain, contract, role, members) ==
  MembersOf(chain.members, contract, role) = members

(* The admin slot of the proxy, and the owner of the ProxyAdmin there. *)
ProxyIsOwned(chain, proxy, proxyAdmin, owner) ==
  /\ FieldOf(chain, proxy, "proxyAdmin") = proxyAdmin
  /\ FieldOf(chain, proxyAdmin, "owner") = owner

(* check-usdy, but for LIST_CONFIGURER_ROLE *)
CheckUSDY(c, chain, records) ==
  LET usdy == records["USDY"] IN
  /\ ProxyIsOwned(chain, usdy, records["ProxyAdminUSDY"], c.guardian)
  /\ RoleMembersAre(chain, usdy, "DEFAULT_ADMIN_ROLE", <<c.guardian>>)
  /\ RoleMembersAre(chain, usdy, "BURNER_ROLE", <<>>)
  /\ RoleMembersAre(chain, usdy, "MINTER_ROLE", <<records["USDYManager"]>>)
  /\ RoleMembersAre(chain, usdy, "PAUSER_ROLE", <<c.guardian, c.pauser>>)
  /\ FieldOf(chain, usdy, "allowlist") = records["Allowlist"]
  /\ FieldOf(chain, usdy, "blocklist") = records["Blocklist"]
  /\ FieldOf(chain, usdy, "sanctionsList") = c.sanctions

CheckListConfigurers(c, chain, records) ==
  RoleMembersAre(chain, records["USDY"], "LIST_CONFIGURER_ROLE", <<c.guardian>>)

(* check-allowlist *)
CheckAllowlist(c, chain, records) ==
  LET allowlist == records["Allowlist"] IN
  /\ ProxyIsOwned(chain, allowlist, records["ProxyAdminAllowlist"], c.guardian)
  /\ \A role \in {"DEFAULT_ADMIN_ROLE", "ALLOWLIST_SETTER", "ALLOWLIST_ADMIN"} :
       RoleMembersAre(chain, allowlist, role, <<c.guardian>>)

(* check-blocklist: the guardian has accepted it. *)
CheckBlocklist(c, chain, records) ==
  FieldOf(chain, records["Blocklist"], "owner") = c.guardian

(* check-usdy-manager *)
CheckManager(c, chain, records) ==
  LET manager == records["USDYManager"] IN
  /\ \A role \in {"DEFAULT_ADMIN_ROLE", "MANAGER_ADMIN", "PRICE_ID_SETTER_ROLE",
                  "RELAYER_ROLE", "TIMESTAMP_SETTER_ROLE"} :
       RoleMembersAre(chain, manager, role, <<c.guardian>>)
  /\ RoleMembersAre(chain, manager, "PAUSER_ADMIN", <<c.pauser>>)
  /\ FieldOf(chain, manager, "assetSender") = c.assetSender
  /\ FieldOf(chain, manager, "feeRecipient") = c.guardian
  /\ FieldOf(chain, manager, "blocklist") = records["Blocklist"]
  /\ FieldOf(chain, manager, "collateral") = c.collateral
  /\ FieldOf(chain, manager, "rwa") = records["USDY"]
  /\ FieldOf(chain, manager, "pricer") = records["USDY_Pricer"]
  /\ FieldOf(chain, manager, "sanctionsList") = c.sanctions

(* check-usdy-pricer *)
CheckPricer(c, chain, records) ==
  \A role \in {"DEFAULT_ADMIN_ROLE", "PRICE_UPDATE_ROLE"} :
    RoleMembersAre(chain, records["USDY_Pricer"], role, <<c.guardian>>)

ChecksPass(c, chain, records) ==
  /\ CheckUSDY(c, chain, records)
  /\ CheckAllowlist(c, chain, records)
  /\ CheckBlocklist(c, chain, records)
  /\ CheckManager(c, chain, records)
  /\ CheckPricer(c, chain, records)
=============================================================================

---------------------------- MODULE USDYRollout ----------------------------
(* The scripts that bring USDY to a live network, deploy/usdy/production   *)
(* and scripts/usdy, for a network configuration c: mainnet, with the      *)
(* allowlist and the manager, or Mantle, without.                          *)
EXTENDS ScriptSteps

(* constants/mainnet.ts and constants/mantle.ts *)
MainnetUSDY == [guardian     |-> Account("usdy multisig"),
                managerAdmin |-> Account("usdy multisig"),
                feeRecipient |-> Account("usdy multisig"),
                droSetter    |-> Account("usdy multisig"),
                droPauser    |-> Account("usdy multisig"),
                pauser       |-> Account("pauser multisig"),
                listManager  |-> Account("pauser multisig"),
                assetSender  |-> Account("asset sender"),
                approver     |-> Account("bridge approver"),
                useAllowlist |-> TRUE,
                collateral   |-> Account("usdc"),
                gateway      |-> Account("axelar gateway"),
                gasService   |-> Account("axelar gas service"),
                sanctions    |-> Account("sanctions list")]

MantleUSDY == [guardian     |-> Account("mantle multisig"),
               managerAdmin |-> NoAddress,
               feeRecipient |-> NoAddress,
               droSetter    |-> Account("mantle multisig"),
               droPauser    |-> Account("mantle pauser"),
               pauser       |-> Account("mantle pauser"),
               listManager  |-> NoAddress,
               assetSender  |-> NoAddress,
               approver     |-> Account("mantle multisig"),
               useAllowlist |-> FALSE,
               collateral   |-> NoAddress,
               gateway      |-> Account("axelar gateway"),
               gasService   |-> Account("axelar gas service"),
               sanctions    |-> NoAddress]

USDYChain == ChainWith(<<>>, <<>>)

-----------------------------------------------------------------------------
DeployAllowlistFactory(c, h) ==
  IF c.useAllowlist
  THEN << Deploy("AllowlistFactory", "AllowlistFactory", [guardian |-> c.guardian]) >>
  ELSE <<>>

(* The new owner has to accept: the guardian's step, outside the script. *)
DeployBlocklist(c, h) ==
  << Deploy("Blocklist", "Blocklist", <<>>),
     Get("Blocklist", "blocklist"),
     Send(Deployer, h["blocklist"], "transferOwnership", [newOwner |-> c.guardian]) >>

DeployUSDYFactory(c, h) ==
  IF c.useAllowlist
  THEN << Deploy("USDYFactory", "USDYFactory", [guardian |-> c.guardian]) >>
  ELSE << Deploy("USDYW_Factory", "USDYW_Factory", [guardian |-> c.guardian]) >>

ProposeAllowlist(c, h) ==
  << Get("AllowlistFactory", "factory"),
     AddContract(h["factory"]),
     ProposeFunctionCall(c.guardian, h["factory"], "deployAllowlist",
                         [admin |-> c.guardian, setter |-> c.guardian]) >>

SaveAllowlist(c, h) ==
  << Get("AllowlistFactory", "factory"),
     Read(h["factory"], "proxy", "allowlist"),
     Read(h["factory"], "proxyAdmin", "admin"),
     Save("Allowlist", h["allowlist"]),
     Save("ProxyAdminAllowlist", h["admin"]),
     AddContract(h["allowlist"]),
     AddContract(h["admin"]) >>

(* A mutant of the next script: the allowlist is not looked up. *)
ProposeUSDYWithoutAllowlist(c, h) ==
  << Get("USDYFactory", "factory"),
     Get("Blocklist", "blocklist"),
     AddContract(h["factory"]),
     ProposeFunctionCall(c.guardian, h["factory"], "deployUSDY",
                         [blocklist |-> h["blocklist"], allowlist |-> h["allowlist"],
                          sanctionsList |-> c.sanctions]) >>

ProposeUSDY(c, h) ==
  << Get("USDYFactory", "factory"),
     Get("Blocklist", "blocklist"),
     Get("Allowlist", "allowlist"),
     AddContract(h["factory"]),
     ProposeFunctionCall(c.guardian, h["factory"], "deployUSDY",
                         [blocklist |-> h["blocklist"], allowlist |-> h["allowlist"],
                          sanctionsList |-> c.sanctions]) >>

SaveUSDY(c, h) ==
  << Get("USDYFactory", "factory"),
     Read(h["factory"], "proxy", "token"),
     Read(h["factory"], "proxyAdmin", "admin"),
     Save("USDY", h["token"]),
     Save("ProxyAdminUSDY", h["admin"]),
     AddContract(h["token"]),
     AddContract(h["admin"]) >>

(* The factories' records are read before the configuration is looked at. *)
DeployUSDYManager(c, h) ==
  << Get("USDYFactory", "factory"),
     Get("AllowlistFactory", "second"),
     Get("Blocklist", "blocklist"),
     Read(h["factory"], "proxy", "token"),
     Read(h["second"], "proxy", "allowlist"),
     Require(h["token"] # NoAddress) >>
  \o IF c.useAllowlist
     THEN << Deploy("USDYManager", "USDYManager",
                    [collateral |-> c.collateral, rwa |-> h["token"],
                     managerAdmin |-> c.managerAdmin, pauser |-> c.pauser,
                     assetSender |-> c.assetSender, feeRecipient |-> c.feeRecipient,
                     blocklist |-> h["blocklist"], sanctionsList |-> c.sanctions]) >>
     ELSE <<>>

DeployUSDYPricer(c, h) ==
  IF c.useAllowlist
  THEN << Deploy("USDY_Pricer", "Pricer", [admin |-> c.guardian, priceSetter |-> c.guardian]) >>
  ELSE <<>>

DeploySourceBridge(c, h) ==
  << Confirm,
     Confirm,
     Get("USDY", "token"),
     Confirm,
     Deploy("SourceBridge", "SourceBridge",
            [token |-> h["token"], gateway |-> c.gateway,
             gasService |-> c.gasService, owner |-> c.guardian]) >>

DeployDestinationBridge(c, h) ==
  << Confirm,
     Get("USDY", "token"),
     Confirm >>
  \o (IF c.useAllowlist THEN << Get("Allowlist", "allowlist") >> ELSE <<>>)
  \o << Confirm,
        Deploy("DestinationBridge", "DestinationBridge",
               [token |-> h["token"], gateway |-> c.gateway, allowlist |-> h["allowlist"],
                approver |-> c.approver, owner |-> c.guardian]) >>

DeployDynamicOracle(c, h) ==
  << Deploy("RWADynamicOracle", "RWADynamicOracle",
            [admin |-> c.guardian, setter |-> c.droSetter, pauser |-> c.droPauser]) >>

DeployRUSDYFactory(c, h) ==
  IF c.useAllowlist
  THEN << Deploy("rUSDYFactory", "rUSDYFactory", [guardian |-> c.guardian]) >>
  ELSE << Deploy("rUSDYW_Factory", "rUSDYW_Factory", [guardian |-> c.guardian]) >>

DeployRestrictedMetadata(c, h) ==
  << Require(c.listManager # NoAddress),
     Deploy("RestrictedUSDYMetadata", "RestrictedUSDYMetadata",
            [admin |-> c.listManager, setter |-> c.listManager]),
     Get("RestrictedUSDYMetadata", "token"),
     Save("RestrictedUSDYMetadata", h["token"]) >>

ConfigureUSDYManager(c, h) ==
  << Get("USDYManager", "manager"),
     Get("USDY_Pricer", "pricer"),
     AddContract(h["manager"]),
     AddContract(h["pricer"]),
     Get("USDY", "token"),
     ProposeGrantRole(c.guardian, h["token"], "MINTER_ROLE", h["manager"]),
     ProposeGrantRole(c.guardian, h["token"], "PAUSER_ROLE", c.pauser),
     ProposeFunctionCall(c.guardian, h["manager"], "setPricer", [pricer |-> h["pricer"]]),
     ProposeGrantRole(c.guardian, h["manager"], "PRICE_ID_SETTER_ROLE", c.managerAdmin),
     ProposeGrantRole(c.guardian, h["manager"], "TIMESTAMP_SETTER_ROLE", c.managerAdmin),
     ProposeGrantRole(c.guardian, h["manager"], "PAUSER_ROLE", c.pauser),
     ProposeGrantRole(c.guardian, h["manager"], "LIST_CONFIGURER_ROLE", c.managerAdmin),
     ProposeGrantRole(c.guardian, h["manager"], "RELAYER_ROLE", c.managerAdmin) >>

USDYPlan ==
  << "DeployAllowlistFactory", "DeployBlocklist", "DeployUSDYFactory",
     "ProposeAllowlist", "SaveAllowlist", "ProposeUSDY", "SaveUSDY",
     "DeployUSDYManager", "DeployUSDYPricer", "DeploySourceBridge",
     "DeployDestinationBridge", "DeployDynamicOracle", "DeployRUSDYFactory",
     "DeployRestrictedMetadata", "ConfigureUSDYManager" >>

(* On Mantle there is no allowlist to deploy from a factory, and the       *)
(* records the manager and the bridges ask for are never made.             *)
MantlePlan ==
  << "DeployAllowlistFactory", "DeployBlocklist", "DeployUSDYFactory",
     "DeployUSDYPricer", "DeployDynamicOracle", "DeployRUSDYFactory" >>

USDYScript(c, name, h) ==
  CASE name = "DeployAllowlistFactory"   -> DeployAllowlistFactory(c, h)
    [] name = "DeployBlocklist"          -> DeployBlocklist(c, h)
    [] name = "DeployUSDYFactory"        -> DeployUSDYFactory(c, h)
    [] name = "ProposeAllowlist"         -> ProposeAllowlist(c, h)
    [] name = "SaveAllowlist"            -> SaveAllowlist(c, h)
    [] name = "ProposeUSDY"              -> ProposeUSDY(c, h)
    [] name = "SaveUSDY"                 -> SaveUSDY(c, h)
    [] name = "DeployUSDYManager"        -> DeployUSDYManager(c, h)
    [] name = "DeployUSDYPricer"         -> DeployUSDYPricer(c, h)
    [] name = "DeploySourceBridge"       -> DeploySourceBridge(c, h)
    [] name = "DeployDestinationBridge"  -> DeployDestinationBridge(c, h)
    [] name = "DeployDynamicOracle"      -> DeployDynamicOracle(c, h)
    [] name = "DeployRUSDYFactory"       -> DeployRUSDYFactory(c, h)
    [] name = "DeployRestrictedMetadata" -> DeployRestrictedMetadata(c, h)
    [] name = "ConfigureUSDYManager"     -> ConfigureUSDYManager(c, h)
    [] OTHER                             -> <<>>
=============================================================================

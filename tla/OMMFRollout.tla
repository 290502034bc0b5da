---------------------------- MODULE OMMFRollout ----------------------------
(* The scripts that bring OMMF, its wrapper and its manager to mainnet:    *)
(* deploy/ommf/production and scripts/ommf.                                *)
EXTENDS ScriptSteps

(* constants/mainnet.ts, MAINNET_OMMF_CONFIG: equal addresses, one name. *)
OMMF == [guardian     |-> Account("ondo multisig"),
         managerAdmin |-> Account("ondo multisig"),
         instantMint  |-> Account("ondo multisig"),
         pauser       |-> Account("pauser multisig"),
         critical     |-> Account("critical multisig"),
         assetSender  |-> Account("critical multisig"),
         feeRecipient |-> Account("critical multisig"),
         nonCritical  |-> Account("noncritical multisig"),
         collateral   |-> Account("usdc"),
         registry     |-> <<"KYCRegistry", 1>>]

(* The registry is there before the rollout; the guardian, who proposes    *)
(* the additions to it, holds its group's role.                            *)
OMMFChain ==
  ChainWith([a \in {OMMF.registry} |-> [admin |-> OMMF.guardian]],
            [key \in {<<OMMF.registry, "KYC_GROUP_ROLE">>} |-> <<OMMF.guardian>>])

-----------------------------------------------------------------------------
DeployOMMFFactory(h) ==
  << Deploy("OMMFFactory", "OMMFFactory", [guardian |-> OMMF.guardian]) >>

DeployWOMMFFactory(h) ==
  << Deploy("WOMMFFactory", "WOMMFFactory", [guardian |-> OMMF.guardian]) >>

ProposeOMMF(h) ==
  << Get("OMMFFactory", "factory"),
     AddContract(h["factory"]),
     ProposeFunctionCall(OMMF.guardian, h["factory"], "deployOMMF",
                         [registry |-> OMMF.registry]) >>

(* The proxy is saved as the factory answers it, the null address included. *)
SaveOMMF(h) ==
  << Get("OMMFFactory", "factory"),
     Read(h["factory"], "proxy", "token"),
     Read(h["factory"], "proxyAdmin", "admin"),
     Save("OMMF", h["token"]),
     Save("ProxyAdminOMMF", h["admin"]),
     AddContract(h["token"]),
     AddContract(h["admin"]) >>

ProposeWOMMF(h) ==
  << Get("WOMMFFactory", "factory"),
     Get("OMMF", "token"),
     AddContract(h["factory"]),
     ProposeFunctionCall(OMMF.guardian, h["factory"], "deployWOMMF",
                         [ommf |-> h["token"], registry |-> OMMF.registry]) >>

SaveWOMMF(h) ==
  << Get("WOMMFFactory", "factory"),
     Read(h["factory"], "proxy", "wrapped"),
     Read(h["factory"], "proxyAdmin", "admin"),
     Save("WOMMF", h["wrapped"]),
     Save("ProxyAdminWOMMF", h["admin"]),
     AddContract(h["wrapped"]),
     AddContract(h["admin"]) >>

(* A mutant of the next script: the null addresses are let through. *)
DeployOMMFManagerUnchecked(h) ==
  << Get("OMMFFactory", "factory"),
     Get("WOMMFFactory", "second"),
     Read(h["factory"], "proxy", "token"),
     Read(h["second"], "proxy", "wrapped"),
     Require(h["token"] # NoAddress),
     Deploy("OMMFManager", "OMMFManager",
            [collateral |-> OMMF.collateral, rwa |-> h["token"],
             managerAdmin |-> OMMF.managerAdmin, pauser |-> OMMF.pauser,
             assetSender |-> OMMF.assetSender, feeRecipient |-> OMMF.feeRecipient,
             instantMint |-> OMMF.instantMint, registry |-> OMMF.registry,
             wommf |-> h["wrapped"]]) >>

DeployOMMFManager(h) ==
  << Get("OMMFFactory", "factory"),
     Get("WOMMFFactory", "second"),
     Read(h["factory"], "proxy", "token"),
     Read(h["second"], "proxy", "wrapped"),
     Require(h["token"] # NoAddress /\ h["wrapped"] # NoAddress),
     Deploy("OMMFManager", "OMMFManager",
            [collateral |-> OMMF.collateral, rwa |-> h["token"],
             managerAdmin |-> OMMF.managerAdmin, pauser |-> OMMF.pauser,
             assetSender |-> OMMF.assetSender, feeRecipient |-> OMMF.feeRecipient,
             instantMint |-> OMMF.instantMint, registry |-> OMMF.registry,
             wommf |-> h["wrapped"]]) >>

DeployOMMFPricer(h) ==
  << Deploy("OMMF_Pricer", "Pricer",
            [admin |-> OMMF.guardian, priceSetter |-> OMMF.managerAdmin]) >>

DeployRebaseSetter(h) ==
  << Get("OMMF", "token"),
     Deploy("OMMF_RebaseSetter", "OMMFRebaseSetter",
            [admin |-> OMMF.guardian, setter |-> OMMF.managerAdmin, ommf |-> h["token"]]) >>

(* Eight proposals for the guardian multisig, which may sign them in any   *)
(* order, then the KYC entries.                                            *)
ConfigureOMMFManager(h) ==
  << Get("OMMFManager", "manager"),
     AddContract(h["manager"]),
     Get("OMMF", "token"),
     ProposeGrantRole(OMMF.guardian, h["token"], "MINTER_ROLE", h["manager"]),
     Get("OMMF_Pricer", "pricer"),
     ProposeFunctionCall(OMMF.guardian, h["pricer"], "addPrice", [price |-> <<"price", 1>>]),
     ProposeFunctionCall(OMMF.guardian, h["manager"], "setPricer", [pricer |-> h["pricer"]]),
     ProposeGrantRole(OMMF.guardian, h["manager"], "PRICE_ID_SETTER_ROLE", OMMF.critical),
     ProposeGrantRole(OMMF.guardian, h["manager"], "RELAYER_ROLE", OMMF.critical),
     ProposeGrantRole(OMMF.guardian, h["manager"], "PAUSER_ADMIN", OMMF.pauser),
     ProposeGrantRole(OMMF.guardian, h["manager"], "REDEMPTION_PROVER_ROLE", OMMF.critical),
     Get("WOMMF", "wrapped"),
     ProposeGrantRole(OMMF.guardian, h["wrapped"], "PAUSER_ROLE", OMMF.pauser),
     ProposeKYCAddressUpdate(OMMF.guardian, OMMF.registry,
                             {h["manager"], h["wrapped"], OMMF.critical}) >>

ConfigureRebaseSetter(h) ==
  << Get("OMMF_RebaseSetter", "setter"),
     AddContract(h["setter"]),
     Get("OMMF", "token"),
     ProposeFunctionCall(OMMF.managerAdmin, h["token"], "setOracle", [oracle |-> h["setter"]]),
     ProposeGrantRole(OMMF.managerAdmin, h["setter"], "OPS_SETTER_ROLE", OMMF.nonCritical),
     ProposeGrantRole(OMMF.managerAdmin, h["setter"], "SETTER_ROLE", OMMF.critical) >>

(* The file numbers give the order: two factories, their tokens, then the  *)
(* contracts that need the tokens.                                         *)
OMMFPlan ==
  << "DeployOMMFFactory", "DeployWOMMFFactory", "ProposeOMMF", "SaveOMMF",
     "ProposeWOMMF", "SaveWOMMF", "DeployOMMFManager", "DeployOMMFPricer",
     "DeployRebaseSetter", "ConfigureOMMFManager", "ConfigureRebaseSetter" >>

OMMFScript(name, h) ==
  CASE name = "DeployOMMFFactory"     -> DeployOMMFFactory(h)
    [] name = "DeployWOMMFFactory"    -> DeployWOMMFFactory(h)
    [] name = "ProposeOMMF"           -> ProposeOMMF(h)
    [] name = "SaveOMMF"              -> SaveOMMF(h)
    [] name = "ProposeWOMMF"          -> ProposeWOMMF(h)
    [] name = "SaveWOMMF"             -> SaveWOMMF(h)
    [] name = "DeployOMMFManager"     -> DeployOMMFManager(h)
    [] name = "DeployOMMFPricer"      -> DeployOMMFPricer(h)
    [] name = "DeployRebaseSetter"    -> DeployRebaseSetter(h)
    [] name = "ConfigureOMMFManager"  -> ConfigureOMMFManager(h)
    [] name = "ConfigureRebaseSetter" -> ConfigureRebaseSetter(h)
    [] OTHER                          -> <<>>

-----------------------------------------------------------------------------
(* The end of the rollout: the manager, and it alone, mints; it has its    *)
(* price and its operators; OMMF has its rebase oracle; the wrapper wraps  *)
(* OMMF; the three addresses OMMF passes through have KYC.                 *)
OMMFIsOperational(chain, records) ==
  LET manager == records["OMMFManager"]  token == records["OMMF"]
      wrapped == records["WOMMF"]  pricer == records["OMMF_Pricer"]
      setter == records["OMMF_RebaseSetter"]
      Members(c, r) == MembersOf(chain.members, c, r)
  IN /\ FieldOf(chain, manager, "rwa") = token
     /\ FieldOf(chain, manager, "wommf") = wrapped
     /\ FieldOf(chain, wrapped, "ommf") = token
     /\ FieldOf(chain, manager, "pricer") = pricer
     /\ FieldOf(chain, pricer, "latestPriceId") # NoAddress
     /\ FieldOf(chain, token, "oracle") = setter
     /\ FieldOf(chain, setter, "ommf") = token
     /\ Members(token, "MINTER_ROLE") = <<manager>>
     /\ Members(manager, "PRICE_ID_SETTER_ROLE") = <<OMMF.critical>>
     /\ Members(manager, "RELAYER_ROLE") = <<OMMF.critical>>
     /\ Members(manager, "REDEMPTION_PROVER_ROLE") = <<OMMF.critical>>
     /\ Members(manager, "PAUSER_ADMIN") = <<OMMF.pauser>>
     /\ Members(wrapped, "PAUSER_ROLE") = <<OMMF.guardian, OMMF.pauser>>
     /\ Members(setter, "SETTER_ROLE") = <<OMMF.managerAdmin, OMMF.critical>>
     /\ Members(setter, "OPS_SETTER_ROLE") = <<OMMF.managerAdmin, OMMF.nonCritical>>
     /\ chain.cleared = {OMMF.registry} \X {manager, wrapped, OMMF.critical}
=============================================================================

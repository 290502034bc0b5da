---------------------------- MODULE OUSGUpgrade ----------------------------
(* The move of OUSG from CashManager to OUSGManager (RWAHub):              *)
(* deploy/ousg/1_ousg_upgrade_rwahub/live and the scripts of that name,    *)
(* for mainnet_prod and for mainnet_staging, which has a test oracle.      *)
EXTENDS ScriptSteps

(* deploy/ousg/constants.ts *)
OUSGProd == [management   |-> Account("ondo multisig"),
             pauser       |-> Account("pauser multisig"),
             critical     |-> Account("critical multisig"),
             severe       |-> Account("severe multisig"),
             nonCritical  |-> Account("noncritical multisig"),
             assetSender  |-> Account("critical multisig"),
             feeRecipient |-> Account("critical multisig"),
             priceUpdate  |-> Account("critical multisig"),
             opsUpdate    |-> Account("noncritical multisig"),
             collateral   |-> Account("usdc"),
             isProd       |-> TRUE,
             cashManager  |-> <<"CashManager", 1>>,
             ousg         |-> <<"OUSG", 1>>,
             registry     |-> <<"KYCRegistry", 1>>,
             oracle       |-> <<"RWAOracle", 1>>]

OUSGStaging == [OUSGProd EXCEPT !.management = Account("staging management"),
                                !.pauser = Account("staging management"),
                                !.critical = Account("staging critical"),
                                !.severe = Account("staging critical"),
                                !.assetSender = Account("staging critical"),
                                !.feeRecipient = Account("staging critical"),
                                !.nonCritical = Account("staging noncritical"),
                                !.priceUpdate = Account("staging noncritical"),
                                !.opsUpdate = Account("staging noncritical"),
                                !.isProd = FALSE]

(* OUSG, minted by CashManager, the registry and an oracle exist. *)
OUSGChain(c) ==
  ChainWith([a \in {c.ousg, c.registry, c.oracle, c.cashManager} |-> [admin |-> c.management]],
            [key \in {<<c.ousg, "DEFAULT_ADMIN_ROLE">>, <<c.ousg, "MINTER_ROLE">>,
                      <<c.registry, "KYC_GROUP_ROLE">>} |->
               IF key[2] = "MINTER_ROLE" THEN <<c.cashManager>> ELSE <<c.management>>])

-----------------------------------------------------------------------------
(* Refused on the production networks. *)
DeployTestOracle(c, h) ==
  << Require(~ c.isProd),
     Deploy("RWAOracleTestOnly", "RWAOracleTestOnly", [admin |-> c.management]) >>

DeployOUSGManager(c, h) ==
  << Deploy("OUSGManager", "OUSGManager",
            [collateral |-> c.collateral, rwa |-> c.ousg,
             managerAdmin |-> c.management, pauser |-> c.pauser,
             assetSender |-> c.assetSender, feeRecipient |-> c.feeRecipient,
             registry |-> c.registry]) >>

DeployOUSGPricer(c, h) ==
  << Deploy("PricerWithOracle", "PricerWithOracle",
            [admin |-> c.management, priceSetter |-> c.priceUpdate, oracle |-> c.oracle]) >>

(* The contracts are listed before anything is proposed. *)
ListUpgrade(c, h) ==
  << Get("OUSGManager", "manager"),
     AddContract(h["manager"]),
     Get("PricerWithOracle", "pricer"),
     AddContract(h["pricer"]) >>
  \o IF c.isProd THEN <<>>
     ELSE << Get("RWAOracleTestOnly", "oracle"), AddContract(h["oracle"]) >>

(* The grant of MINTER_ROLE on OUSG to the manager is commented out. *)
ProposeUpgrade(c, h) ==
  << ProposeFunctionCall(c.management, h["manager"], "setPricer", [pricer |-> h["pricer"]]),
     ProposeGrantRole(c.management, h["manager"], "RELAYER_ROLE", c.critical),
     ProposeGrantRole(c.management, h["manager"], "RELAYER_ROLE", c.severe),
     ProposeGrantRole(c.management, h["manager"], "PRICE_ID_SETTER_ROLE", c.nonCritical),
     ProposeGrantRole(c.management, h["manager"], "PRICE_ID_SETTER_ROLE", c.critical),
     ProposeGrantRole(c.management, h["pricer"], "ADD_PRICE_OPS_ROLE", c.opsUpdate),
     ProposeKYCAddressUpdate(c.management, c.registry, {h["manager"]}) >>

ConfigureUpgrade(c, h) == ListUpgrade(c, h) \o ProposeUpgrade(c, h)

DeprecateCashManager(c, h) ==
  << ProposeRevokeRole(c.management, c.ousg, "MINTER_ROLE", c.cashManager) >>

OUSGPlan(c) ==
  (IF c.isProd THEN <<>> ELSE << "DeployTestOracle" >>)
  \o << "DeployOUSGManager", "DeployOUSGPricer", "ConfigureUpgrade", "DeprecateCashManager" >>

OUSGScript(c, name, h) ==
  CASE name = "DeployTestOracle"     -> DeployTestOracle(c, h)
    [] name = "DeployOUSGManager"    -> DeployOUSGManager(c, h)
    [] name = "DeployOUSGPricer"     -> DeployOUSGPricer(c, h)
    [] name = "ConfigureUpgrade"     -> ConfigureUpgrade(c, h)
    [] name = "DeprecateCashManager" -> DeprecateCashManager(c, h)
    [] OTHER                         -> <<>>

-----------------------------------------------------------------------------
(* The end of the upgrade: CashManager mints no more, and the manager has  *)
(* its pricer, its operators and KYC.                                      *)
OUSGIsUpgraded(c, chain, records) ==
  LET manager == records["OUSGManager"]  pricer == records["PricerWithOracle"]
      Holders(contract, role) ==
        {a \in {c.critical, c.severe, c.nonCritical, c.opsUpdate, c.cashManager, manager} :
           Holds(chain.members, contract, role, a)}
  IN /\ FieldOf(chain, manager, "pricer") = pricer
     /\ FieldOf(chain, manager, "rwa") = c.ousg
     /\ Holders(c.ousg, "MINTER_ROLE") = {}
     /\ Holders(manager, "RELAYER_ROLE") = {c.critical, c.severe}
     /\ Holders(manager, "PRICE_ID_SETTER_ROLE") = {c.nonCritical, c.critical}
     /\ Holders(pricer, "ADD_PRICE_OPS_ROLE") = {c.opsUpdate}
     /\ chain.cleared = {<<c.registry, manager>>}
=============================================================================

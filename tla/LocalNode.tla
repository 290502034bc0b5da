----------------------------- MODULE LocalNode -----------------------------
(* `hardhat node --tags Local`: every product on a fork of mainnet, by the *)
(* scripts under deploy/**/local and local_node.  A transaction is mined   *)
(* as it is sent; hardhat-deploy chooses the order of the scripts from     *)
(* their paths, tags and dependencies.                                     *)
EXTENDS OUSGUpgrade

(* The node's signers, in the positions the scripts give them. *)
Local == [guardian     |-> Account("signer 1"),
          managerAdmin |-> Account("signer 2"),
          pauser       |-> Account("signer 3"),
          assetSender  |-> Account("signer 4"),
          feeRecipient |-> Account("signer 5"),
          instantMint  |-> Account("signer 6"),
          relayer      |-> Account("signer 7"),
          ondoSigner   |-> Account("signer 12"),
          collateral   |-> Account("usdc"),
          sanctions    |-> Account("sanctions list"),
          gateway      |-> Account("axelar gateway"),
          gasService   |-> Account("axelar gas service"),
          ousg         |-> OUSGProd.ousg,
          registry     |-> OUSGProd.registry,
          ousgGuardian |-> OUSGProd.management]

LocalChain == OUSGChain(OUSGProd)

TransactGrant(from, to, role, account) ==
  Transact(from, to, "grantRole", [role |-> role, account |-> account])

-----------------------------------------------------------------------------
(* deploy/ommf/local *)

LocalOMMF(h) ==
  << Deploy("OMMFFactory", "OMMFFactory", [guardian |-> Local.guardian]),
     Get("OMMFFactory", "factory"),
     Transact(Local.guardian, h["factory"], "deployOMMF", [registry |-> Local.registry]),
     Read(h["factory"], "proxy", "token"),
     Read(h["factory"], "proxyAdmin", "admin"),
     Save("OMMF", h["token"]),
     Save("ProxyAdminOMMF", h["admin"]) >>

LocalWOMMF(h) ==
  << Deploy("WOMMFFactory", "WOMMFFactory", [guardian |-> Local.guardian]),
     Get("WOMMFFactory", "factory"),
     Get("OMMF", "token"),
     Transact(Local.guardian, h["factory"], "deployWOMMF",
              [ommf |-> h["token"], registry |-> Local.registry]),
     Read(h["factory"], "proxy", "wrapped"),
     Read(h["factory"], "proxyAdmin", "admin"),
     Save("WOMMF", h["wrapped"]),
     Save("ProxyAdminWOMMF", h["admin"]) >>

LocalOMMFManager(h) ==
  << Get("OMMF", "token"),
     Get("WOMMF", "wrapped"),
     Deploy("OMMFManager", "OMMFManager",
            [collateral |-> Local.collateral, rwa |-> h["token"],
             managerAdmin |-> Local.managerAdmin, pauser |-> Local.pauser,
             assetSender |-> Local.assetSender, feeRecipient |-> Local.feeRecipient,
             instantMint |-> Local.instantMint, registry |-> Local.registry,
             wommf |-> h["wrapped"]]) >>

LocalOMMFPricer(h) ==
  << Deploy("OMMF_Pricer", "Pricer",
            [admin |-> Local.guardian, priceSetter |-> Local.managerAdmin]),
     Get("OMMF_Pricer", "pricer"),
     Transact(Local.managerAdmin, h["pricer"], "addPrice", [price |-> <<"price", 1>>]),
     Get("OMMFManager", "manager"),
     Transact(Local.managerAdmin, h["manager"], "setPricer", [pricer |-> h["pricer"]]),
     Get("OMMF", "token"),
     TransactGrant(Local.guardian, h["token"], "MINTER_ROLE", h["manager"]),
     Transact(Local.guardian, h["token"], "setOracle", [oracle |-> Local.guardian]) >>

-----------------------------------------------------------------------------
(* deploy/ousg/1_ousg_upgrade_rwahub/local_node *)

LocalOUSGPricer(h) ==
  << Deploy("RWAOracleTestOnly", "RWAOracleTestOnly", [admin |-> Local.guardian]),
     Get("RWAOracleTestOnly", "oracle"),
     Deploy("PricerWithOracle", "PricerWithOracle",
            [admin |-> Local.guardian, priceSetter |-> Local.managerAdmin,
             oracle |-> h["oracle"]]) >>

(* The guardian of the forked OUSG is impersonated. *)
LocalOUSGManager(h) ==
  << Deploy("OUSGManager", "OUSGManager",
            [collateral |-> Local.collateral, rwa |-> Local.ousg,
             managerAdmin |-> Local.managerAdmin, pauser |-> Local.pauser,
             assetSender |-> Local.assetSender, feeRecipient |-> Local.feeRecipient,
             registry |-> Local.registry]),
     Get("OUSGManager", "manager"),
     TransactGrant(Local.ousgGuardian, Local.ousg, "MINTER_ROLE", h["manager"]),
     Transact(Local.ousgGuardian, Local.registry, "addKYCAddresses",
              [addresses |-> {h["manager"]}]),
     Get("PricerWithOracle", "pricer"),
     Transact(Local.managerAdmin, h["manager"], "setPricer", [pricer |-> h["pricer"]]),
     TransactGrant(Local.managerAdmin, h["manager"], "PRICE_ID_SETTER_ROLE",
                   Local.managerAdmin) >>

-----------------------------------------------------------------------------
(* deploy/usdy/local *)

LocalAllowlist(h) ==
  << Deploy("AllowlistFactory", "AllowlistFactory", [guardian |-> Local.guardian]),
     Get("AllowlistFactory", "factory"),
     Transact(Local.guardian, h["factory"], "deployAllowlist",
              [admin |-> Local.guardian, setter |-> Local.guardian]),
     Read(h["factory"], "proxy", "allowlist"),
     Read(h["factory"], "proxyAdmin", "admin"),
     Save("Allowlist", h["allowlist"]),
     Save("ProxyAdminAllowlist", h["admin"]) >>

LocalBlocklist(h) ==
  << Deploy("Blocklist", "Blocklist", <<>>),
     Get("Blocklist", "blocklist"),
     Transact(Deployer, h["blocklist"], "transferOwnership", [newOwner |-> Local.guardian]),
     Transact(Local.guardian, h["blocklist"], "acceptOwnership", <<>>) >>

LocalUSDYPricer(h) ==
  << Deploy("USDY_Pricer", "Pricer",
            [admin |-> Local.guardian, priceSetter |-> Local.managerAdmin]),
     Get("USDY_Pricer", "pricer"),
     Transact(Local.managerAdmin, h["pricer"], "addPrice", [price |-> <<"price", 1>>]) >>

LocalUSDY(h) ==
  << Deploy("USDYFactory", "USDYFactory", [guardian |-> Local.guardian]),
     Get("USDYFactory", "factory"),
     Get("Blocklist", "blocklist"),
     Get("Allowlist", "allowlist"),
     Transact(Local.guardian, h["factory"], "deployUSDY",
              [blocklist |-> h["blocklist"], allowlist |-> h["allowlist"],
               sanctionsList |-> Local.sanctions]),
     Read(h["factory"], "proxy", "token"),
     Read(h["factory"], "proxyAdmin", "admin"),
     Save("USDY", h["token"]),
     Save("ProxyAdminUSDY", h["admin"]) >>

LocalUSDYManager(h) ==
  << Get("USDY", "token"),
     Get("Blocklist", "blocklist"),
     Deploy("USDYManager", "USDYManager",
            [collateral |-> Local.collateral, rwa |-> h["token"],
             managerAdmin |-> Local.managerAdmin, pauser |-> Local.pauser,
             assetSender |-> Local.assetSender, feeRecipient |-> Local.feeRecipient,
             blocklist |-> h["blocklist"], sanctionsList |-> Local.sanctions]),
     Get("USDYManager", "manager"),
     Get("USDY_Pricer", "pricer"),
     TransactGrant(Local.guardian, h["token"], "MINTER_ROLE", h["manager"]) >>
  \o << TransactGrant(Local.managerAdmin, h["manager"], "PRICE_ID_SETTER_ROLE", Local.managerAdmin),
        TransactGrant(Local.managerAdmin, h["manager"], "TIMESTAMP_SETTER_ROLE", Local.managerAdmin),
        TransactGrant(Local.managerAdmin, h["manager"], "PAUSER_ADMIN", Local.managerAdmin),
        TransactGrant(Local.managerAdmin, h["manager"], "RELAYER_ROLE", Local.relayer),
        Transact(Local.managerAdmin, h["manager"], "setPricer", [pricer |-> h["pricer"]]) >>

LocalDestinationBridge(h) ==
  << Get("USDY", "token"),
     Get("Allowlist", "allowlist"),
     Deploy("DestinationBridge", "DestinationBridge",
            [token |-> h["token"], gateway |-> Local.gateway, allowlist |-> h["allowlist"],
             approver |-> Local.ondoSigner, owner |-> Local.guardian]) >>

LocalSourceBridge(h) ==
  << Get("USDY", "token"),
     Deploy("SourceBridge", "SourceBridge",
            [token |-> h["token"], gateway |-> Local.gateway,
             gasService |-> Local.gasService, owner |-> Deployer]) >>

LocalDynamicOracle(h) ==
  << Deploy("RWADynamicOracle", "RWADynamicOracle",
            [admin |-> Local.guardian, setter |-> Local.managerAdmin,
             pauser |-> Local.pauser]) >>

LocalRUSDY(h) ==
  << Deploy("rUSDYFactory", "rUSDYFactory", [guardian |-> Local.guardian]),
     Get("rUSDYFactory", "factory"),
     Get("Blocklist", "blocklist"),
     Get("Allowlist", "allowlist"),
     Get("USDY", "token"),
     Get("RWADynamicOracle", "oracle"),
     Transact(Local.guardian, h["factory"], "deployrUSDY",
              [blocklist |-> h["blocklist"], allowlist |-> h["allowlist"],
               sanctionsList |-> Local.sanctions, usdy |-> h["token"],
               oracle |-> h["oracle"]]),
     Read(h["factory"], "proxy", "wrapped"),
     Read(h["factory"], "proxyAdmin", "admin"),
     Save("rUSDY", h["wrapped"]),
     Save("rUSDYProxyAdmin", h["admin"]) >>

LocalRestrictedMetadata(h) ==
  << Deploy("RestrictedUSDYMetadata", "RestrictedUSDYMetadata",
            [admin |-> Local.guardian, setter |-> Local.managerAdmin]),
     Get("RestrictedUSDYMetadata", "token"),
     Save("RestrictedUSDYMetadata", h["token"]) >>

-----------------------------------------------------------------------------
(* hardhat-deploy. *)

(* The files with the tag Local, in the order of their paths. *)
LocalFiles ==
  << "LocalOMMFManager", "LocalOMMF", "LocalOMMFPricer", "LocalWOMMF",
     "LocalOUSGManager", "LocalOUSGPricer",
     "LocalAllowlist", "LocalBlocklist", "LocalUSDYPricer", "LocalDestinationBridge",
     "LocalRestrictedMetadata", "LocalSourceBridge", "LocalDynamicOracle",
     "LocalUSDYManager", "LocalUSDY", "LocalRUSDY" >>

(* The tags other files depend on. *)
FileWithTag == Put([OMMF        |-> "LocalOMMF",
                    WOMMF       |-> "LocalWOMMF",
                    ommfManager |-> "LocalOMMFManager",
                    OUSGPricer  |-> "LocalOUSGPricer",
                    AllowList   |-> "LocalAllowlist",
                    Blocklist   |-> "LocalBlocklist",
                    USDY        |-> "LocalUSDY",
                    usdyManager |-> "LocalUSDYManager"],
                   "oracle-usdy", "LocalDynamicOracle")

(* Blocklist names "Allowlist", a tag no file has. *)
Dependencies(file) ==
  CASE file = "LocalOMMFManager"       -> <<"WOMMF">>
    [] file = "LocalWOMMF"             -> <<"OMMF">>
    [] file = "LocalOMMFPricer"        -> <<"ommfManager">>
    [] file = "LocalOUSGManager"       -> <<"OUSGPricer">>
    [] file = "LocalBlocklist"         -> <<"Allowlist">>
    [] file = "LocalUSDY"              -> <<"Blocklist">>
    [] file = "LocalUSDYManager"       -> <<"USDY", "Blocklist">>
    [] file = "LocalDestinationBridge" -> <<"usdyManager">>
    [] file = "LocalSourceBridge"      -> <<"usdyManager">>
    [] file = "LocalRUSDY"             -> <<"oracle-usdy">>
    [] OTHER                           -> <<>>

(* A file is run after the files its dependencies name, and once; a        *)
(* dependency no file is tagged with is passed over.                       *)
Files == {LocalFiles[i] : i \in DOMAIN LocalFiles}

Scheduled[order \in Seq(Files), file \in Files] ==
  IF Contains(order, file) THEN order
  ELSE Append(FoldLeft(LAMBDA soFar, tag :
                         IF tag \in DOMAIN FileWithTag
                         THEN Scheduled[soFar, FileWithTag[tag]] ELSE soFar,
                       order, Dependencies(file)),
              file)

LocalPlan == FoldLeft(LAMBDA order, file : Scheduled[order, file], <<>>, LocalFiles)

LocalScript(name, h) ==
  CASE name = "LocalOMMF"               -> LocalOMMF(h)
    [] name = "LocalWOMMF"              -> LocalWOMMF(h)
    [] name = "LocalOMMFManager"        -> LocalOMMFManager(h)
    [] name = "LocalOMMFPricer"         -> LocalOMMFPricer(h)
    [] name = "LocalOUSGPricer"         -> LocalOUSGPricer(h)
    [] name = "LocalOUSGManager"        -> LocalOUSGManager(h)
    [] name = "LocalAllowlist"          -> LocalAllowlist(h)
    [] name = "LocalBlocklist"          -> LocalBlocklist(h)
    [] name = "LocalUSDYPricer"         -> LocalUSDYPricer(h)
    [] name = "LocalUSDY"               -> LocalUSDY(h)
    [] name = "LocalUSDYManager"        -> LocalUSDYManager(h)
    [] name = "LocalDestinationBridge"  -> LocalDestinationBridge(h)
    [] name = "LocalSourceBridge"       -> LocalSourceBridge(h)
    [] name = "LocalDynamicOracle"      -> LocalDynamicOracle(h)
    [] name = "LocalRUSDY"              -> LocalRUSDY(h)
    [] name = "LocalRestrictedMetadata" -> LocalRestrictedMetadata(h)
    [] OTHER                            -> <<>>

-----------------------------------------------------------------------------
(* What a test of the products on the node relies on: each manager mints   *)
(* its token and has its pricer; the wrappers wrap the saved tokens.       *)
LocalIsOperational(chain, records) ==
  LET At(name) == records[name]
      Mints(manager, token) == Holds(chain.members, token, "MINTER_ROLE", manager)
                                 /\ FieldOf(chain, manager, "rwa") = token
      PricedBy(manager, pricer) == FieldOf(chain, manager, "pricer") = pricer
  IN /\ Mints(At("OMMFManager"), At("OMMF")) /\ PricedBy(At("OMMFManager"), At("OMMF_Pricer"))
     /\ Mints(At("USDYManager"), At("USDY")) /\ PricedBy(At("USDYManager"), At("USDY_Pricer"))
     /\ Mints(At("OUSGManager"), Local.ousg)
     /\ PricedBy(At("OUSGManager"), At("PricerWithOracle"))
     /\ FieldOf(chain, At("OMMFManager"), "wommf") = At("WOMMF")
     /\ FieldOf(chain, At("WOMMF"), "ommf") = At("OMMF")
     /\ FieldOf(chain, At("rUSDY"), "usdy") = At("USDY")
     /\ FieldOf(chain, At("rUSDY"), "oracle") = At("RWADynamicOracle")
     /\ FieldOf(chain, At("USDY"), "allowlist") = At("Allowlist")
     /\ FieldOf(chain, At("Blocklist"), "owner") = Local.guardian
     /\ <<Local.registry, At("OUSGManager")>> \in chain.cleared
=============================================================================

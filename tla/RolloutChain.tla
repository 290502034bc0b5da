---------------------------- MODULE RolloutChain ----------------------------
(***************************************************************************)
(* The contracts a rollout touches, as far as the scripts depend on them:  *)
(* what a constructor is given, who holds which role, which address a      *)
(* setter stores, and who may make which call.  The source of the          *)
(* factories, the tokens, Blocklist and the rebase setter is in the        *)
(* deployment records, which keep what the compiler was given: "metadata"  *)
(* in deployments/mainnet/, and deployments/mainnet_prod/solcInputs/.  The *)
(* bridges are modelled from how the scripts deploy and call them.         *)
(*                                                                         *)
(* Every word is a pair <<name, n>>: an account is <<name, 0>>, the n-th   *)
(* contract of a kind is <<kind, n>>.  A chain is a record:                *)
(*   built    the contracts with code |-> what their constructor was given *)
(*   stored   <<contract, field>> |-> the address a later call stored      *)
(*   members  the roles (RoleMembers)                                      *)
(*   cleared  <<registry, account>> pairs with KYC                         *)
(***************************************************************************)
EXTENDS RoleMembers, FiniteSets

Account(name) == <<name, 0>>
NoAddress     == Account("zero")
Deployer      == Account("deployer")

HasCode(chain, a) == a \in DOMAIN chain.built

(* What a getter answers: the stored word, else the constructor argument. *)
FieldOf(chain, a, field) ==
  IF <<a, field>> \in DOMAIN chain.stored THEN chain.stored[<<a, field>>]
  ELSE IF HasCode(chain, a) /\ field \in DOMAIN chain.built[a] THEN chain.built[a][field]
  ELSE NoAddress

Fresh(chain, kind) ==
  <<kind, Cardinality({a \in DOMAIN chain.built : a[1] = kind}) + 1>>

Stored(chain, a, field, word) ==
  [chain EXCEPT !.stored = Put(@, <<a, field>>, word)]

-----------------------------------------------------------------------------
(* Constructors and initializers. *)

Managers == {"OMMFManager", "USDYManager", "OUSGManager"}

(* RWAHub's constructor. *)
ManagerRoles(args) ==
  [DEFAULT_ADMIN_ROLE |-> args.managerAdmin,
   MANAGER_ADMIN |-> args.managerAdmin,
   PAUSER_ADMIN |-> args.pauser]

(* Pricer's constructor. *)
PricerRoles(args) ==
  [DEFAULT_ADMIN_ROLE |-> args.admin, PRICE_UPDATE_ROLE |-> args.priceSetter]

(* The initializers the factories run on their proxies.  What WOMMF's and  *)
(* USDY's grant to the factory it gives up in the same transaction.        *)
OMMFRoles(args) ==
  [DEFAULT_ADMIN_ROLE |-> args.admin, OMMF_MANAGER_ROLE |-> args.admin,
   PAUSER_ROLE |-> args.admin, BURNER_ROLE |-> args.admin,
   KYC_CONFIGURER_ROLE |-> args.admin]

WOMMFRoles(args) ==
  [DEFAULT_ADMIN_ROLE |-> args.admin, WOMMF_MANAGER_ROLE |-> args.admin,
   PAUSER_ROLE |-> args.admin, BURNER_ROLE |-> args.admin,
   KYC_CONFIGURER_ROLE |-> args.admin]

AllowlistRoles(args) ==
  [DEFAULT_ADMIN_ROLE |-> args.admin, ALLOWLIST_ADMIN |-> args.admin,
   ALLOWLIST_SETTER |-> args.setter]

RUSDYRoles(args) ==
  [DEFAULT_ADMIN_ROLE |-> args.admin, USDY_MANAGER_ROLE |-> args.admin,
   PAUSER_ROLE |-> args.admin, BURNER_ROLE |-> args.admin,
   LIST_CONFIGURER_ROLE |-> args.admin]

(* USDY's initializer knows no guardian: deployUSDY grants it two roles.   *)
(* Neither grants LIST_CONFIGURER_ROLE.                                    *)
USDYRoles(args) ==
  [DEFAULT_ADMIN_ROLE |-> args.admin, PAUSER_ROLE |-> args.admin]

(* The constructors of two more. *)
RebaseSetterRoles(args) ==
  [DEFAULT_ADMIN_ROLE |-> args.admin, SETTER_ROLE |-> args.setter,
   OPS_SETTER_ROLE |-> args.setter]

DynamicOracleRoles(args) ==
  [DEFAULT_ADMIN_ROLE |-> args.admin, PAUSER_ROLE |-> args.pauser,
   SETTER_ROLE |-> args.setter]

RolesAtBirth(kind, args) ==
  CASE kind \in Managers                      -> ManagerRoles(args)
    [] kind \in {"Pricer", "PricerWithOracle"} -> PricerRoles(args)
    [] kind = "OMMF"                           -> OMMFRoles(args)
    [] kind = "WOMMF"                          -> WOMMFRoles(args)
    [] kind = "USDY"                           -> USDYRoles(args)
    [] kind = "Allowlist"                      -> AllowlistRoles(args)
    [] kind = "rUSDY"                          -> RUSDYRoles(args)
    [] kind = "OMMFRebaseSetter"               -> RebaseSetterRoles(args)
    [] kind = "RWADynamicOracle"               -> DynamicOracleRoles(args)
    [] OTHER                                   -> <<>>

(* The requirements of the constructors: RWAHub refuses null addresses and *)
(* reads the token's decimals, the rebase setter reads the token.          *)
ConstructorAccepts(chain, kind, args) ==
  CASE kind \in Managers ->
         /\ NoAddress \notin {args.collateral, args.rwa, args.assetSender, args.feeRecipient}
         /\ HasCode(chain, args.rwa)
    [] kind = "OMMFRebaseSetter" -> HasCode(chain, args.ommf)
    [] kind = "PricerWithOracle" -> HasCode(chain, args.oracle)
    [] OTHER -> TRUE

(* Blocklist takes no argument; Ownable makes the sender its owner. *)
AtBirth(kind, args) == IF kind = "Blocklist" THEN [owner |-> Deployer] ELSE args

Constructed(chain, kind, args) ==
  LET a == Fresh(chain, kind)
  IN  [chain EXCEPT !.built = Put(@, a, AtBirth(kind, args)),
                    !.members = GrantedAll(@, a, RolesAtBirth(kind, args))]

(* What a factory's deploy function does: an implementation, a ProxyAdmin  *)
(* owned by the guardian, a proxy; nothing stops it from running again.    *)
FromFactory(chain, factory, kind, args) ==
  LET guardian == FieldOf(chain, factory, "guardian")
      proxy    == Fresh(chain, kind)
      admin    == Fresh(chain, "ProxyAdmin")
      withBoth == Constructed(Constructed(chain, kind, Put(args, "admin", guardian)),
                              "ProxyAdmin", [owner |-> guardian])
  IN  Stored(Stored(Stored(withBoth, proxy, "proxyAdmin", admin),
                    factory, "proxy", proxy),
             factory, "proxyAdmin", admin)

-----------------------------------------------------------------------------
(* Calls.  A call is [from, to, fn, args]. *)

(* The factory functions and what they produce. *)
Produces == [deployOMMF |-> "OMMF", deployWOMMF |-> "WOMMF", deployUSDY |-> "USDY",
             deployAllowlist |-> "Allowlist", deployrUSDY |-> "rUSDY"]

DeployFns == DOMAIN Produces

(* The hub hands three of its roles to MANAGER_ADMIN, OMMFManager a fourth. *)
RoleAdmin(kind, role) ==
  IF \/ kind \in Managers /\ role \in {"PAUSER_ADMIN", "PRICE_ID_SETTER_ROLE", "RELAYER_ROLE"}
     \/ kind = "OMMFManager" /\ role = "REDEMPTION_PROVER_ROLE"
  THEN "MANAGER_ADMIN" ELSE "DEFAULT_ADMIN_ROLE"

RoleFor == [addPrice |-> "PRICE_UPDATE_ROLE", setPricer |-> "MANAGER_ADMIN",
            setOracle |-> "OMMF_MANAGER_ROLE", addKYCAddresses |-> "KYC_GROUP_ROLE"]

(* Does the call go through?  One to an address without code always does. *)
Succeeds(chain, call) ==
  LET to == call.to  args == call.args  fn == call.fn IN
  HasCode(chain, to) =>
    /\ fn \in DeployFns => call.from = FieldOf(chain, to, "guardian")
    /\ fn = "deployUSDY" => NoAddress \notin {args.blocklist, args.allowlist}
    /\ fn \in {"grantRole", "revokeRole"} =>
         Holds(chain.members, to, RoleAdmin(to[1], args.role), call.from)
    /\ fn \in DOMAIN RoleFor => Holds(chain.members, to, RoleFor[fn], call.from)
    /\ fn = "transferOwnership" => call.from = FieldOf(chain, to, "owner")
    /\ fn = "acceptOwnership" => call.from = FieldOf(chain, to, "pendingOwner")

Effect(chain, call) ==
  LET to == call.to  args == call.args  fn == call.fn IN
  CASE fn \in DeployFns       -> FromFactory(chain, to, Produces[fn], args)
    [] fn = "grantRole"       -> [chain EXCEPT !.members = Granted(@, to, args.role, args.account)]
    [] fn = "revokeRole"      -> [chain EXCEPT !.members = Revoked(@, to, args.role, args.account)]
    [] fn = "addPrice"        -> Stored(chain, to, "latestPriceId", args.price)
    [] fn = "setPricer"       -> Stored(chain, to, "pricer", args.pricer)
    [] fn = "setOracle"       -> Stored(chain, to, "oracle", args.oracle)
    [] fn = "addKYCAddresses" -> [chain EXCEPT !.cleared = @ \cup ({to} \X args.addresses)]
    [] fn = "transferOwnership" -> Stored(chain, to, "pendingOwner", args.newOwner)
    [] fn = "acceptOwnership" -> Stored(Stored(chain, to, "owner", call.from),
                                        to, "pendingOwner", NoAddress)

AfterCall(chain, call) == IF HasCode(chain, call.to) THEN Effect(chain, call) ELSE chain

(* The chain before a rollout: the contracts it finds there. *)
ChainWith(built, members) ==
  [built |-> built, stored |-> <<>>, members |-> members, cleared |-> {}]
=============================================================================

--------------------------- MODULE RolloutProofs ---------------------------
(***************************************************************************)
(* The managers of every rollout are deployed with tokens that exist, and  *)
(* mint the token they were built for: in each plan, from each order of    *)
(* the signatures and for any number of interruptions and repetitions.     *)
(*                                                                         *)
(* The scripts pass addresses from step to step through their locals, and  *)
(* from script to script through the records.  Sort says which kind of     *)
(* contract a local holds, where it matters; the first part shows of each  *)
(* script that its steps respect that, the second that calls and           *)
(* constructors do, the third that the whole rollout therefore does.       *)
(***************************************************************************)
EXTENDS Rollout, SequenceTheorems, TLAPS

-----------------------------------------------------------------------------
(* What each step of a script may be. *)

(* What a factory deploys, and what a manager mints. *)
ProductOf == [OMMFFactory |-> "OMMF", WOMMFFactory |-> "WOMMF", USDYFactory |-> "USDY",
              AllowlistFactory |-> "Allowlist", rUSDYFactory |-> "rUSDY"]

Factories == DOMAIN ProductOf

TokenOf == [OMMFManager |-> "OMMF", USDYManager |-> "USDY", OUSGManager |-> "OUSG"]

(* The records that are named after the kind of contract they point to. *)
Tracked == Factories \cup Managers \cup {"OMMF", "WOMMF", "USDY"}

(* The kind of contract a script keeps in a local, where it matters. *)
Sort(script, local) ==
  CASE local = "factory" /\ script \in {"ProposeOMMF", "SaveOMMF", "DeployOMMFManager",
                                        "LocalOMMF"}        -> "OMMFFactory"
    [] local = "factory" /\ script \in {"ProposeWOMMF", "SaveWOMMF", "LocalWOMMF"}
                                                            -> "WOMMFFactory"
    [] local = "factory" /\ script \in {"ProposeUSDY", "SaveUSDY", "DeployUSDYManager",
                                        "LocalUSDY"}        -> "USDYFactory"
    [] local = "factory" /\ script \in {"ProposeAllowlist", "LocalAllowlist"}
                                                            -> "AllowlistFactory"
    [] local = "factory" /\ script = "LocalRUSDY"           -> "rUSDYFactory"
    [] local = "second" /\ script = "DeployOMMFManager"     -> "WOMMFFactory"
    [] local = "token" /\ script \in {"SaveOMMF", "DeployOMMFManager", "ConfigureOMMFManager",
                                      "LocalOMMF", "LocalOMMFManager", "LocalOMMFPricer"}
                                                            -> "OMMF"
    [] local = "token" /\ script \in {"SaveUSDY", "DeployUSDYManager", "ConfigureUSDYManager",
                                      "LocalUSDY", "LocalUSDYManager"}
                                                            -> "USDY"
    [] local = "wrapped" /\ script \in {"SaveWOMMF", "DeployOMMFManager", "LocalWOMMF",
                                        "LocalOMMFManager"} -> "WOMMF"
    [] local = "manager" /\ script \in {"ConfigureOMMFManager", "LocalOMMFPricer"}
                                                            -> "OMMFManager"
    [] local = "manager" /\ script \in {"ConfigureUSDYManager", "LocalUSDYManager"}
                                                            -> "USDYManager"
    [] local = "manager" /\ script = "LocalOUSGManager"     -> "OUSGManager"
    [] OTHER                                                -> "any"

(* Each local that matters holds no address, or one of its kind. *)
HeldKinds(script, h) ==
  \A l \in Locals : Sort(script, l) # "any" => h[l][1] \in {"zero", Sort(script, l)}

(* The calls that scripts make: a factory is told to deploy what it makes, *)
(* and the right to mint goes to a manager on its own token.               *)
KnownFns == DeployFns \cup {"grantRole", "revokeRole", "addPrice", "setPricer", "setOracle",
                            "addKYCAddresses", "transferOwnership", "acceptOwnership"}

CallOK(call) ==
  /\ call.fn \in KnownFns
  /\ call.fn \in DeployFns =>
       \E k \in Factories : call.to[1] \in {"zero", k} /\ ProductOf[k] = Produces[call.fn]
  /\ call.fn = "grantRole" /\ call.args.role = "MINTER_ROLE" =>
       \E k \in Managers : /\ call.args.account[1] \in {"zero", k}
                           /\ call.to[1] \in {"zero", TokenOf[k]}

(* What a script gives a constructor. *)
ArgsFit(script, h, kind, args) ==
  /\ kind \in Factories => DOMAIN args = {"guardian"}
  /\ kind \in Managers => args.rwa[1] \in {"zero", TokenOf[kind]}
  /\ kind = "OMMFManager" => /\ script \in {"DeployOMMFManager", "LocalOMMFManager"}
                             /\ args.wommf = h["wrapped"]

(* A record, a getter or a product goes into a local of its kind, and a    *)
(* record that others rely on is made of a local of its kind.              *)
StepOK(script, h, step) ==
  \/ /\ step.op = "get"
     /\ step.into \in Locals
     /\ Sort(script, step.into) \in {"any", step.name}
  \/ /\ step.op = "read"
     /\ step.into \in Locals
     /\ Sort(script, step.into) # "any" =>
          /\ step.field = "proxy"
          /\ \E k \in Factories : /\ step.contract[1] \in {"zero", k}
                                  /\ ProductOf[k] = Sort(script, step.into)
  \/ /\ step.op = "deploy"
     /\ step.kind \notin {"zero", "OUSG"}
     /\ step.name \in Tracked => step.kind = step.name
     /\ ArgsFit(script, h, step.kind, step.args)
  \/ /\ step.op = "save"
     /\ step.name \notin Factories
     /\ step.name \in Tracked =>
          \E l \in Locals : step.address = h[l] /\ Sort(script, l) = step.name
  \/ step.op \in {"propose", "send", "transact"} /\ CallOK(step.call)
  \/ step.op \in {"require", "confirm", "list"}

AllOK(script, h, steps) == \A i \in 1..Len(steps) : StepOK(script, h, steps[i])

-----------------------------------------------------------------------------
(* The ways of writing a step. *)

LEMMA GetOK ==
  \A script, h, name : \A local \in Locals :
    Sort(script, local) \in {"any", name} => StepOK(script, h, Get(name, local))
BY DEF StepOK, Get

LEMMA PassOK ==
  \A script, h, x : /\ StepOK(script, h, AddContract(x))
                   /\ StepOK(script, h, Require(x))
                   /\ StepOK(script, h, Confirm)
BY DEF StepOK, AddContract, Require, Confirm

LEMMA ReadOK ==
  \A script, h, contract, field : \A local \in Locals :
    Sort(script, local) = "any" => StepOK(script, h, Read(contract, field, local))
BY DEF StepOK, Read

LEMMA FactoryKinds ==
  /\ {"OMMFFactory", "WOMMFFactory", "USDYFactory", "AllowlistFactory", "rUSDYFactory"}
       \subseteq Factories
  /\ ProductOf["OMMFFactory"] = "OMMF" /\ ProductOf["WOMMFFactory"] = "WOMMF"
  /\ ProductOf["USDYFactory"] = "USDY"
BY DEF Factories, ProductOf

LEMMA ReadProxyOK ==
  \A script, h : \A from \in Locals, local \in Locals :
    /\ HeldKinds(script, h)
    /\ Sort(script, from) \in Factories
    /\ Sort(script, local) = ProductOf[Sort(script, from)]
    => StepOK(script, h, Read(h[from], "proxy", local))
<1> TAKE script, h
<1> TAKE from \in Locals, local \in Locals
<1> HAVE /\ HeldKinds(script, h)
         /\ Sort(script, from) \in Factories
         /\ Sort(script, local) = ProductOf[Sort(script, from)]
<1>1. Sort(script, from) # "any"
  BY DEF Factories, ProductOf
<1>2. h[from][1] \in {"zero", Sort(script, from)}
  BY <1>1 DEF HeldKinds
<1> QED  BY <1>2 DEF StepOK, Read

LEMMA SaveOK ==
  \A script, h : \A local \in Locals :
    /\ \A token \in {"OMMF", "WOMMF", "USDY"} :
         Sort(script, local) = token => StepOK(script, h, Save(token, h[local]))
    /\ \A name \in {"ProxyAdminOMMF", "ProxyAdminWOMMF", "ProxyAdminUSDY", "Allowlist",
                    "ProxyAdminAllowlist", "rUSDY", "rUSDYProxyAdmin",
                    "RestrictedUSDYMetadata"} :
         StepOK(script, h, Save(name, h[local]))
BY DEF StepOK, Save, Tracked, Factories, ProductOf, Managers

LEMMA DeployOK ==
  \A script, h, name, kind, args :
    /\ name \notin Tracked
    /\ kind \notin Factories \cup Managers \cup {"zero", "OUSG"}
    => StepOK(script, h, Deploy(name, kind, args))
BY DEF StepOK, Deploy, ArgsFit, Managers

LEMMA DeployFactoryOK ==
  \A script, h, guardian : \A kind \in Factories :
    StepOK(script, h, Deploy(kind, kind, [guardian |-> guardian]))
BY DEF StepOK, Deploy, ArgsFit, Managers, Factories, ProductOf

LEMMA CallStepsOK ==
  \A script, h, from, to, fn, args :
    CallOK(CallOf(from, to, fn, args)) =>
      /\ StepOK(script, h, ProposeFunctionCall(from, to, fn, args))
      /\ StepOK(script, h, Send(from, to, fn, args))
      /\ StepOK(script, h, Transact(from, to, fn, args))
BY DEF StepOK, ProposeFunctionCall, Send, Transact

LEMMA PlainCallOK ==
  \A from, to, args : \A fn \in KnownFns \ (DeployFns \cup {"grantRole"}) :
    CallOK(CallOf(from, to, fn, args))
BY DEF CallOK, CallOf, KnownFns

LEMMA GrantOK ==
  \A from, to, role, account :
    role # "MINTER_ROLE" =>
      CallOK(CallOf(from, to, "grantRole", [role |-> role, account |-> account]))
BY DEF CallOK, CallOf, KnownFns, DeployFns, Produces

LEMMA MinterGrantOK ==
  \A script, h, from :
    /\ HeldKinds(script, h)
    /\ Sort(script, "manager") \in Managers
    /\ Sort(script, "token") = TokenOf[Sort(script, "manager")]
    => CallOK(CallOf(from, h["token"], "grantRole",
                     [role |-> "MINTER_ROLE", account |-> h["manager"]]))
<1> TAKE script, h, from
<1> HAVE /\ HeldKinds(script, h)
         /\ Sort(script, "manager") \in Managers
         /\ Sort(script, "token") = TokenOf[Sort(script, "manager")]
<1>1. /\ Sort(script, "manager") # "any"
      /\ Sort(script, "token") # "any"
  BY DEF Managers, TokenOf
<1>2. /\ h["manager"][1] \in {"zero", Sort(script, "manager")}
      /\ h["token"][1] \in {"zero", Sort(script, "token")}
  BY <1>1 DEF HeldKinds, Locals
<1> QED  BY <1>2 DEF CallOK, CallOf, KnownFns, DeployFns, Produces

LEMMA DeployCallOK ==
  \A script, h, from, args : \A fn \in DeployFns :
    /\ HeldKinds(script, h)
    /\ Sort(script, "factory") \in Factories
    /\ ProductOf[Sort(script, "factory")] = Produces[fn]
    => CallOK(CallOf(from, h["factory"], fn, args))
<1> TAKE script, h, from, args
<1> TAKE fn \in DeployFns
<1> HAVE /\ HeldKinds(script, h)
         /\ Sort(script, "factory") \in Factories
         /\ ProductOf[Sort(script, "factory")] = Produces[fn]
<1>1. Sort(script, "factory") # "any"
  BY DEF Factories, ProductOf
<1>2. h["factory"][1] \in {"zero", Sort(script, "factory")}
  BY <1>1 DEF HeldKinds, Locals
<1>3. fn # "grantRole" /\ fn \in KnownFns
  BY DEF DeployFns, Produces, KnownFns
<1> QED  BY <1>2, <1>3 DEF CallOK, CallOf

LEMMA DeployManagerOK ==
  \A script, h, args : \A kind \in Managers :
    /\ args.rwa[1] \in {"zero", TokenOf[kind]}
    /\ kind = "OMMFManager" => /\ script \in {"DeployOMMFManager", "LocalOMMFManager"}
                               /\ args.wommf = h["wrapped"]
    => StepOK(script, h, Deploy(kind, kind, args))
BY DEF StepOK, Deploy, ArgsFit, Managers, Factories, ProductOf

-----------------------------------------------------------------------------
(* The scripts, one by one. *)

LEMMA DeployOMMFFactoryOK ==
  ASSUME NEW h, HeldKinds("DeployOMMFFactory", h)
  PROVE  AllOK("DeployOMMFFactory", h, DeployOMMFFactory(h))
BY DeployFactoryOK
   DEF AllOK, DeployOMMFFactory, Factories, ProductOf

LEMMA DeployWOMMFFactoryOK ==
  ASSUME NEW h, HeldKinds("DeployWOMMFFactory", h)
  PROVE  AllOK("DeployWOMMFFactory", h, DeployWOMMFFactory(h))
BY DeployFactoryOK
   DEF AllOK, DeployWOMMFFactory, Factories, ProductOf

LEMMA ProposeOMMFOK ==
  ASSUME NEW h, HeldKinds("ProposeOMMF", h)
  PROVE  AllOK("ProposeOMMF", h, ProposeOMMF(h))
<1>1. Sort("ProposeOMMF", "factory") = "OMMFFactory"
  BY DEF Sort
<1> QED  BY <1>1, GetOK, PassOK, CallStepsOK, DeployCallOK
         DEF AllOK, ProposeOMMF, Locals, Factories, ProductOf, KnownFns,
             DeployFns, Produces

LEMMA SaveOMMFOK ==
  ASSUME NEW h, HeldKinds("SaveOMMF", h)
  PROVE  AllOK("SaveOMMF", h, SaveOMMF(h))
<1>1. /\ Sort("SaveOMMF", "factory") = "OMMFFactory"
      /\ Sort("SaveOMMF", "token") = "OMMF"
      /\ Sort("SaveOMMF", "admin") = "any"
  BY DEF Sort
<1>2. StepOK("SaveOMMF", h, Read(h["factory"], "proxy", "token"))
  BY <1>1, FactoryKinds, ReadProxyOK DEF Locals
<1> QED  BY <1>1, <1>2, GetOK, PassOK, ReadOK, SaveOK DEF AllOK, SaveOMMF, Locals

LEMMA ProposeWOMMFOK ==
  ASSUME NEW h, HeldKinds("ProposeWOMMF", h)
  PROVE  AllOK("ProposeWOMMF", h, ProposeWOMMF(h))
<1>1. /\ Sort("ProposeWOMMF", "factory") = "WOMMFFactory"
      /\ Sort("ProposeWOMMF", "token") = "any"
  BY DEF Sort
<1> QED  BY <1>1, GetOK, PassOK, CallStepsOK, DeployCallOK
         DEF AllOK, ProposeWOMMF, Locals, Factories, ProductOf, KnownFns,
             DeployFns, Produces

LEMMA SaveWOMMFOK ==
  ASSUME NEW h, HeldKinds("SaveWOMMF", h)
  PROVE  AllOK("SaveWOMMF", h, SaveWOMMF(h))
<1>1. /\ Sort("SaveWOMMF", "factory") = "WOMMFFactory"
      /\ Sort("SaveWOMMF", "wrapped") = "WOMMF"
      /\ Sort("SaveWOMMF", "admin") = "any"
  BY DEF Sort
<1>2. StepOK("SaveWOMMF", h, Read(h["factory"], "proxy", "wrapped"))
  BY <1>1, FactoryKinds, ReadProxyOK DEF Locals
<1> QED  BY <1>1, <1>2, GetOK, PassOK, ReadOK, SaveOK DEF AllOK, SaveWOMMF, Locals

LEMMA DeployOMMFManagerOK ==
  ASSUME NEW h, HeldKinds("DeployOMMFManager", h)
  PROVE  AllOK("DeployOMMFManager", h, DeployOMMFManager(h))
<1>1. /\ Sort("DeployOMMFManager", "factory") = "OMMFFactory"
      /\ Sort("DeployOMMFManager", "second") = "WOMMFFactory"
      /\ Sort("DeployOMMFManager", "token") = "OMMF"
      /\ Sort("DeployOMMFManager", "wrapped") = "WOMMF"
  BY DEF Sort
<1>2. h["token"][1] \in {"zero", "OMMF"}
  BY <1>1 DEF HeldKinds, Locals
<1>3. StepOK("DeployOMMFManager", h, Read(h["factory"], "proxy", "token"))
  BY <1>1, FactoryKinds, ReadProxyOK DEF Locals
<1>4. StepOK("DeployOMMFManager", h, Read(h["second"], "proxy", "wrapped"))
  BY <1>1, FactoryKinds, ReadProxyOK DEF Locals
<1> QED  BY <1>1, <1>2, <1>3, <1>4, GetOK, PassOK, DeployManagerOK
         DEF AllOK, DeployOMMFManager, Locals, Managers, TokenOf

LEMMA DeployOMMFPricerOK ==
  ASSUME NEW h, HeldKinds("DeployOMMFPricer", h)
  PROVE  AllOK("DeployOMMFPricer", h, DeployOMMFPricer(h))
BY DeployOK
   DEF AllOK, DeployOMMFPricer, Factories, ProductOf, Tracked, Managers

LEMMA DeployRebaseSetterOK ==
  ASSUME NEW h, HeldKinds("DeployRebaseSetter", h)
  PROVE  AllOK("DeployRebaseSetter", h, DeployRebaseSetter(h))
<1>1. Sort("DeployRebaseSetter", "token") = "any"
  BY DEF Sort
<1> QED  BY <1>1, GetOK, DeployOK
         DEF AllOK, DeployRebaseSetter, Locals, Factories, ProductOf, Tracked,
             Managers

LEMMA ConfigureOMMFManagerOK ==
  ASSUME NEW h, HeldKinds("ConfigureOMMFManager", h)
  PROVE  AllOK("ConfigureOMMFManager", h, ConfigureOMMFManager(h))
<1>1. /\ Sort("ConfigureOMMFManager", "manager") = "OMMFManager"
      /\ Sort("ConfigureOMMFManager", "token") = "OMMF"
      /\ Sort("ConfigureOMMFManager", "pricer") = "any"
      /\ Sort("ConfigureOMMFManager", "wrapped") = "any"
  BY DEF Sort
<1> QED  BY <1>1, GetOK, PassOK, CallStepsOK, PlainCallOK, MinterGrantOK,
            GrantOK
         DEF AllOK, ConfigureOMMFManager, Locals, Managers, TokenOf, KnownFns,
             DeployFns, Produces, ProposeGrantRole, ProposeKYCAddressUpdate

LEMMA ConfigureRebaseSetterOK ==
  ASSUME NEW h, HeldKinds("ConfigureRebaseSetter", h)
  PROVE  AllOK("ConfigureRebaseSetter", h, ConfigureRebaseSetter(h))
<1>1. /\ Sort("ConfigureRebaseSetter", "setter") = "any"
      /\ Sort("ConfigureRebaseSetter", "token") = "any"
  BY DEF Sort
<1> QED  BY <1>1, GetOK, PassOK, CallStepsOK, PlainCallOK, GrantOK
         DEF AllOK, ConfigureRebaseSetter, Locals, KnownFns, DeployFns,
             Produces, ProposeGrantRole

LEMMA DeployAllowlistFactoryOK ==
  ASSUME NEW c, NEW h, HeldKinds("DeployAllowlistFactory", h)
  PROVE  AllOK("DeployAllowlistFactory", h, DeployAllowlistFactory(c, h))
BY DeployFactoryOK
   DEF AllOK, DeployAllowlistFactory, Factories, ProductOf

LEMMA DeployBlocklistOK ==
  ASSUME NEW c, NEW h, HeldKinds("DeployBlocklist", h)
  PROVE  AllOK("DeployBlocklist", h, DeployBlocklist(c, h))
<1>1. Sort("DeployBlocklist", "blocklist") = "any"
  BY DEF Sort
<1> QED  BY <1>1, GetOK, DeployOK, CallStepsOK, PlainCallOK
         DEF AllOK, DeployBlocklist, Locals, Factories, ProductOf, Tracked,
             Managers, KnownFns, DeployFns, Produces

LEMMA DeployUSDYFactoryOK ==
  ASSUME NEW c, NEW h, HeldKinds("DeployUSDYFactory", h)
  PROVE  AllOK("DeployUSDYFactory", h, DeployUSDYFactory(c, h))
BY DeployFactoryOK, DeployOK
   DEF AllOK, DeployUSDYFactory, Factories, ProductOf, Tracked, Managers

LEMMA ProposeAllowlistOK ==
  ASSUME NEW c, NEW h, HeldKinds("ProposeAllowlist", h)
  PROVE  AllOK("ProposeAllowlist", h, ProposeAllowlist(c, h))
<1>1. Sort("ProposeAllowlist", "factory") = "AllowlistFactory"
  BY DEF Sort
<1> QED  BY <1>1, GetOK, PassOK, CallStepsOK, DeployCallOK
         DEF AllOK, ProposeAllowlist, Locals, Factories, ProductOf, KnownFns,
             DeployFns, Produces

LEMMA SaveAllowlistOK ==
  ASSUME NEW c, NEW h, HeldKinds("SaveAllowlist", h)
  PROVE  AllOK("SaveAllowlist", h, SaveAllowlist(c, h))
<1>1. /\ Sort("SaveAllowlist", "factory") = "any"
      /\ Sort("SaveAllowlist", "allowlist") = "any"
      /\ Sort("SaveAllowlist", "admin") = "any"
  BY DEF Sort
<1> QED  BY <1>1, GetOK, PassOK, ReadOK, SaveOK
         DEF AllOK, SaveAllowlist, Locals, Factories, ProductOf

LEMMA ProposeUSDYOK ==
  ASSUME NEW c, NEW h, HeldKinds("ProposeUSDY", h)
  PROVE  AllOK("ProposeUSDY", h, ProposeUSDY(c, h))
<1>1. /\ Sort("ProposeUSDY", "factory") = "USDYFactory"
      /\ Sort("ProposeUSDY", "blocklist") = "any"
      /\ Sort("ProposeUSDY", "allowlist") = "any"
  BY DEF Sort
<1> QED  BY <1>1, GetOK, PassOK, CallStepsOK, DeployCallOK
         DEF AllOK, ProposeUSDY, Locals, Factories, ProductOf, KnownFns,
             DeployFns, Produces

LEMMA SaveUSDYOK ==
  ASSUME NEW c, NEW h, HeldKinds("SaveUSDY", h)
  PROVE  AllOK("SaveUSDY", h, SaveUSDY(c, h))
<1>1. /\ Sort("SaveUSDY", "factory") = "USDYFactory"
      /\ Sort("SaveUSDY", "token") = "USDY"
      /\ Sort("SaveUSDY", "admin") = "any"
  BY DEF Sort
<1>2. StepOK("SaveUSDY", h, Read(h["factory"], "proxy", "token"))
  BY <1>1, FactoryKinds, ReadProxyOK DEF Locals
<1> QED  BY <1>1, <1>2, GetOK, PassOK, ReadOK, SaveOK DEF AllOK, SaveUSDY, Locals

LEMMA DeployUSDYManagerOK ==
  ASSUME NEW c, NEW h, HeldKinds("DeployUSDYManager", h)
  PROVE  AllOK("DeployUSDYManager", h, DeployUSDYManager(c, h))
<1>1. /\ Sort("DeployUSDYManager", "factory") = "USDYFactory"
      /\ Sort("DeployUSDYManager", "second") = "any"
      /\ Sort("DeployUSDYManager", "blocklist") = "any"
      /\ Sort("DeployUSDYManager", "token") = "USDY"
      /\ Sort("DeployUSDYManager", "allowlist") = "any"
  BY DEF Sort
<1>2. h["token"][1] \in {"zero", "USDY"}
  BY <1>1 DEF HeldKinds, Locals
<1>3. StepOK("DeployUSDYManager", h, Read(h["factory"], "proxy", "token"))
  BY <1>1, FactoryKinds, ReadProxyOK DEF Locals
<1>4. CASE c.useAllowlist
  BY <1>1, <1>2, <1>3, <1>4, GetOK, PassOK, ReadOK, DeployManagerOK
     DEF AllOK, DeployUSDYManager, Locals, Managers, TokenOf
<1>5. CASE ~ c.useAllowlist
  BY <1>1, <1>3, <1>5, GetOK, PassOK, ReadOK DEF AllOK, DeployUSDYManager, Locals
<1> QED  BY <1>4, <1>5

LEMMA DeployUSDYPricerOK ==
  ASSUME NEW c, NEW h, HeldKinds("DeployUSDYPricer", h)
  PROVE  AllOK("DeployUSDYPricer", h, DeployUSDYPricer(c, h))
BY DeployOK
   DEF AllOK, DeployUSDYPricer, Factories, ProductOf, Tracked, Managers

LEMMA DeploySourceBridgeOK ==
  ASSUME NEW c, NEW h, HeldKinds("DeploySourceBridge", h)
  PROVE  AllOK("DeploySourceBridge", h, DeploySourceBridge(c, h))
<1>1. Sort("DeploySourceBridge", "token") = "any"
  BY DEF Sort
<1> QED  BY <1>1, GetOK, PassOK, DeployOK
         DEF AllOK, DeploySourceBridge, Locals, Factories, ProductOf, Tracked,
             Managers

LEMMA DeployDestinationBridgeOK ==
  ASSUME NEW c, NEW h, HeldKinds("DeployDestinationBridge", h)
  PROVE  AllOK("DeployDestinationBridge", h, DeployDestinationBridge(c, h))
<1>1. /\ Sort("DeployDestinationBridge", "token") = "any"
      /\ Sort("DeployDestinationBridge", "allowlist") = "any"
  BY DEF Sort
<1>2. CASE c.useAllowlist
  BY <1>2, <1>1, GetOK, PassOK, DeployOK
         DEF AllOK, DeployDestinationBridge, Locals, Factories, ProductOf,
             Tracked, Managers
<1>3. CASE ~ c.useAllowlist
  BY <1>3, <1>1, GetOK, PassOK, DeployOK
         DEF AllOK, DeployDestinationBridge, Locals, Factories, ProductOf,
             Tracked, Managers
<1> QED  BY <1>2, <1>3

LEMMA DeployDynamicOracleOK ==
  ASSUME NEW c, NEW h, HeldKinds("DeployDynamicOracle", h)
  PROVE  AllOK("DeployDynamicOracle", h, DeployDynamicOracle(c, h))
BY DeployOK
   DEF AllOK, DeployDynamicOracle, Factories, ProductOf, Tracked,
           Managers

LEMMA DeployRUSDYFactoryOK ==
  ASSUME NEW c, NEW h, HeldKinds("DeployRUSDYFactory", h)
  PROVE  AllOK("DeployRUSDYFactory", h, DeployRUSDYFactory(c, h))
BY DeployFactoryOK, DeployOK
   DEF AllOK, DeployRUSDYFactory, Factories, ProductOf, Tracked, Managers

LEMMA DeployRestrictedMetadataOK ==
  ASSUME NEW c, NEW h, HeldKinds("DeployRestrictedMetadata", h)
  PROVE  AllOK("DeployRestrictedMetadata", h, DeployRestrictedMetadata(c, h))
<1>1. Sort("DeployRestrictedMetadata", "token") = "any"
  BY DEF Sort
<1> QED  BY <1>1, GetOK, PassOK, SaveOK, DeployOK
         DEF AllOK, DeployRestrictedMetadata, Locals, Factories, ProductOf,
             Tracked, Managers

LEMMA ConfigureUSDYManagerOK ==
  ASSUME NEW c, NEW h, HeldKinds("ConfigureUSDYManager", h)
  PROVE  AllOK("ConfigureUSDYManager", h, ConfigureUSDYManager(c, h))
<1>1. /\ Sort("ConfigureUSDYManager", "manager") = "USDYManager"
      /\ Sort("ConfigureUSDYManager", "pricer") = "any"
      /\ Sort("ConfigureUSDYManager", "token") = "USDY"
  BY DEF Sort
<1> QED  BY <1>1, GetOK, PassOK, CallStepsOK, PlainCallOK, MinterGrantOK,
            GrantOK
         DEF AllOK, ConfigureUSDYManager, Locals, Managers, TokenOf, KnownFns,
             DeployFns, Produces, ProposeGrantRole

LEMMA DeployTestOracleOK ==
  ASSUME NEW c, NEW h, HeldKinds("DeployTestOracle", h)
  PROVE  AllOK("DeployTestOracle", h, DeployTestOracle(c, h))
BY PassOK, DeployOK
   DEF AllOK, DeployTestOracle, Factories, ProductOf, Tracked, Managers

LEMMA DeployOUSGManagerOK ==
  ASSUME NEW c, c.ousg[1] = "OUSG", NEW h, HeldKinds("DeployOUSGManager", h)
  PROVE  AllOK("DeployOUSGManager", h, DeployOUSGManager(c, h))
BY DeployManagerOK DEF AllOK, DeployOUSGManager, Managers, TokenOf

LEMMA DeployOUSGPricerOK ==
  ASSUME NEW c, NEW h, HeldKinds("DeployOUSGPricer", h)
  PROVE  AllOK("DeployOUSGPricer", h, DeployOUSGPricer(c, h))
BY DeployOK
   DEF AllOK, DeployOUSGPricer, Factories, ProductOf, Tracked, Managers

LEMMA ConfigureUpgradeOK ==
  ASSUME NEW c, NEW h, HeldKinds("ConfigureUpgrade", h)
  PROVE  AllOK("ConfigureUpgrade", h, ConfigureUpgrade(c, h))
<1>1. Sort("ConfigureUpgrade", "manager") = "any" /\ Sort("ConfigureUpgrade", "pricer") = "any"
      /\ Sort("ConfigureUpgrade", "oracle") = "any"
  BY DEF Sort
<1>2. CASE c.isProd
  BY <1>2, <1>1, GetOK, PassOK, CallStepsOK, PlainCallOK, GrantOK
     DEF AllOK, ConfigureUpgrade, ListUpgrade, ProposeUpgrade, Locals, ProposeGrantRole,
         ProposeKYCAddressUpdate, KnownFns, DeployFns, Produces
<1>3. CASE ~ c.isProd
  BY <1>3, <1>1, GetOK, PassOK, CallStepsOK, PlainCallOK, GrantOK
     DEF AllOK, ConfigureUpgrade, ListUpgrade, ProposeUpgrade, Locals, ProposeGrantRole,
         ProposeKYCAddressUpdate, KnownFns, DeployFns, Produces
<1> QED  BY <1>2, <1>3

LEMMA DeprecateCashManagerOK ==
  ASSUME NEW c, NEW h, HeldKinds("DeprecateCashManager", h)
  PROVE  AllOK("DeprecateCashManager", h, DeprecateCashManager(c, h))
BY CallStepsOK, PlainCallOK
   DEF AllOK, DeprecateCashManager, KnownFns, DeployFns, Produces,
           ProposeRevokeRole

LEMMA LocalOMMFOK ==
  ASSUME NEW h, HeldKinds("LocalOMMF", h)
  PROVE  AllOK("LocalOMMF", h, LocalOMMF(h))
<1>1. /\ Sort("LocalOMMF", "factory") = "OMMFFactory"
      /\ Sort("LocalOMMF", "token") = "OMMF"
      /\ Sort("LocalOMMF", "admin") = "any"
  BY DEF Sort
<1>2. \A from, args : StepOK("LocalOMMF", h, Transact(from, h["factory"], "deployOMMF", args))
  BY <1>1, DeployCallOK, CallStepsOK DEF DeployFns, Produces, Factories, ProductOf
<1>3. \A guardian :
        StepOK("LocalOMMF", h, Deploy("OMMFFactory", "OMMFFactory", [guardian |-> guardian]))
  BY FactoryKinds, DeployFactoryOK
<1>4. StepOK("LocalOMMF", h, Read(h["factory"], "proxy", "token"))
  BY <1>1, FactoryKinds, ReadProxyOK DEF Locals
<1> QED  BY <1>1, <1>2, <1>3, <1>4, GetOK, ReadOK, SaveOK DEF AllOK, LocalOMMF, Locals

LEMMA LocalWOMMFOK ==
  ASSUME NEW h, HeldKinds("LocalWOMMF", h)
  PROVE  AllOK("LocalWOMMF", h, LocalWOMMF(h))
<1>1. /\ Sort("LocalWOMMF", "factory") = "WOMMFFactory"
      /\ Sort("LocalWOMMF", "token") = "any"
      /\ Sort("LocalWOMMF", "wrapped") = "WOMMF"
      /\ Sort("LocalWOMMF", "admin") = "any"
  BY DEF Sort
<1>2. \A from, args : StepOK("LocalWOMMF", h, Transact(from, h["factory"], "deployWOMMF", args))
  BY <1>1, DeployCallOK, CallStepsOK DEF DeployFns, Produces, Factories, ProductOf
<1>3. \A guardian :
        StepOK("LocalWOMMF", h, Deploy("WOMMFFactory", "WOMMFFactory", [guardian |-> guardian]))
  BY FactoryKinds, DeployFactoryOK
<1>4. StepOK("LocalWOMMF", h, Read(h["factory"], "proxy", "wrapped"))
  BY <1>1, FactoryKinds, ReadProxyOK DEF Locals
<1> QED  BY <1>1, <1>2, <1>3, <1>4, GetOK, ReadOK, SaveOK DEF AllOK, LocalWOMMF, Locals

LEMMA LocalOMMFManagerOK ==
  ASSUME NEW h, HeldKinds("LocalOMMFManager", h)
  PROVE  AllOK("LocalOMMFManager", h, LocalOMMFManager(h))
<1>1. /\ Sort("LocalOMMFManager", "token") = "OMMF"
      /\ Sort("LocalOMMFManager", "wrapped") = "WOMMF"
  BY DEF Sort
<1>2. h["token"][1] \in {"zero", "OMMF"}
  BY <1>1 DEF HeldKinds, Locals
<1> QED  BY <1>1, <1>2, GetOK, DeployManagerOK
         DEF AllOK, LocalOMMFManager, Locals, Managers, TokenOf

LEMMA LocalOMMFPricerOK ==
  ASSUME NEW h, HeldKinds("LocalOMMFPricer", h)
  PROVE  AllOK("LocalOMMFPricer", h, LocalOMMFPricer(h))
<1>1. /\ Sort("LocalOMMFPricer", "pricer") = "any"
      /\ Sort("LocalOMMFPricer", "manager") = "OMMFManager"
      /\ Sort("LocalOMMFPricer", "token") = "OMMF"
  BY DEF Sort
<1> QED  BY <1>1, GetOK, DeployOK, CallStepsOK, PlainCallOK, MinterGrantOK
         DEF AllOK, LocalOMMFPricer, Locals, Factories, ProductOf, Tracked,
             Managers, TokenOf, KnownFns, DeployFns, Produces,
             TransactGrant

LEMMA LocalOUSGPricerOK ==
  ASSUME NEW h, HeldKinds("LocalOUSGPricer", h)
  PROVE  AllOK("LocalOUSGPricer", h, LocalOUSGPricer(h))
<1>1. Sort("LocalOUSGPricer", "oracle") = "any"
  BY DEF Sort
<1> QED  BY <1>1, GetOK, DeployOK
         DEF AllOK, LocalOUSGPricer, Locals, Factories, ProductOf, Tracked,
             Managers

LEMMA LocalOUSGManagerOK ==
  ASSUME NEW h, HeldKinds("LocalOUSGManager", h)
  PROVE  AllOK("LocalOUSGManager", h, LocalOUSGManager(h))
<1>1. /\ Sort("LocalOUSGManager", "manager") = "OUSGManager"
      /\ Sort("LocalOUSGManager", "pricer") = "any"
  BY DEF Sort
<1>2. Local.ousg = <<"OUSG", 1>>
  BY DEF Local, OUSGProd
<1>3. h["manager"][1] \in {"zero", "OUSGManager"}
  BY <1>1 DEF HeldKinds, Locals
<1>4. \A from : CallOK(CallOf(from, Local.ousg, "grantRole",
                              [role |-> "MINTER_ROLE", account |-> h["manager"]]))
  BY <1>2, <1>3 DEF CallOK, CallOf, KnownFns, DeployFns, Produces, Managers, TokenOf
<1> QED  BY <1>1, <1>2, <1>4, GetOK, DeployManagerOK, CallStepsOK, PlainCallOK, GrantOK
         DEF AllOK, LocalOUSGManager, Locals, Managers, TokenOf, TransactGrant, KnownFns,
             DeployFns, Produces

LEMMA LocalAllowlistOK ==
  ASSUME NEW h, HeldKinds("LocalAllowlist", h)
  PROVE  AllOK("LocalAllowlist", h, LocalAllowlist(h))
<1>1. /\ Sort("LocalAllowlist", "factory") = "AllowlistFactory"
      /\ Sort("LocalAllowlist", "allowlist") = "any"
      /\ Sort("LocalAllowlist", "admin") = "any"
  BY DEF Sort
<1>2. \A from, args :
        StepOK("LocalAllowlist", h, Transact(from, h["factory"], "deployAllowlist", args))
  BY <1>1, DeployCallOK, CallStepsOK DEF DeployFns, Produces, Factories, ProductOf
<1>3. \A guardian :
        StepOK("LocalAllowlist", h, Deploy("AllowlistFactory", "AllowlistFactory", [guardian |-> guardian]))
  BY FactoryKinds, DeployFactoryOK
<1> QED  BY <1>1, <1>2, <1>3, GetOK, ReadOK, SaveOK DEF AllOK, LocalAllowlist, Locals

LEMMA LocalBlocklistOK ==
  ASSUME NEW h, HeldKinds("LocalBlocklist", h)
  PROVE  AllOK("LocalBlocklist", h, LocalBlocklist(h))
<1>1. Sort("LocalBlocklist", "blocklist") = "any"
  BY DEF Sort
<1> QED  BY <1>1, GetOK, DeployOK, CallStepsOK, PlainCallOK
         DEF AllOK, LocalBlocklist, Locals, Factories, ProductOf, Tracked,
             Managers, KnownFns, DeployFns, Produces

LEMMA LocalUSDYPricerOK ==
  ASSUME NEW h, HeldKinds("LocalUSDYPricer", h)
  PROVE  AllOK("LocalUSDYPricer", h, LocalUSDYPricer(h))
<1>1. Sort("LocalUSDYPricer", "pricer") = "any"
  BY DEF Sort
<1> QED  BY <1>1, GetOK, DeployOK, CallStepsOK, PlainCallOK
         DEF AllOK, LocalUSDYPricer, Locals, Factories, ProductOf, Tracked,
             Managers, KnownFns, DeployFns, Produces

LEMMA LocalUSDYOK ==
  ASSUME NEW h, HeldKinds("LocalUSDY", h)
  PROVE  AllOK("LocalUSDY", h, LocalUSDY(h))
<1>1. /\ Sort("LocalUSDY", "factory") = "USDYFactory"
      /\ Sort("LocalUSDY", "blocklist") = "any"
      /\ Sort("LocalUSDY", "allowlist") = "any"
      /\ Sort("LocalUSDY", "token") = "USDY"
      /\ Sort("LocalUSDY", "admin") = "any"
  BY DEF Sort
<1>2. \A from, args : StepOK("LocalUSDY", h, Transact(from, h["factory"], "deployUSDY", args))
  BY <1>1, DeployCallOK, CallStepsOK DEF DeployFns, Produces, Factories, ProductOf
<1>3. \A guardian :
        StepOK("LocalUSDY", h, Deploy("USDYFactory", "USDYFactory", [guardian |-> guardian]))
  BY FactoryKinds, DeployFactoryOK
<1>4. StepOK("LocalUSDY", h, Read(h["factory"], "proxy", "token"))
  BY <1>1, FactoryKinds, ReadProxyOK DEF Locals
<1> QED  BY <1>1, <1>2, <1>3, <1>4, GetOK, ReadOK, SaveOK DEF AllOK, LocalUSDY, Locals

LEMMA LocalUSDYManagerOK ==
  ASSUME NEW h, HeldKinds("LocalUSDYManager", h)
  PROVE  AllOK("LocalUSDYManager", h, LocalUSDYManager(h))
<1>1. /\ Sort("LocalUSDYManager", "token") = "USDY"
      /\ Sort("LocalUSDYManager", "blocklist") = "any"
      /\ Sort("LocalUSDYManager", "manager") = "USDYManager"
      /\ Sort("LocalUSDYManager", "pricer") = "any"
  BY DEF Sort
<1>2. h["token"][1] \in {"zero", "USDY"}
  BY <1>1 DEF HeldKinds, Locals
<1> QED  BY <1>1, <1>2, GetOK, DeployManagerOK, CallStepsOK, PlainCallOK, GrantOK,
            MinterGrantOK
         DEF AllOK, LocalUSDYManager, Locals, Managers, TransactGrant, KnownFns,
             DeployFns, Produces, TokenOf

LEMMA LocalDestinationBridgeOK ==
  ASSUME NEW h, HeldKinds("LocalDestinationBridge", h)
  PROVE  AllOK("LocalDestinationBridge", h, LocalDestinationBridge(h))
<1>1. /\ Sort("LocalDestinationBridge", "token") = "any"
      /\ Sort("LocalDestinationBridge", "allowlist") = "any"
  BY DEF Sort
<1> QED  BY <1>1, GetOK, DeployOK
         DEF AllOK, LocalDestinationBridge, Locals, Factories, ProductOf,
             Tracked, Managers

LEMMA LocalSourceBridgeOK ==
  ASSUME NEW h, HeldKinds("LocalSourceBridge", h)
  PROVE  AllOK("LocalSourceBridge", h, LocalSourceBridge(h))
<1>1. Sort("LocalSourceBridge", "token") = "any"
  BY DEF Sort
<1> QED  BY <1>1, GetOK, DeployOK
         DEF AllOK, LocalSourceBridge, Locals, Factories, ProductOf, Tracked,
             Managers

LEMMA LocalDynamicOracleOK ==
  ASSUME NEW h, HeldKinds("LocalDynamicOracle", h)
  PROVE  AllOK("LocalDynamicOracle", h, LocalDynamicOracle(h))
BY DeployOK
   DEF AllOK, LocalDynamicOracle, Factories, ProductOf, Tracked, Managers

LEMMA LocalRUSDYOK ==
  ASSUME NEW h, HeldKinds("LocalRUSDY", h)
  PROVE  AllOK("LocalRUSDY", h, LocalRUSDY(h))
<1>1. /\ Sort("LocalRUSDY", "factory") = "rUSDYFactory"
      /\ \A l \in {"blocklist", "allowlist", "token", "oracle", "wrapped", "admin"} :
           Sort("LocalRUSDY", l) = "any"
  BY DEF Sort
<1>2. \A from, args : StepOK("LocalRUSDY", h, Transact(from, h["factory"], "deployrUSDY", args))
  BY <1>1, DeployCallOK, CallStepsOK DEF DeployFns, Produces, Factories, ProductOf
<1>3. \A guardian :
        StepOK("LocalRUSDY", h, Deploy("rUSDYFactory", "rUSDYFactory", [guardian |-> guardian]))
  BY FactoryKinds, DeployFactoryOK
<1> QED  BY <1>1, <1>2, <1>3, GetOK, ReadOK, SaveOK DEF AllOK, LocalRUSDY, Locals

LEMMA LocalRestrictedMetadataOK ==
  ASSUME NEW h, HeldKinds("LocalRestrictedMetadata", h)
  PROVE  AllOK("LocalRestrictedMetadata", h, LocalRestrictedMetadata(h))
<1>1. Sort("LocalRestrictedMetadata", "token") = "any"
  BY DEF Sort
<1> QED  BY <1>1, GetOK, SaveOK, DeployOK
         DEF AllOK, LocalRestrictedMetadata, Locals, Factories, ProductOf,
             Tracked, Managers

-----------------------------------------------------------------------------
(* The scripts of each plan. *)

LEMMA NoStepsOK == \A script, h : AllOK(script, h, <<>>)
BY DEF AllOK

LEMMA OMMFScriptOK ==
  ASSUME NEW name, NEW h, HeldKinds(name, h)
  PROVE  AllOK(name, h, OMMFScript(name, h))
BY DeployOMMFFactoryOK, DeployWOMMFFactoryOK, ProposeOMMFOK, SaveOMMFOK, ProposeWOMMFOK,
   SaveWOMMFOK, DeployOMMFManagerOK, DeployOMMFPricerOK, DeployRebaseSetterOK,
   ConfigureOMMFManagerOK, ConfigureRebaseSetterOK, NoStepsOK, Zenon
   DEF OMMFScript

LEMMA USDYScriptOK ==
  ASSUME NEW c, NEW name, NEW h, HeldKinds(name, h)
  PROVE  AllOK(name, h, USDYScript(c, name, h))
BY DeployAllowlistFactoryOK, DeployBlocklistOK, DeployUSDYFactoryOK, ProposeAllowlistOK,
   SaveAllowlistOK, ProposeUSDYOK, SaveUSDYOK, DeployUSDYManagerOK, DeployUSDYPricerOK,
   DeploySourceBridgeOK, DeployDestinationBridgeOK, DeployDynamicOracleOK,
   DeployRUSDYFactoryOK, DeployRestrictedMetadataOK, ConfigureUSDYManagerOK, NoStepsOK, Zenon
   DEF USDYScript

LEMMA OUSGScriptOK ==
  ASSUME NEW c, c.ousg[1] = "OUSG", NEW name, NEW h, HeldKinds(name, h)
  PROVE  AllOK(name, h, OUSGScript(c, name, h))
BY DeployTestOracleOK, DeployOUSGManagerOK, DeployOUSGPricerOK, ConfigureUpgradeOK,
   DeprecateCashManagerOK, NoStepsOK, Zenon
   DEF OUSGScript

LEMMA LocalScriptOK ==
  ASSUME NEW name, NEW h, HeldKinds(name, h)
  PROVE  AllOK(name, h, LocalScript(name, h))
BY LocalOMMFOK, LocalWOMMFOK, LocalOMMFManagerOK, LocalOMMFPricerOK, LocalOUSGPricerOK,
   LocalOUSGManagerOK, LocalAllowlistOK, LocalBlocklistOK, LocalUSDYPricerOK, LocalUSDYOK,
   LocalUSDYManagerOK, LocalDestinationBridgeOK, LocalSourceBridgeOK, LocalDynamicOracleOK,
   LocalRUSDYOK, LocalRestrictedMetadataOK, NoStepsOK, Zenon
   DEF LocalScript

Plan == {"OMMF", "USDY", "Mantle", "OUSGProd", "OUSGStaging", "Local"}

(* The OUSG of both configurations is there before the upgrade. *)
LEMMA OUSGConfigs == OUSGProd.ousg = <<"OUSG", 1>> /\ OUSGStaging.ousg = <<"OUSG", 1>>
BY DEF OUSGProd, OUSGStaging

(* Every step of every script of every plan is as it should be. *)
LEMMA ScriptsOK ==
  ASSUME NEW p \in Plan, NEW name, NEW h, HeldKinds(name, h)
  PROVE  AllOK(name, h, ScriptOf(p, name, h))
<1>1. OUSGProd.ousg[1] = "OUSG" /\ OUSGStaging.ousg[1] = "OUSG"
  BY OUSGConfigs
<1> QED  BY <1>1, OMMFScriptOK, USDYScriptOK, OUSGScriptOK, LocalScriptOK, Zenon
            DEF ScriptOf, Plan

(* A step of the running script. *)
LEMMA NextStepIs ==
  ASSUME NEW step \in NextStep
  PROVE  /\ Running
         /\ job.pc \in 1..Len(Script)
         /\ step = Script[job.pc]
BY DEF NextStep

-----------------------------------------------------------------------------
(* The contracts. *)

Fits(c, word, kind) == word = NoAddress \/ (HasCode(c, word) /\ word[1] = kind)

IsList(s) == s \in Seq({s[i] : i \in DOMAIN s})

ChainShape(c) == c = [built |-> c.built, stored |-> c.stored,
                      members |-> c.members, cleared |-> c.cleared]

(* No contract has the null address, and there is one OUSG. *)
WordsOK(c) ==
  \A a \in DOMAIN c.built : /\ a = <<a[1], a[2]>>
                            /\ a[1] # "zero"
                            /\ a[1] = "OUSG" => a[2] = 1

(* A factory answers for its proxy only what its deploy function stored.  *)
FactoriesOK(c) ==
  \A a \in DOMAIN c.built : a[1] \in Factories => DOMAIN c.built[a] = {"guardian"}

ProxiesOK(c) ==
  \A key \in DOMAIN c.stored :
    key[2] = "proxy" => /\ key[1][1] \in Factories
                        /\ HasCode(c, c.stored[key])
                        /\ c.stored[key][1] = ProductOf[key[1][1]]

(* A manager was built with a token of its kind that is there. *)
ManagersOK(c) ==
  \A a \in DOMAIN c.built :
    /\ a[1] \in Managers => HasCode(c, c.built[a].rwa) /\ c.built[a].rwa[1] = TokenOf[a[1]]
    /\ a[1] = "OMMFManager" => HasCode(c, c.built[a].wommf)

(* A manager that may mint was made for this kind of token. *)
ListOK(contract, role, list) ==
  /\ IsList(list)
  /\ role = "MINTER_ROLE" =>
       \A i \in DOMAIN list : list[i][1] \in Managers => contract[1] = TokenOf[list[i][1]]

MintersOK(c) == \A key \in DOMAIN c.members : ListOK(key[1], key[2], c.members[key])

ChainOK(c) == ChainShape(c) /\ WordsOK(c) /\ FactoriesOK(c) /\ ProxiesOK(c) /\ ManagersOK(c)
                /\ MintersOK(c)

(* Nothing that was deployed or stored goes away. *)
Grows(c, d) ==
  DOMAIN c.built \subseteq DOMAIN d.built /\ DOMAIN c.stored \subseteq DOMAIN d.stored


(* Lists of members. *)
LEMMA OneMember == \A x : IsList(<<x>>) /\ DOMAIN <<x>> = {1} /\ <<x>>[1] = x
<1> TAKE x
<1>1. <<x>> \in Seq({x}) /\ DOMAIN <<x>> = {1} /\ <<x>>[1] = x
  OBVIOUS
<1>2. {<<x>>[i] : i \in DOMAIN <<x>>} = {x}
  BY <1>1
<1> QED  BY <1>1, <1>2 DEF IsList

LEMMA NoMembers == IsList(<<>>) /\ DOMAIN <<>> = {}
BY DEF IsList

LEMMA ListAppended ==
  ASSUME NEW s, IsList(s), NEW x
  PROVE  /\ IsList(Append(s, x))
         /\ \A i \in DOMAIN Append(s, x) :
              Append(s, x)[i] = x \/ \E j \in DOMAIN s : Append(s, x)[i] = s[j]
<1> DEFINE S == {s[i] : i \in DOMAIN s}
           t == Append(s, x)
<1>1. s \in Seq(S) /\ s \in Seq(S \cup {x})
  BY DEF IsList
<1>2. /\ t \in Seq(S \cup {x}) /\ Len(t) = Len(s) + 1 /\ Len(s) \in Nat
      /\ t[Len(t)] = x
      /\ \A i \in 1..Len(s) : t[i] = s[i]
      /\ DOMAIN t = 1..Len(t) /\ DOMAIN s = 1..Len(s)
  BY <1>1
<1> HIDE DEF t
<1>3. \A i \in DOMAIN t : t[i] = x \/ \E j \in DOMAIN s : t[i] = s[j]
  BY <1>2
<1>4. t \in Seq({t[i] : i \in DOMAIN t})
  BY <1>2
<1> QED  BY <1>3, <1>4 DEF IsList, t

LEMMA ListWithout ==
  ASSUME NEW s, IsList(s), NEW i \in DOMAIN s
  PROVE  LET t == Front([s EXCEPT ![i] = Last(s)])
         IN  /\ IsList(t)
             /\ \A k \in DOMAIN t : \E j \in DOMAIN s : t[k] = s[j]
<1> DEFINE S == {s[k] : k \in DOMAIN s}
           r == [s EXCEPT ![i] = Last(s)]
           t == Front(r)
<1>1. s \in Seq(S) /\ Len(s) \in Nat /\ DOMAIN s = 1..Len(s) /\ i \in 1..Len(s)
  BY DEF IsList
<1>2. Last(s) \in S
  BY <1>1 DEF Last
<1> HIDE DEF S
<1>3. r \in Seq(S) /\ Len(r) = Len(s)
  BY <1>1, <1>2, ExceptSeq
<1> HIDE DEF r
<1>4. t \in Seq(S)
  <2>1. \A k \in 1..(Len(r) - 1) : r[k] \in S
    BY <1>1, <1>3, ElementOfSeq
  <2>2. 1 \in Int /\ Len(r) - 1 \in Int
    BY <1>1, <1>3
  <2> QED  BY <2>1, <2>2, SubSeqProperties DEF Front
<1> HIDE DEF t
<1>5. DOMAIN t = 1..Len(t) /\ Len(t) \in Nat /\ \A k \in DOMAIN t : t[k] \in S
  BY <1>4, LenProperties, ElementOfSeq
<1>6. t \in Seq({t[k] : k \in DOMAIN t})
  BY <1>4, <1>5
<1>7. IsList(t) /\ \A k \in DOMAIN t : \E j \in DOMAIN s : t[k] = s[j]
  BY <1>5, <1>6 DEF IsList, S
<1> QED  BY <1>7 DEF t, r

(* No constructor and no initializer grants the MINTER_ROLE. *)
LEMMA NoMinterAtBirth ==
  ASSUME NEW kind, NEW args
  PROVE  "MINTER_ROLE" \notin DOMAIN RolesAtBirth(kind, args)
<1>1. "MINTER_ROLE" \notin DOMAIN ManagerRoles(args)
  BY DEF ManagerRoles
<1>2. "MINTER_ROLE" \notin DOMAIN PricerRoles(args)
  BY DEF PricerRoles
<1>3. "MINTER_ROLE" \notin DOMAIN OMMFRoles(args)
  BY DEF OMMFRoles
<1>4. "MINTER_ROLE" \notin DOMAIN WOMMFRoles(args)
  BY DEF WOMMFRoles
<1>5. "MINTER_ROLE" \notin DOMAIN USDYRoles(args)
  BY DEF USDYRoles
<1>6. "MINTER_ROLE" \notin DOMAIN AllowlistRoles(args)
  BY DEF AllowlistRoles
<1>7. "MINTER_ROLE" \notin DOMAIN RUSDYRoles(args)
  BY DEF RUSDYRoles
<1>8. "MINTER_ROLE" \notin DOMAIN RebaseSetterRoles(args)
  BY DEF RebaseSetterRoles
<1>9. "MINTER_ROLE" \notin DOMAIN DynamicOracleRoles(args)
  BY DEF DynamicOracleRoles
<1>10. "MINTER_ROLE" \notin DOMAIN <<>>
  OBVIOUS
<1> QED
  BY <1>1, <1>2, <1>3, <1>4, <1>5, <1>6, <1>7, <1>8, <1>9, <1>10, Zenon
     DEF RolesAtBirth

-----------------------------------------------------------------------------
(* Setters, constructors and factories. *)

LEMMA StoredOK ==
  ASSUME NEW c, ChainOK(c), NEW a, NEW field, NEW word,
         field = "proxy" => /\ a[1] \in Factories
                            /\ HasCode(c, word) /\ word[1] = ProductOf[a[1]]
  PROVE  /\ ChainOK(Stored(c, a, field, word))
         /\ Grows(c, Stored(c, a, field, word))
         /\ <<a, field>> \in DOMAIN Stored(c, a, field, word).stored
         /\ Stored(c, a, field, word).built = c.built
<1> DEFINE d == Stored(c, a, field, word)
<1>1. d = [built |-> c.built, stored |-> Put(c.stored, <<a, field>>, word),
           members |-> c.members, cleared |-> c.cleared]
  BY DEF Stored, ChainOK, ChainShape
<1>2. /\ d.built = c.built /\ d.members = c.members /\ d.cleared = c.cleared
      /\ d.stored = Put(c.stored, <<a, field>>, word)
  BY <1>1
<1>3. ChainShape(d)
  BY <1>1, <1>2 DEF ChainShape
<1> HIDE DEF d
<1>4. WordsOK(d) /\ FactoriesOK(d) /\ ManagersOK(d) /\ MintersOK(d)
  BY <1>2 DEF ChainOK, WordsOK, FactoriesOK, ManagersOK, MintersOK, HasCode
<1>5. ProxiesOK(d)
  <2> SUFFICES ASSUME NEW key \in DOMAIN d.stored, key[2] = "proxy"
               PROVE  /\ key[1][1] \in Factories
                      /\ HasCode(d, d.stored[key])
                      /\ d.stored[key][1] = ProductOf[key[1][1]]
    BY DEF ProxiesOK
  <2>1. CASE key = <<a, field>>
    BY <1>2, <2>1 DEF Put, HasCode
  <2>2. CASE key # <<a, field>>
    BY <1>2, <2>2 DEF Put, HasCode, ChainOK, ProxiesOK
  <2> QED  BY <2>1, <2>2
<1>6. Grows(c, d) /\ <<a, field>> \in DOMAIN d.stored
  BY <1>2 DEF Grows, Put
<1> QED  BY <1>2, <1>3, <1>4, <1>5, <1>6 DEF ChainOK, d

(* What a constructor may be given. *)
BirthOK(c, kind, args) ==
  /\ kind \notin {"zero", "OUSG"}
  /\ kind \in Factories => DOMAIN args = {"guardian"}
  /\ kind \in Managers => HasCode(c, args.rwa) /\ args.rwa[1] = TokenOf[kind]
  /\ kind = "OMMFManager" => HasCode(c, args.wommf)

LEMMA TwoFields ==
  ASSUME NEW c, ChainShape(c), NEW b, NEW m
  PROVE  [c EXCEPT !.built = b, !.members = m]
           = [built |-> b, stored |-> c.stored, members |-> m, cleared |-> c.cleared]
<1> DEFINE d == [c EXCEPT !.built = b]
<1>1. d = [built |-> b, stored |-> c.stored, members |-> c.members, cleared |-> c.cleared]
  BY DEF ChainShape
<1>2. [c EXCEPT !.built = b, !.members = m] = [d EXCEPT !.members = m]
  OBVIOUS
<1> HIDE DEF d
<1>3. [d EXCEPT !.members = m]
        = [built |-> b, stored |-> c.stored, members |-> m, cleared |-> c.cleared]
  BY <1>1
<1> QED  BY <1>2, <1>3

LEMMA ConstructedOK ==
  ASSUME NEW c, ChainOK(c), NEW kind, NEW args, BirthOK(c, kind, args)
  PROVE  /\ ChainOK(Constructed(c, kind, args))
         /\ Grows(c, Constructed(c, kind, args))
         /\ Fresh(c, kind) \in DOMAIN Constructed(c, kind, args).built
         /\ Fresh(c, kind)[1] = kind
<1> DEFINE d == Constructed(c, kind, args)
           a == Fresh(c, kind)
           grants == RolesAtBirth(kind, args)
<1>1. d = [built |-> Put(c.built, a, AtBirth(kind, args)), stored |-> c.stored,
           members |-> GrantedAll(c.members, a, grants), cleared |-> c.cleared]
  BY TwoFields DEF Constructed, ChainOK
<1>2. /\ d.built = Put(c.built, a, AtBirth(kind, args)) /\ d.stored = c.stored
      /\ d.members = GrantedAll(c.members, a, grants) /\ d.cleared = c.cleared
  BY <1>1
<1>3. ChainShape(d)
  BY <1>1, <1>2 DEF ChainShape
<1>4. a = <<a[1], a[2]>> /\ a[1] = kind
  BY DEF Fresh
<1>5. "MINTER_ROLE" \notin DOMAIN grants
  BY NoMinterAtBirth
<1> HIDE DEF d, a, grants
<1>6. /\ DOMAIN d.built = DOMAIN c.built \cup {a}
      /\ d.built[a] = AtBirth(kind, args)
      /\ \A b \in DOMAIN c.built : b # a => d.built[b] = c.built[b]
  BY <1>2 DEF Put
<1>7. kind \in Factories \cup Managers => AtBirth(kind, args) = args
  BY DEF AtBirth, Factories, ProductOf, Managers
<1>8. WordsOK(d)
  BY <1>4, <1>6 DEF ChainOK, WordsOK, BirthOK
<1>9. FactoriesOK(d)
  BY <1>4, <1>6, <1>7 DEF ChainOK, FactoriesOK, BirthOK
<1>10. ProxiesOK(d)
  BY <1>2, <1>6 DEF ChainOK, ProxiesOK, HasCode
<1>11. ManagersOK(d)
  <2> SUFFICES ASSUME NEW b \in DOMAIN d.built
               PROVE  /\ b[1] \in Managers => HasCode(d, d.built[b].rwa)
                                                /\ d.built[b].rwa[1] = TokenOf[b[1]]
                      /\ b[1] = "OMMFManager" => HasCode(d, d.built[b].wommf)
    BY DEF ManagersOK
  <2>1. CASE b = a
    BY <1>4, <1>6, <1>7, <2>1 DEF BirthOK, HasCode, Managers
  <2>2. CASE b # a
    BY <1>6, <2>2 DEF ChainOK, ManagersOK, HasCode
  <2> QED  BY <2>1, <2>2
<1>12. MintersOK(d)
  <2> SUFFICES ASSUME NEW key \in DOMAIN d.members
               PROVE  ListOK(key[1], key[2], d.members[key])
    BY DEF MintersOK
  <2>1. CASE key \in {a} \X DOMAIN grants
    <3>1. d.members[key] = <<grants[key[2]]>>
      BY <1>2, <2>1 DEF GrantedAll
    <3>2. key[2] # "MINTER_ROLE"
      BY <1>5, <2>1
    <3> QED  BY <3>1, <3>2, OneMember DEF ListOK
  <2>2. CASE key \notin {a} \X DOMAIN grants
    <3>1. key \in DOMAIN c.members /\ d.members[key] = c.members[key]
      BY <1>2, <2>2 DEF GrantedAll
    <3> QED  BY <3>1 DEF ChainOK, MintersOK
  <2> QED  BY <2>1, <2>2
<1>13. Grows(c, d) /\ a \in DOMAIN d.built
  BY <1>2, <1>6 DEF Grows
<1>14. ChainOK(d) /\ Grows(c, d) /\ a \in DOMAIN d.built /\ a[1] = kind
  BY <1>3, <1>4, <1>8, <1>9, <1>10, <1>11, <1>12, <1>13 DEF ChainOK
<1> QED  BY <1>14 DEF d, a

LEMMA GrowsMore ==
  ASSUME NEW c, NEW d, NEW e, Grows(c, d), Grows(d, e)
  PROVE  Grows(c, e)
BY DEF Grows

LEMMA FromFactoryOK ==
  ASSUME NEW c, ChainOK(c), NEW factory, NEW kind, NEW args,
         factory[1] \in Factories, ProductOf[factory[1]] = kind
  PROVE  /\ ChainOK(FromFactory(c, factory, kind, args))
         /\ Grows(c, FromFactory(c, factory, kind, args))
         /\ <<factory, "proxy">> \in DOMAIN FromFactory(c, factory, kind, args).stored
<1> DEFINE guardian == FieldOf(c, factory, "guardian")
           proxy == Fresh(c, kind)
           admin == Fresh(c, "ProxyAdmin")
           c1 == Constructed(c, kind, Put(args, "admin", guardian))
           c2 == Constructed(c1, "ProxyAdmin", [owner |-> guardian])
           c3 == Stored(c2, proxy, "proxyAdmin", admin)
           c4 == Stored(c3, factory, "proxy", proxy)
           c5 == Stored(c4, factory, "proxyAdmin", admin)
<1>1. kind \in {"OMMF", "WOMMF", "USDY", "Allowlist", "rUSDY"}
  BY DEF Factories, ProductOf
<1>2. BirthOK(c, kind, Put(args, "admin", guardian))
  BY <1>1 DEF BirthOK, Factories, ProductOf, Managers
<1>3. BirthOK(c1, "ProxyAdmin", [owner |-> guardian])
  BY DEF BirthOK, Factories, ProductOf, Managers
<1> HIDE DEF guardian, proxy, admin
<1>4. ChainOK(c1) /\ Grows(c, c1) /\ proxy \in DOMAIN c1.built /\ proxy[1] = kind
  BY <1>2, ConstructedOK DEF proxy
<1> HIDE DEF c1
<1>5. ChainOK(c2) /\ Grows(c1, c2)
  BY <1>3, <1>4, ConstructedOK
<1> HIDE DEF c2
<1>6. ChainOK(c3) /\ Grows(c2, c3)
  BY <1>5, StoredOK
<1> HIDE DEF c3
<1>7. HasCode(c3, proxy)
  BY <1>4, <1>5, <1>6 DEF Grows, HasCode
<1>8. ChainOK(c4) /\ Grows(c3, c4) /\ <<factory, "proxy">> \in DOMAIN c4.stored
  BY <1>4, <1>6, <1>7, StoredOK
<1> HIDE DEF c4
<1>9. ChainOK(c5) /\ Grows(c4, c5)
  BY <1>8, StoredOK
<1> HIDE DEF c5
<1>10. Grows(c, c5)
  BY <1>4, <1>5, <1>6, <1>8, <1>9, GrowsMore
<1>11. <<factory, "proxy">> \in DOMAIN c5.stored
  BY <1>8, <1>9 DEF Grows
<1>12. FromFactory(c, factory, kind, args) = c5
  BY DEF FromFactory, c5, c4, c3, c2, c1, proxy, admin, guardian
<1> QED  BY <1>9, <1>10, <1>11, <1>12

(* A change of the members. *)
LEMMA MembersOK ==
  ASSUME NEW c, ChainOK(c), NEW contract, NEW role, NEW list,
         ListOK(contract, role, list)
  PROVE  LET d == [c EXCEPT !.members = WithMembers(@, contract, role, list)]
         IN  ChainOK(d) /\ Grows(c, d)
<1> DEFINE d == [c EXCEPT !.members = WithMembers(@, contract, role, list)]
<1>1. d = [built |-> c.built, stored |-> c.stored,
           members |-> Put(c.members, <<contract, role>>, list), cleared |-> c.cleared]
  BY DEF WithMembers, ChainOK, ChainShape
<1>2. /\ d.built = c.built /\ d.stored = c.stored /\ d.cleared = c.cleared
      /\ d.members = Put(c.members, <<contract, role>>, list)
  BY <1>1
<1>3. ChainShape(d)
  BY <1>1, <1>2 DEF ChainShape
<1> HIDE DEF d
<1>4. WordsOK(d) /\ FactoriesOK(d) /\ ManagersOK(d) /\ ProxiesOK(d)
  BY <1>2 DEF ChainOK, WordsOK, FactoriesOK, ManagersOK, ProxiesOK, HasCode
<1>5. MintersOK(d)
  <2> SUFFICES ASSUME NEW key \in DOMAIN d.members
               PROVE  ListOK(key[1], key[2], d.members[key])
    BY DEF MintersOK
  <2>1. CASE key = <<contract, role>>
    <3>1. d.members[key] = list
      BY <1>2, <2>1 DEF Put
    <3> QED  BY <2>1, <3>1
  <2>2. CASE key # <<contract, role>>
    <3>1. key \in DOMAIN c.members /\ d.members[key] = c.members[key]
      BY <1>2, <2>2 DEF Put
    <3> QED  BY <3>1 DEF ChainOK, MintersOK
  <2> QED  BY <2>1, <2>2
<1>6. ChainOK(d) /\ Grows(c, d)
  BY <1>2, <1>3, <1>4, <1>5 DEF ChainOK, Grows
<1> QED  BY <1>6 DEF d

LEMMA SameMembers ==
  ASSUME NEW c, ChainOK(c)
  PROVE  [c EXCEPT !.members = c.members] = c
BY DEF ChainOK, ChainShape

(* The members a contract has. *)
LEMMA MembersOfOK ==
  ASSUME NEW c, ChainOK(c), NEW contract, NEW role
  PROVE  ListOK(contract, role, MembersOf(c.members, contract, role))
<1>1. CASE <<contract, role>> \in DOMAIN c.members
  BY <1>1 DEF MembersOf, ChainOK, MintersOK
<1>2. CASE <<contract, role>> \notin DOMAIN c.members
  BY <1>2, NoMembers DEF MembersOf, ListOK
<1> QED  BY <1>1, <1>2

LEMMA GrantedOK ==
  ASSUME NEW c, ChainOK(c), NEW contract, NEW role, NEW account,
         role = "MINTER_ROLE" /\ account[1] \in Managers => contract[1] = TokenOf[account[1]]
  PROVE  LET d == [c EXCEPT !.members = Granted(@, contract, role, account)]
         IN  ChainOK(d) /\ Grows(c, d)
<1> DEFINE list == MembersOf(c.members, contract, role)
           longer == Append(list, account)
<1>1. CASE Holds(c.members, contract, role, account)
  BY <1>1, SameMembers DEF Granted, Grows
<1>2. CASE ~ Holds(c.members, contract, role, account)
  <2>1. Granted(c.members, contract, role, account)
          = WithMembers(c.members, contract, role, longer)
    BY <1>2 DEF Granted
  <2>2. ListOK(contract, role, list)
    BY MembersOfOK
  <2> HIDE DEF list
  <2>3. /\ IsList(longer)
        /\ \A i \in DOMAIN longer :
             longer[i] = account \/ \E j \in DOMAIN list : longer[i] = list[j]
    BY <2>2, ListAppended DEF ListOK
  <2> HIDE DEF longer
  <2>4. ListOK(contract, role, longer)
    BY <2>2, <2>3 DEF ListOK
  <2> QED  BY <2>1, <2>4, MembersOK
<1> QED  BY <1>1, <1>2

LEMMA RevokedOK ==
  ASSUME NEW c, ChainOK(c), NEW contract, NEW role, NEW account
  PROVE  LET d == [c EXCEPT !.members = Revoked(@, contract, role, account)]
         IN  ChainOK(d) /\ Grows(c, d)
<1> DEFINE list == MembersOf(c.members, contract, role)
           i == CHOOSE j \in DOMAIN list : list[j] = account
           rest == Front([list EXCEPT ![i] = Last(list)])
<1>1. CASE ~ Holds(c.members, contract, role, account)
  BY <1>1, SameMembers DEF Revoked, Grows
<1>2. CASE Holds(c.members, contract, role, account)
  <2>1. Revoked(c.members, contract, role, account)
          = WithMembers(c.members, contract, role, rest)
    BY <1>2 DEF Revoked
  <2>2. i \in DOMAIN list
    BY <1>2 DEF Holds
  <2>3. ListOK(contract, role, list)
    BY MembersOfOK
  <2> HIDE DEF list, i
  <2>4. IsList(rest) /\ \A k \in DOMAIN rest : \E j \in DOMAIN list : rest[k] = list[j]
    BY <2>2, <2>3, ListWithout DEF ListOK
  <2> HIDE DEF rest
  <2>5. ListOK(contract, role, rest)
    BY <2>3, <2>4 DEF ListOK
  <2> QED  BY <2>1, <2>5, MembersOK
<1> QED  BY <1>1, <1>2

LEMMA ClearedOK ==
  ASSUME NEW c, ChainOK(c), NEW pairs
  PROVE  LET d == [c EXCEPT !.cleared = @ \cup pairs]
         IN  ChainOK(d) /\ Grows(c, d)
<1> DEFINE d == [c EXCEPT !.cleared = @ \cup pairs]
<1>1. d = [built |-> c.built, stored |-> c.stored, members |-> c.members,
           cleared |-> c.cleared \cup pairs]
  BY DEF ChainOK, ChainShape
<1>2. d.built = c.built /\ d.stored = c.stored /\ d.members = c.members /\ ChainShape(d)
  BY <1>1 DEF ChainShape
<1> HIDE DEF d
<1>3. ChainOK(d) /\ Grows(c, d)
  BY <1>2 DEF ChainOK, WordsOK, FactoriesOK, ManagersOK, ProxiesOK, MintersOK, HasCode, Grows
<1> QED  BY <1>3 DEF d

-----------------------------------------------------------------------------
(* Calls. *)

LEMMA EffectOK ==
  ASSUME NEW c, ChainOK(c), NEW call, CallOK(call), HasCode(c, call.to)
  PROVE  /\ ChainOK(Effect(c, call))
         /\ Grows(c, Effect(c, call))
         /\ call.fn \in DeployFns => <<call.to, "proxy">> \in DOMAIN Effect(c, call).stored
<1> DEFINE to == call.to
           args == call.args
<1>1. to[1] # "zero"
  BY DEF ChainOK, WordsOK, HasCode
<1>2. CASE call.fn \in DeployFns
  <2>1. Effect(c, call) = FromFactory(c, to, Produces[call.fn], args)
    BY <1>2 DEF Effect, DeployFns, Produces
  <2>2. to[1] \in Factories /\ ProductOf[to[1]] = Produces[call.fn]
    BY <1>1, <1>2 DEF CallOK
  <2> QED  BY <2>1, <2>2, FromFactoryOK
<1>3. CASE call.fn = "grantRole"
  <2>1. Effect(c, call) = [c EXCEPT !.members = Granted(@, to, args.role, args.account)]
    BY <1>3 DEF Effect, DeployFns, Produces
  <2>2. args.role = "MINTER_ROLE" /\ args.account[1] \in Managers =>
          to[1] = TokenOf[args.account[1]]
    <3> SUFFICES ASSUME args.role = "MINTER_ROLE", args.account[1] \in Managers
                 PROVE  to[1] = TokenOf[args.account[1]]
      OBVIOUS
    <3>1. PICK k \in Managers : args.account[1] \in {"zero", k} /\ to[1] \in {"zero", TokenOf[k]}
      BY <1>3 DEF CallOK
    <3>2. args.account[1] = k
      BY <3>1 DEF Managers
    <3> QED  BY <1>1, <3>1, <3>2
  <2>3. call.fn \notin DeployFns
    BY <1>3 DEF DeployFns, Produces
  <2> DEFINE d == [c EXCEPT !.members = Granted(@, to, args.role, args.account)]
  <2>4. ChainOK(d) /\ Grows(c, d)
    BY <2>2, GrantedOK
  <2> HIDE DEF d
  <2> QED  BY <2>1, <2>3, <2>4 DEF d
<1>4. CASE call.fn = "revokeRole"
  <2>1. Effect(c, call) = [c EXCEPT !.members = Revoked(@, to, args.role, args.account)]
    BY <1>4 DEF Effect, DeployFns, Produces
  <2>2. call.fn \notin DeployFns
    BY <1>4 DEF DeployFns, Produces
  <2> QED  BY <2>1, <2>2, RevokedOK
<1>5. CASE call.fn = "addKYCAddresses"
  <2>1. Effect(c, call) = [c EXCEPT !.cleared = @ \cup ({to} \X args.addresses)]
    BY <1>5 DEF Effect, DeployFns, Produces
  <2>2. call.fn \notin DeployFns
    BY <1>5 DEF DeployFns, Produces
  <2> QED  BY <2>1, <2>2, ClearedOK
<1>6. CASE call.fn \in {"addPrice", "setPricer", "setOracle", "transferOwnership"}
  <2>1. PICK field, word : field # "proxy" /\ Effect(c, call) = Stored(c, to, field, word)
    BY <1>6 DEF Effect, DeployFns, Produces
  <2>2. call.fn \notin DeployFns
    BY <1>6 DEF DeployFns, Produces
  <2>3. ChainOK(Stored(c, to, field, word)) /\ Grows(c, Stored(c, to, field, word))
    <3> HIDE DEF to
    <3> QED  BY <2>1, StoredOK
  <2> QED  BY <2>1, <2>2, <2>3
<1>7. CASE call.fn = "acceptOwnership"
  <2> DEFINE d == Stored(c, to, "owner", call.from)
             e == Stored(d, to, "pendingOwner", NoAddress)
  <2>1. Effect(c, call) = e
    BY <1>7 DEF Effect, DeployFns, Produces
  <2>2. call.fn \notin DeployFns
    BY <1>7 DEF DeployFns, Produces
  <2>3. ChainOK(d) /\ Grows(c, d)
    BY StoredOK
  <2> HIDE DEF d
  <2>4. ChainOK(e) /\ Grows(d, e)
    BY <2>3, StoredOK
  <2> HIDE DEF e
  <2> QED  BY <2>1, <2>2, <2>3, <2>4, GrowsMore
<1> QED  BY <1>2, <1>3, <1>4, <1>5, <1>6, <1>7 DEF CallOK, KnownFns

LEMMA AfterCallOK ==
  ASSUME NEW c, ChainOK(c), NEW call, CallOK(call)
  PROVE  /\ ChainOK(AfterCall(c, call))
         /\ Grows(c, AfterCall(c, call))
         /\ call.fn \in DeployFns /\ HasCode(c, call.to) =>
              <<call.to, "proxy">> \in DOMAIN AfterCall(c, call).stored
BY EffectOK DEF AfterCall, Grows

-----------------------------------------------------------------------------
(* The contracts a rollout finds. *)

LEMMA ChainWithFields ==
  ASSUME NEW built, NEW members
  PROVE  /\ ChainShape(ChainWith(built, members))
         /\ ChainWith(built, members).built = built
         /\ ChainWith(built, members).members = members
         /\ DOMAIN ChainWith(built, members).stored = {}
BY DEF ChainShape, ChainWith

LEMMA ChainWithOK ==
  ASSUME NEW built, NEW members,
         \A a \in DOMAIN built : /\ a = <<a[1], a[2]>> /\ a[1] # "zero"
                                 /\ a[1] = "OUSG" => a[2] = 1
                                 /\ a[1] \notin Factories \cup Managers,
         \A key \in DOMAIN members : ListOK(key[1], key[2], members[key])
  PROVE  ChainOK(ChainWith(built, members))
<1> DEFINE c == ChainWith(built, members)
<1>1. ChainShape(c) /\ c.built = built /\ c.members = members /\ DOMAIN c.stored = {}
  BY ChainWithFields
<1> HIDE DEF c
<1>2. WordsOK(c) /\ FactoriesOK(c) /\ ManagersOK(c)
  BY <1>1 DEF WordsOK, FactoriesOK, ManagersOK, Managers
<1>3. ProxiesOK(c) /\ MintersOK(c)
  BY <1>1 DEF ProxiesOK, MintersOK
<1>4. ChainOK(c)
  BY <1>1, <1>2, <1>3 DEF ChainOK
<1> QED  BY <1>4 DEF c

LEMMA OneMemberOK ==
  ASSUME NEW contract, NEW role, NEW member, member[1] \notin Managers
  PROVE  ListOK(contract, role, <<member>>)
BY OneMember DEF ListOK

LEMMA OMMFChainOK == ChainOK(OMMFChain)
<1> DEFINE built == [a \in {OMMF.registry} |-> [admin |-> OMMF.guardian]]
           members == [key \in {<<OMMF.registry, "KYC_GROUP_ROLE">>} |-> <<OMMF.guardian>>]
<1>1. OMMF.registry = <<"KYCRegistry", 1>> /\ OMMF.guardian[1] = "ondo multisig"
  BY DEF OMMF, Account
<1>2. \A a \in DOMAIN built : /\ a = <<a[1], a[2]>> /\ a[1] # "zero"
                              /\ a[1] = "OUSG" => a[2] = 1
                              /\ a[1] \notin Factories \cup Managers
  <2>1. DOMAIN built = {<<"KYCRegistry", 1>>}
    BY <1>1
  <2> QED  BY <2>1 DEF Factories, ProductOf, Managers
<1>3. \A key \in DOMAIN members : ListOK(key[1], key[2], members[key])
  <2>1. OMMF.guardian[1] \notin Managers
    BY <1>1 DEF Managers
  <2> QED  BY <2>1, OneMemberOK
<1> HIDE DEF built, members
<1>4. ChainOK(ChainWith(built, members))
  BY <1>2, <1>3, ChainWithOK
<1> QED  BY <1>4 DEF OMMFChain, built, members

LEMMA USDYChainOK == ChainOK(USDYChain)
<1> DEFINE none == <<>>
<1>1. DOMAIN none = {}
  OBVIOUS
<1> HIDE DEF none
<1>2. ChainOK(ChainWith(none, none))
  BY <1>1, ChainWithOK
<1> QED  BY <1>2 DEF none, USDYChain

LEMMA OUSGConfigWords ==
  \A c \in {OUSGProd, OUSGStaging} :
    /\ c.ousg = <<"OUSG", 1>> /\ c.registry = <<"KYCRegistry", 1>>
    /\ c.oracle = <<"RWAOracle", 1>> /\ c.cashManager = <<"CashManager", 1>>
    /\ c.management[1] \in {"ondo multisig", "staging management"}
<1>1. /\ OUSGProd.ousg = <<"OUSG", 1>> /\ OUSGProd.registry = <<"KYCRegistry", 1>>
      /\ OUSGProd.oracle = <<"RWAOracle", 1>> /\ OUSGProd.cashManager = <<"CashManager", 1>>
      /\ OUSGProd.management[1] = "ondo multisig"
  BY DEF OUSGProd, Account
<1>2. /\ OUSGStaging.ousg = OUSGProd.ousg /\ OUSGStaging.registry = OUSGProd.registry
      /\ OUSGStaging.oracle = OUSGProd.oracle /\ OUSGStaging.cashManager = OUSGProd.cashManager
  BY DEF OUSGStaging, OUSGProd
<1>3. OUSGStaging.management[1] = "staging management"
  BY DEF OUSGStaging, OUSGProd, Account
<1> QED  BY <1>1, <1>2, <1>3

LEMMA OUSGChainOK == \A c \in {OUSGProd, OUSGStaging} : ChainOK(OUSGChain(c))
<1> TAKE c \in {OUSGProd, OUSGStaging}
<1> DEFINE built == [a \in {c.ousg, c.registry, c.oracle, c.cashManager} |->
                      [admin |-> c.management]]
           members == [key \in {<<c.ousg, "DEFAULT_ADMIN_ROLE">>, <<c.ousg, "MINTER_ROLE">>,
                                <<c.registry, "KYC_GROUP_ROLE">>} |->
                         IF key[2] = "MINTER_ROLE" THEN <<c.cashManager>> ELSE <<c.management>>]
<1>1. /\ c.ousg = <<"OUSG", 1>> /\ c.registry = <<"KYCRegistry", 1>>
      /\ c.oracle = <<"RWAOracle", 1>> /\ c.cashManager = <<"CashManager", 1>>
      /\ c.management[1] \in {"ondo multisig", "staging management"}
  BY OUSGConfigWords
<1>2. \A a \in DOMAIN built : /\ a = <<a[1], a[2]>> /\ a[1] # "zero"
                              /\ a[1] = "OUSG" => a[2] = 1
                              /\ a[1] \notin Factories \cup Managers
  <2> SUFFICES ASSUME NEW a \in DOMAIN built
               PROVE  /\ a = <<a[1], a[2]>> /\ a[1] # "zero"
                      /\ a[1] = "OUSG" => a[2] = 1
                      /\ a[1] \notin Factories \cup Managers
    OBVIOUS
  <2>1. a \in {<<"OUSG", 1>>, <<"KYCRegistry", 1>>, <<"RWAOracle", 1>>, <<"CashManager", 1>>}
    BY <1>1
  <2> HIDE DEF built
  <2> QED  BY <2>1 DEF Factories, ProductOf, Managers
<1>3. c.cashManager[1] \notin Managers /\ c.management[1] \notin Managers
  <2>1. c.cashManager[1] = "CashManager"
    <3>1. \A w : w = <<"CashManager", 1>> => w[1] = "CashManager"
      OBVIOUS
    <3> QED  BY <1>1, <3>1, Zenon
  <2> QED  BY <1>1, <2>1 DEF Managers
<1>4. \A key \in DOMAIN members : ListOK(key[1], key[2], members[key])
  <2> SUFFICES ASSUME NEW key \in DOMAIN members
               PROVE  ListOK(key[1], key[2], members[key])
    OBVIOUS
  <2>1. members[key] \in {<<c.cashManager>>, <<c.management>>}
    OBVIOUS
  <2> HIDE DEF members
  <2> QED  BY <1>3, <2>1, OneMemberOK
<1> HIDE DEF built, members
<1>5. ChainOK(ChainWith(built, members))
  BY <1>2, <1>4, ChainWithOK
<1> QED  BY <1>5 DEF OUSGChain, built, members

LEMMA FirstChainOK == \A p \in Plan : ChainOK(ChainBefore(p))
BY OMMFChainOK, USDYChainOK, OUSGChainOK DEF ChainBefore, Plan, LocalChain

-----------------------------------------------------------------------------
(* The invariant. *)

(* The script that is running. *)
Now == IF Running THEN Scripts[job.at] ELSE "none"

(* A record or a local that matters points to a contract of its kind.     *)
RecordsOK == \A name \in DOMAIN records : name \in Tracked => Fits(chain, records[name], name)

HeldOK == \A l \in Locals : Sort(Now, l) # "any" => Fits(chain, job.held[l], Sort(Now, l))

JobOK == /\ job = [at |-> job.at, pc |-> job.pc, held |-> job.held]
         /\ job.pc \in Nat
         /\ job.held = [l \in Locals |-> job.held[l]]

(* What was proposed is what a script may propose. *)
PendingOK == \A call \in BagToSet(pending) : CallOK(call)

(* The manager of OMMF is given a wrapper: the script has checked it; on   *)
(* the local node, the script before it has read it off the factory.       *)
WrapperChecked ==
  plan = "OMMF" /\ Now = "DeployOMMFManager" /\ job.pc >= 6 => job.held["wrapped"] # NoAddress

WrapperRead ==
  plan = "Local" /\ Now = "LocalWOMMF" =>
    /\ job.pc >= 3 => job.held["factory"] # NoAddress
    /\ job.pc >= 5 => <<job.held["factory"], "proxy">> \in DOMAIN chain.stored
    /\ job.pc >= 6 => job.held["wrapped"] # NoAddress

WrapperPassedOn ==
  plan = "Local" /\ Now = "LocalOMMFManager" /\ job.pc >= 3 => job.held["wrapped"] # NoAddress

WrapperRecorded ==
  /\ "WOMMFFactory" \in DOMAIN records => records["WOMMFFactory"] # NoAddress
  /\ plan = "Local" /\ "WOMMF" \in DOMAIN records => records["WOMMF"] # NoAddress

WrapperOK == WrapperChecked /\ WrapperRead /\ WrapperPassedOn /\ WrapperRecorded

RolloutInv ==
  /\ plan \in Plan
  /\ ChainOK(chain) /\ RecordsOK /\ JobOK /\ HeldOK /\ PendingOK /\ WrapperOK

LEMMA InvInit == Init => RolloutInv
<1> SUFFICES ASSUME Init PROVE RolloutInv
  OBVIOUS
<1>1. plan \in Plan
  BY RolloutAssumption DEF Init, PlanScripts, Plan
<1>2. ChainOK(chain)
  BY <1>1, FirstChainOK DEF Init
<1>3. DOMAIN records = {}
  BY DEF Init
<1>4. job.pc = 1 /\ job.held = NothingHeld /\ job = Idle
  BY DEF Init, Idle
<1>5. JobOK
  BY <1>4 DEF JobOK, NothingHeld, Idle
<1>6. HeldOK
  BY <1>4 DEF HeldOK, NothingHeld, Fits
<1>7. PendingOK
  BY DEF Init, PendingOK, EmptyBag, BagToSet, SetToBag
<1>8. RecordsOK /\ WrapperOK
  BY <1>3, <1>4 DEF RecordsOK, WrapperOK, WrapperChecked, WrapperRead, WrapperPassedOn,
                    WrapperRecorded
<1> QED  BY <1>1, <1>2, <1>5, <1>6, <1>7, <1>8 DEF RolloutInv

(* What the invariant is for. *)
LEMMA InvMatches == RolloutInv => ManagersMatchTheirTokens
<1> SUFFICES ASSUME RolloutInv PROVE ManagersMatchTheirTokens
  OBVIOUS
<1>1. WordsOK(chain) /\ ManagersOK(chain) /\ MintersOK(chain)
  BY DEF RolloutInv, ChainOK
<1>2. \A m \in DOMAIN chain.built :
        /\ m[1] \in Managers => HasCode(chain, chain.built[m].rwa)
        /\ m[1] = "OMMFManager" => HasCode(chain, chain.built[m].wommf)
  BY <1>1 DEF ManagersOK
<1>3. ASSUME OneTokenEach, NEW token \in DOMAIN chain.built, NEW m \in DOMAIN chain.built,
             m[1] \in Managers, Holds(chain.members, token, "MINTER_ROLE", m)
      PROVE  chain.built[m].rwa = token
  <2> DEFINE rwa == chain.built[m].rwa
  <2>1. ListOK(token, "MINTER_ROLE", MembersOf(chain.members, token, "MINTER_ROLE"))
    BY MembersOfOK DEF RolloutInv
  <2>2. token[1] = TokenOf[m[1]]
    BY <1>3, <2>1 DEF Holds, ListOK
  <2>3. rwa \in DOMAIN chain.built /\ rwa[1] = TokenOf[m[1]]
    BY <1>1, <1>3 DEF ManagersOK, HasCode
  <2>4. TokenOf[m[1]] \in {"OMMF", "USDY", "OUSG"}
    BY <1>3 DEF TokenOf, Managers
  <2>5. {"OMMF", "USDY"} \subseteq Produced
    BY DEF Produced, DeployFns, Produces
  <2>6. \A a \in DOMAIN chain.built : a[1] \in {"OMMF", "USDY", "OUSG"} => a[2] = 1
    BY <1>1, <1>3, <2>5 DEF OneTokenEach, WordsOK
  <2> HIDE DEF rwa
  <2>7. token = <<token[1], 1>> /\ rwa = <<rwa[1], 1>>
    BY <1>1, <2>2, <2>3, <2>4, <2>6 DEF WordsOK
  <2> QED  BY <2>2, <2>3, <2>7 DEF rwa
<1> QED  BY <1>2, <1>3 DEF ManagersMatchTheirTokens

-----------------------------------------------------------------------------
(* The steps of the operator, who starts scripts, and of everybody else. *)

(* A job that begins, or none. *)
LEMMA FreshJobAndCalls ==
  ASSUME RolloutInv, NEW at, job' = [at |-> at, pc |-> 1, held |-> NothingHeld],
         UNCHANGED <<plan, chain, records>>, PendingOK'
  PROVE  RolloutInv'
<1>1. job'.pc = 1 /\ job'.held = NothingHeld
  OBVIOUS
<1>2. JobOK' /\ HeldOK'
  BY <1>1 DEF JobOK, HeldOK, NothingHeld, Fits
<1>3. WrapperOK'
  BY <1>1 DEF RolloutInv, WrapperOK, WrapperChecked, WrapperRead, WrapperPassedOn,
              WrapperRecorded
<1>4. RecordsOK' /\ ChainOK(chain)' /\ (plan \in Plan)'
  BY DEF RolloutInv, RecordsOK
<1> QED  BY <1>2, <1>3, <1>4 DEF RolloutInv

LEMMA FreshJob ==
  ASSUME RolloutInv, NEW at, job' = [at |-> at, pc |-> 1, held |-> NothingHeld],
         UNCHANGED <<plan, chain, records, pending>>
  PROVE  RolloutInv'
<1>1. PendingOK'
  BY DEF RolloutInv, PendingOK
<1> QED  BY <1>1, FreshJobAndCalls

LEMMA FitsStill ==
  ASSUME NEW c, NEW d, Grows(c, d), NEW word, NEW kind, Fits(c, word, kind)
  PROVE  Fits(d, word, kind)
BY DEF Fits, Grows, HasCode

(* The signers, the blocks and the guardian. *)
LEMMA OthersAct ==
  ASSUME RolloutInv, UNCHANGED <<plan, records, job>>, ChainOK(chain'), Grows(chain, chain'),
         BagToSet(pending') \subseteq BagToSet(pending)
  PROVE  RolloutInv'
<1>1. RecordsOK' /\ HeldOK'
  BY FitsStill DEF RolloutInv, RecordsOK, HeldOK, Now, Running, Scripts
<1>2. JobOK' /\ PendingOK' /\ (plan \in Plan)' /\ ChainOK(chain)'
  BY DEF RolloutInv, JobOK, PendingOK
<1>3. WrapperOK'
  BY DEF RolloutInv, WrapperOK, WrapperChecked, WrapperRead, WrapperPassedOn, WrapperRecorded,
         Now, Running, Scripts, Grows
<1> QED  BY <1>1, <1>2, <1>3 DEF RolloutInv

LEMMA IdleJob ==
  /\ Idle = [at |-> 0, pc |-> 1, held |-> NothingHeld]
  /\ \A n : [Idle EXCEPT !.at = n] = [at |-> n, pc |-> 1, held |-> NothingHeld]
BY DEF Idle

LEMMA BagLemmas ==
  \A B, x : /\ BagToSet(BagAdd(B, x)) = BagToSet(B) \cup {x}
            /\ BagToSet(BagRemove(B, x)) \subseteq BagToSet(B)
<1>1. \A B, x : BagToSet(BagAdd(B, x)) = BagToSet(B) \cup {x}
  BY DEF BagAdd, BagToSet
<1>2. \A B, x : BagToSet(BagRemove(B, x)) \subseteq BagToSet(B)
  BY DEF BagRemove, BagToSet
<1> QED  BY <1>1, <1>2

LEMMA OperatorKeeps ==
  ASSUME RolloutInv, Start \/ Rerun \/ Interrupt \/ End \/ \E step \in NextStep : Throw(step)
  PROVE  RolloutInv'
<1>1. CASE Start
  BY <1>1, FreshJob, IdleJob DEF Start
<1>2. CASE Rerun
  BY <1>2, FreshJob, IdleJob DEF Rerun
<1>3. CASE Interrupt
  BY <1>3, FreshJob, IdleJob DEF Interrupt
<1>4. CASE End
  BY <1>4, FreshJob, IdleJob DEF End
<1>5. CASE \E step \in NextStep : Throw(step)
  BY <1>5, FreshJob, IdleJob DEF Throw, StaysInPlan
<1> QED  BY <1>1, <1>2, <1>3, <1>4, <1>5

LEMMA OthersKeep ==
  ASSUME RolloutInv, Execute \/ RevertTransaction \/ AcceptOwnership
  PROVE  RolloutInv'
<1>1. CASE Execute
  <2>1. PICK call \in BagToSet(pending) :
          /\ pending' = BagRemove(pending, call)
          /\ chain' = AfterCall(chain, call)
          /\ UNCHANGED <<plan, records, job>>
    BY <1>1 DEF Execute
  <2>2. CallOK(call) /\ ChainOK(chain)
    BY DEF RolloutInv, PendingOK
  <2> QED  BY <2>1, <2>2, AfterCallOK, BagLemmas, OthersAct
<1>2. CASE RevertTransaction
  <2>1. PICK call \in BagToSet(pending) :
          /\ pending' = BagRemove(pending, call)
          /\ UNCHANGED <<plan, chain, records, job>>
    BY <1>2 DEF RevertTransaction
  <2>2. ChainOK(chain') /\ Grows(chain, chain')
    BY <2>1 DEF RolloutInv, Grows
  <2> QED  BY <2>1, <2>2, BagLemmas, OthersAct
<1>3. CASE AcceptOwnership
  <2>1. PICK a \in DOMAIN chain.built :
          /\ chain' = AfterCall(chain, CallOf(FieldOf(chain, a, "pendingOwner"), a,
                                              "acceptOwnership", <<>>))
          /\ UNCHANGED <<plan, records, pending, job>>
    BY <1>3 DEF AcceptOwnership
  <2>2. CallOK(CallOf(FieldOf(chain, a, "pendingOwner"), a, "acceptOwnership", <<>>))
    BY PlainCallOK DEF KnownFns, DeployFns, Produces
  <2>3. ChainOK(chain)
    BY DEF RolloutInv
  <2> QED  BY <2>1, <2>2, <2>3, AfterCallOK, OthersAct
<1> QED  BY <1>1, <1>2, <1>3

-----------------------------------------------------------------------------
(* The steps of the running script. *)

(* A step of the running script, and where it stands. *)
LEMMA StepOfScript ==
  ASSUME RolloutInv, NEW step \in NextStep
  PROVE  /\ Running /\ Now = Scripts[job.at]
         /\ job.pc \in 1..Len(ScriptOf(plan, Now, job.held))
         /\ step = ScriptOf(plan, Now, job.held)[job.pc]
         /\ StepOK(Now, job.held, step)
<1>1. Running /\ job.pc \in 1..Len(Script) /\ step = Script[job.pc]
  BY NextStepIs
<1>2. Now = Scripts[job.at] /\ Script = ScriptOf(plan, Now, job.held)
  BY <1>1 DEF Now, Script
<1>3. HeldKinds(Now, job.held)
  BY DEF RolloutInv, HeldOK, HeldKinds, Fits, NoAddress, Account
<1>4. AllOK(Now, job.held, ScriptOf(plan, Now, job.held))
  BY <1>3, ScriptsOK DEF RolloutInv
<1> QED  BY <1>1, <1>2, <1>4 DEF AllOK

(* The three scripts that handle the wrapper of OMMF, step by step. *)
LEMMA CheckedPositions ==
  ASSUME RolloutInv, NEW step \in NextStep, plan = "OMMF", Now = "DeployOMMFManager"
  PROVE  /\ job.pc \in 1..6
         /\ job.pc = 5 => step = Require(job.held["token"] # NoAddress
                                           /\ job.held["wrapped"] # NoAddress)
         /\ job.pc = 6 <=> step.op = "deploy"
<1> DEFINE script == DeployOMMFManager(job.held)
<1>1. ScriptOf(plan, Now, job.held) = script
  BY Zenon DEF ScriptOf, OMMFScript
<1>2. job.pc \in 1..Len(script) /\ step = script[job.pc]
  BY <1>1, StepOfScript
<1>3. /\ Len(script) = 6
      /\ \A i \in 1..4 : script[i].op \in {"get", "read"}
      /\ script[5] = Require(job.held["token"] # NoAddress /\ job.held["wrapped"] # NoAddress)
      /\ script[6].op = "deploy"
  BY DEF DeployOMMFManager, Get, Read, Deploy
<1>4. script[5].op = "require"
  BY <1>3 DEF Require
<1> HIDE DEF script
<1> QED  BY <1>2, <1>3, <1>4

LEMMA ReadPositions ==
  ASSUME RolloutInv, NEW step \in NextStep, plan = "Local", Now = "LocalWOMMF"
  PROVE  /\ job.pc \in 1..8
         /\ job.pc = 1 => step.op = "deploy"
         /\ job.pc = 2 => step = Get("WOMMFFactory", "factory")
         /\ job.pc = 3 => step = Get("OMMF", "token")
         /\ job.pc = 4 => /\ step.op = "transact"
                          /\ step.call.to = job.held["factory"] /\ step.call.fn = "deployWOMMF"
         /\ job.pc = 5 => step = Read(job.held["factory"], "proxy", "wrapped")
         /\ job.pc = 6 => step.op = "read" /\ step.into = "admin"
         /\ job.pc \in {7, 8} => step.op = "save"
         /\ step.op \in {"deploy", "get", "transact", "read", "save"}
         /\ step.op = "deploy"   => job.pc = 1
         /\ step.op = "transact" => job.pc = 4
         /\ step.op = "read"     => job.pc \in {5, 6}
         /\ step.op = "save"     => job.pc \in {7, 8}
<1> DEFINE script == LocalWOMMF(job.held)
<1>1. ScriptOf(plan, Now, job.held) = script
  BY Zenon DEF ScriptOf, LocalScript
<1>2. job.pc \in 1..Len(script) /\ step = script[job.pc]
  BY <1>1, StepOfScript
<1>3. /\ Len(script) = 8
      /\ script[2] = Get("WOMMFFactory", "factory")
      /\ script[3] = Get("OMMF", "token")
      /\ script[5] = Read(job.held["factory"], "proxy", "wrapped")
  BY DEF LocalWOMMF
<1>4. /\ script[1].op = "deploy"
      /\ script[4].op = "transact"
      /\ script[4].call.to = job.held["factory"] /\ script[4].call.fn = "deployWOMMF"
      /\ script[6].op = "read" /\ script[6].into = "admin"
      /\ script[7].op = "save" /\ script[8].op = "save"
  BY DEF LocalWOMMF, Deploy, Transact, CallOf, Read, Save
<1>5. script[2].op = "get" /\ script[3].op = "get" /\ script[5].op = "read"
  BY <1>3 DEF Get, Read
<1> HIDE DEF script
<1>6. job.pc \in {1, 2, 3, 4, 5, 6, 7, 8}
  BY <1>2, <1>3
<1> QED  BY <1>2, <1>3, <1>4, <1>5, <1>6

LEMMA PassedOnPositions ==
  ASSUME RolloutInv, NEW step \in NextStep, plan = "Local", Now = "LocalOMMFManager"
  PROVE  /\ job.pc \in 1..3
         /\ job.pc = 1 => step = Get("OMMF", "token")
         /\ job.pc = 2 => step = Get("WOMMF", "wrapped")
         /\ job.pc = 3 <=> step.op = "deploy"
         /\ step.op \in {"get", "deploy"}
<1> DEFINE script == LocalOMMFManager(job.held)
<1>1. ScriptOf(plan, Now, job.held) = script
  BY Zenon DEF ScriptOf, LocalScript
<1>2. job.pc \in 1..Len(script) /\ step = script[job.pc]
  BY <1>1, StepOfScript
<1>3. /\ Len(script) = 3
      /\ script[1] = Get("OMMF", "token")
      /\ script[2] = Get("WOMMF", "wrapped")
      /\ script[3].op = "deploy"
  BY DEF LocalOMMFManager, Deploy
<1>4. script[1].op = "get" /\ script[2].op = "get"
  BY <1>3 DEF Get
<1> HIDE DEF script
<1> QED  BY <1>2, <1>3, <1>4

(* Only two scripts deploy the manager of OMMF, each in its own rollout. *)
LEMMA WrapperAtDeployment ==
  ASSUME RolloutInv, NEW step \in NextStep, step.op = "deploy", step.kind = "OMMFManager"
  PROVE  step.args.wommf # NoAddress /\ HasCode(chain, step.args.wommf)
<1>1. /\ Now \in {"DeployOMMFManager", "LocalOMMFManager"}
      /\ step.args.wommf = job.held["wrapped"]
  BY StepOfScript, Zenon DEF StepOK, ArgsFit
<1>2. /\ step = ScriptOf(plan, Now, job.held)[job.pc]
      /\ job.pc \in 1..Len(ScriptOf(plan, Now, job.held))
  BY StepOfScript
<1>3. <<>> # ScriptOf(plan, Now, job.held)
  BY <1>2
<1>4. \/ plan = "OMMF" /\ Now = "DeployOMMFManager"
      \/ plan = "Local" /\ Now = "LocalOMMFManager"
  BY <1>1, <1>3 DEF RolloutInv, Plan, ScriptOf, OMMFScript, USDYScript, OUSGScript, LocalScript
<1>5. job.held["wrapped"] # NoAddress
  <2>1. CASE plan = "OMMF" /\ Now = "DeployOMMFManager"
    BY <2>1, CheckedPositions DEF RolloutInv, WrapperOK, WrapperChecked
  <2>2. CASE plan = "Local" /\ Now = "LocalOMMFManager"
    BY <2>2, PassedOnPositions DEF RolloutInv, WrapperOK, WrapperPassedOn
  <2> QED  BY <1>4, <2>1, <2>2
<1>6. Sort(Now, "wrapped") = "WOMMF" /\ "wrapped" \in Locals
  BY <1>1 DEF Sort, Locals
<1>7. Fits(chain, job.held["wrapped"], "WOMMF")
  BY <1>6 DEF RolloutInv, HeldOK
<1> QED  BY <1>1, <1>5, <1>7 DEF Fits

LEMMA Advanced ==
  ASSUME JobOK, job' = [job EXCEPT !.pc = @ + 1]
  PROVE  JobOK' /\ job'.at = job.at /\ job'.pc = job.pc + 1 /\ job'.held = job.held
BY DEF JobOK

LEMMA Answered ==
  ASSUME JobOK, NEW local \in Locals, NEW a, job' = [job EXCEPT !.pc = @ + 1, !.held[local] = a]
  PROVE  /\ JobOK'
         /\ job'.at = job.at /\ job'.pc = job.pc + 1 /\ job'.held[local] = a
         /\ \A l \in Locals : l # local => job'.held[l] = job.held[l]
<1> DEFINE held == [job.held EXCEPT ![local] = a]
           next == [at |-> job.at, pc |-> job.pc + 1, held |-> held]
<1>1. /\ held = [l \in Locals |-> held[l]] /\ held[local] = a
      /\ \A l \in Locals : l # local => held[l] = job.held[l]
  BY DEF JobOK
<1>2. job' = [[job EXCEPT !.pc = @ + 1] EXCEPT !.held = held]
  BY DEF JobOK
<1> HIDE DEF held
<1>3. [job EXCEPT !.pc = @ + 1] = [at |-> job.at, pc |-> job.pc + 1, held |-> job.held]
  BY DEF JobOK
<1>4. job' = next
  BY <1>2, <1>3
<1>5. /\ next.at = job.at /\ next.pc = job.pc + 1 /\ next.held = held
      /\ next = [at |-> next.at, pc |-> next.pc, held |-> next.held]
  OBVIOUS
<1>6. next.pc \in Nat
  BY <1>5 DEF JobOK
<1> HIDE DEF next
<1> QED  BY <1>1, <1>4, <1>5, <1>6 DEF JobOK

(* A local that matters has the name of a record for its kind. *)
LEMMA SortRange == \A script, l : Sort(script, l) \in Tracked \cup {"any"}
<1> TAKE script, l
<1>1. {"OMMFFactory", "WOMMFFactory", "USDYFactory", "AllowlistFactory", "rUSDYFactory",
       "OMMF", "WOMMF", "USDY", "OMMFManager", "USDYManager", "OUSGManager"} \subseteq Tracked
  BY DEF Tracked, Factories, ProductOf, Managers
<1> QED  BY <1>1, Zenon DEF Sort

LEMMA GetKeeps ==
  ASSUME RolloutInv, NEW step \in NextStep, GetRecord(step)
  PROVE  RolloutInv'
<1>1. /\ step.op = "get" /\ step.name \in DOMAIN records
      /\ job' = [job EXCEPT !.pc = @ + 1, !.held[step.into] = records[step.name]]
      /\ UNCHANGED <<plan, chain, records, pending>>
  BY DEF GetRecord, Answer, StaysInPlan
<1>2. step.into \in Locals /\ Sort(Now, step.into) \in {"any", step.name}
  BY <1>1, StepOfScript DEF StepOK
<1>3. /\ JobOK' /\ job'.at = job.at /\ job'.pc = job.pc + 1
      /\ job'.held[step.into] = records[step.name]
      /\ \A l \in Locals : l # step.into => job'.held[l] = job.held[l]
  BY <1>1, <1>2, Answered DEF RolloutInv
<1>4. Now' = Now
  BY <1>1, <1>3 DEF Now, Running, Scripts
<1>5. HeldOK'
  <2> SUFFICES ASSUME NEW l \in Locals, Sort(Now, l) # "any"
               PROVE  Fits(chain, job'.held[l], Sort(Now, l))
    BY <1>1, <1>4 DEF HeldOK
  <2>1. CASE l = step.into
    BY <1>1, <1>2, <1>3, <2>1, SortRange DEF RolloutInv, RecordsOK
  <2>2. CASE l # step.into
    BY <1>3, <2>2 DEF RolloutInv, HeldOK
  <2> QED  BY <2>1, <2>2
<1>6. WrapperChecked'
  BY <1>1, <1>3, <1>4, CheckedPositions DEF WrapperChecked, Require
<1>7. WrapperRead'
  BY <1>1, <1>3, <1>4, ReadPositions
     DEF RolloutInv, WrapperOK, WrapperRead, WrapperRecorded, Get, Read, Locals, JobOK
<1>8. WrapperPassedOn'
  BY <1>1, <1>3, <1>4, PassedOnPositions
     DEF RolloutInv, WrapperOK, WrapperPassedOn, WrapperRecorded, Get, Locals, JobOK
<1>9. WrapperRecorded' /\ RecordsOK' /\ PendingOK' /\ ChainOK(chain)' /\ (plan \in Plan)'
  BY <1>1 DEF RolloutInv, RecordsOK, PendingOK, WrapperOK, WrapperRecorded
<1> QED  BY <1>3, <1>5, <1>6, <1>7, <1>8, <1>9 DEF RolloutInv, WrapperOK

LEMMA PassKeeps ==
  ASSUME RolloutInv, NEW step \in NextStep, Pass(step)
  PROVE  RolloutInv'
<1>1. /\ step.op \in {"require", "confirm", "list"}
      /\ job' = [job EXCEPT !.pc = @ + 1]
      /\ UNCHANGED <<plan, chain, records, pending>>
  BY DEF Pass, Advance, StaysInPlan
<1>8. step.op = "require" => step.holds
  BY Zenon DEF Pass
<1>2. JobOK' /\ job'.at = job.at /\ job'.pc = job.pc + 1 /\ job'.held = job.held
  BY <1>1, Advanced DEF RolloutInv
<1>3. Now' = Now
  BY <1>1, <1>2 DEF Now, Running, Scripts
<1>4. HeldOK'
  BY <1>1, <1>2, <1>3 DEF RolloutInv, HeldOK
<1>5. WrapperChecked'
  <2> SUFFICES ASSUME plan = "OMMF", Now = "DeployOMMFManager", job.pc + 1 >= 6
               PROVE  job.held["wrapped"] # NoAddress
    BY <1>1, <1>2, <1>3 DEF WrapperChecked
  <2>1. job.pc \in 1..6 /\ job.pc # 6
    BY <1>1, CheckedPositions
  <2>2. step = Require(job.held["token"] # NoAddress /\ job.held["wrapped"] # NoAddress)
    BY <2>1, CheckedPositions
  <2>3. /\ step.op = "require"
        /\ step.holds = (job.held["token"] # NoAddress /\ job.held["wrapped"] # NoAddress)
    BY <2>2 DEF Require
  <2> QED  BY <1>8, <2>3, Zenon
<1>6. ~ (plan = "Local" /\ Now \in {"LocalWOMMF", "LocalOMMFManager"})
  <2>1. ASSUME plan = "Local", Now = "LocalWOMMF" PROVE FALSE
    BY <1>1, <2>1, ReadPositions
  <2>2. ASSUME plan = "Local", Now = "LocalOMMFManager" PROVE FALSE
    BY <1>1, <2>2, PassedOnPositions
  <2> QED  BY <2>1, <2>2
<1>7. WrapperRecorded' /\ RecordsOK' /\ PendingOK' /\ ChainOK(chain)' /\ (plan \in Plan)'
  BY <1>1 DEF RolloutInv, RecordsOK, PendingOK, WrapperOK, WrapperRecorded
<1> QED  BY <1>1, <1>2, <1>3, <1>4, <1>5, <1>6, <1>7
            DEF RolloutInv, WrapperOK, WrapperRead, WrapperPassedOn

LEMMA SubmitKeeps ==
  ASSUME RolloutInv, NEW step \in NextStep, Submit(step)
  PROVE  RolloutInv'
<1>1. /\ step.op \in {"propose", "send"}
      /\ pending' = BagAdd(pending, step.call)
      /\ job' = [job EXCEPT !.pc = @ + 1]
      /\ UNCHANGED <<plan, chain, records>>
  BY DEF Submit, Advance, StaysInPlan
<1>2. JobOK' /\ job'.at = job.at /\ job'.pc = job.pc + 1 /\ job'.held = job.held
  BY <1>1, Advanced DEF RolloutInv
<1>3. Now' = Now
  BY <1>1, <1>2 DEF Now, Running, Scripts
<1>4. HeldOK'
  BY <1>1, <1>2, <1>3 DEF RolloutInv, HeldOK
<1>5. CallOK(step.call)
  BY <1>1, StepOfScript DEF StepOK
<1>6. PendingOK'
  BY <1>1, <1>5, BagLemmas DEF RolloutInv, PendingOK
<1>7. WrapperChecked' /\ WrapperRead' /\ WrapperPassedOn'
  BY <1>1, <1>2, <1>3, CheckedPositions, ReadPositions, PassedOnPositions
     DEF WrapperChecked, WrapperRead, WrapperPassedOn, Get, Read, Require
<1>8. WrapperRecorded' /\ RecordsOK' /\ ChainOK(chain)' /\ (plan \in Plan)'
  BY <1>1 DEF RolloutInv, RecordsOK, WrapperOK, WrapperRecorded
<1> QED  BY <1>2, <1>4, <1>6, <1>7, <1>8 DEF RolloutInv, WrapperOK

(* The call is pending and the script is over. *)
LEMMA LostAnswerKeeps ==
  ASSUME RolloutInv, NEW step \in NextStep, LoseAnswer(step)
  PROVE  RolloutInv'
<1>1. /\ step.op \in {"propose", "send"}
      /\ pending' = BagAdd(pending, step.call)
      /\ job' = Idle
      /\ UNCHANGED <<plan, chain, records>>
  BY DEF LoseAnswer
<1>2. CallOK(step.call)
  BY <1>1, StepOfScript DEF StepOK
<1>3. PendingOK'
  BY <1>1, <1>2, BagLemmas DEF RolloutInv, PendingOK
<1> QED  BY <1>1, <1>3, FreshJobAndCalls, IdleJob

(* What a factory answers of its proxy: nothing, or the product. *)
LEMMA ProxyRead ==
  ASSUME ChainOK(chain), NEW contract, NEW kind \in Factories, contract[1] \in {"zero", kind}
  PROVE  /\ Fits(chain, FieldOf(chain, contract, "proxy"), ProductOf[kind])
         /\ <<contract, "proxy">> \in DOMAIN chain.stored =>
              FieldOf(chain, contract, "proxy") # NoAddress
<1> DEFINE key == <<contract, "proxy">>
<1>1. key[1] = contract /\ key[2] = "proxy" /\ "zero" \notin Factories
  BY DEF Factories, ProductOf
<1>2. CASE key \in DOMAIN chain.stored
  <2>1. FieldOf(chain, contract, "proxy") = chain.stored[key]
    BY <1>2 DEF FieldOf
  <2>2. /\ contract[1] \in Factories /\ HasCode(chain, chain.stored[key])
        /\ chain.stored[key][1] = ProductOf[contract[1]]
    BY <1>1, <1>2 DEF ChainOK, ProxiesOK
  <2>3. contract[1] = kind
    BY <1>1, <2>2
  <2>4. chain.stored[key] # NoAddress
    BY <2>2 DEF ChainOK, WordsOK, HasCode, NoAddress, Account
  <2> QED  BY <2>1, <2>2, <2>3, <2>4 DEF Fits
<1>3. CASE key \notin DOMAIN chain.stored
  <2>1. HasCode(chain, contract) => DOMAIN chain.built[contract] = {"guardian"}
    BY DEF ChainOK, WordsOK, FactoriesOK, HasCode
  <2>2. FieldOf(chain, contract, "proxy") = NoAddress
    BY <1>3, <2>1 DEF FieldOf
  <2> QED  BY <1>3, <2>2 DEF Fits
<1> QED  BY <1>2, <1>3

LEMMA ReadKeeps ==
  ASSUME RolloutInv, NEW step \in NextStep, ReadContract(step)
  PROVE  RolloutInv'
<1> DEFINE answer == FieldOf(chain, step.contract, step.field)
<1>1. /\ step.op = "read"
      /\ job' = [job EXCEPT !.pc = @ + 1, !.held[step.into] = answer]
      /\ UNCHANGED <<plan, chain, records, pending>>
  BY DEF ReadContract, Answer, StaysInPlan
<1>2. /\ step.into \in Locals
      /\ Sort(Now, step.into) # "any" =>
           /\ step.field = "proxy"
           /\ \E k \in Factories : /\ step.contract[1] \in {"zero", k}
                                   /\ ProductOf[k] = Sort(Now, step.into)
  BY <1>1, StepOfScript DEF StepOK
<1>3. /\ JobOK' /\ job'.at = job.at /\ job'.pc = job.pc + 1
      /\ job'.held[step.into] = answer
      /\ \A l \in Locals : l # step.into => job'.held[l] = job.held[l]
  <2> HIDE DEF answer
  <2> QED  BY <1>1, <1>2, Answered DEF RolloutInv
<1>4. Now' = Now
  BY <1>1, <1>3 DEF Now, Running, Scripts
<1>5. HeldOK'
  <2> SUFFICES ASSUME NEW l \in Locals, Sort(Now, l) # "any"
               PROVE  Fits(chain, job'.held[l], Sort(Now, l))
    BY <1>1, <1>4 DEF HeldOK
  <2>1. CASE l = step.into
    <3>1. PICK k \in Factories : /\ step.contract[1] \in {"zero", k}
                                 /\ ProductOf[k] = Sort(Now, l)
      BY <1>2, <2>1
    <3>2. step.field = "proxy" /\ ChainOK(chain)
      BY <1>2, <2>1 DEF RolloutInv
    <3>3. Fits(chain, FieldOf(chain, step.contract, "proxy"), ProductOf[k])
      BY <3>1, <3>2, ProxyRead
    <3> QED  BY <1>3, <2>1, <3>1, <3>2, <3>3
  <2>2. CASE l # step.into
    BY <1>3, <2>2 DEF RolloutInv, HeldOK
  <2> QED  BY <2>1, <2>2
<1>6. WrapperChecked'
  BY <1>1, <1>3, <1>4, CheckedPositions DEF WrapperChecked, Require
<1>7. WrapperRead'
  <2> SUFFICES ASSUME plan = "Local", Now = "LocalWOMMF"
               PROVE  WrapperRead'
    BY <1>1, <1>4 DEF WrapperRead
  <2>2. job.pc \in {5, 6}
    BY <1>1, ReadPositions
  <2>3. /\ job.held["factory"] # NoAddress
        /\ <<job.held["factory"], "proxy">> \in DOMAIN chain.stored
        /\ job.pc = 6 => job.held["wrapped"] # NoAddress
    BY <2>2 DEF RolloutInv, WrapperOK, WrapperRead
  <2>4. Sort(Now, "factory") = "WOMMFFactory" /\ "factory" \in Locals /\ "wrapped" \in Locals
    BY DEF Sort, Locals
  <2>5. CASE job.pc = 5
    <3>1. /\ step.contract = job.held["factory"] /\ step.field = "proxy"
          /\ step.into = "wrapped"
      BY <2>5, ReadPositions DEF Read
    <3>2. job.held["factory"][1] = "WOMMFFactory"
      BY <2>3, <2>4 DEF RolloutInv, HeldOK, Fits
    <3>3. answer # NoAddress
      BY <2>3, <3>1, <3>2, ProxyRead DEF RolloutInv, Factories, ProductOf
    <3> HIDE DEF answer
    <3> QED  BY <1>1, <1>3, <2>3, <2>4, <3>1, <3>3 DEF WrapperRead
  <2>6. CASE job.pc = 6
    <3>1. step.into = "admin"
      BY <2>6, ReadPositions
    <3> HIDE DEF answer
    <3> QED  BY <1>1, <1>3, <2>3, <2>4, <2>6, <3>1 DEF WrapperRead
  <2> QED  BY <2>2, <2>5, <2>6
<1>8. WrapperPassedOn'
  BY <1>1, <1>3, <1>4, PassedOnPositions DEF WrapperPassedOn, Get
<1>9. WrapperRecorded' /\ RecordsOK' /\ PendingOK' /\ ChainOK(chain)' /\ (plan \in Plan)'
  BY <1>1 DEF RolloutInv, RecordsOK, PendingOK, WrapperOK, WrapperRecorded
<1> QED  BY <1>3, <1>5, <1>6, <1>7, <1>8, <1>9 DEF RolloutInv, WrapperOK

LEMMA TransactKeeps ==
  ASSUME RolloutInv, NEW step \in NextStep, TransactNow(step)
  PROVE  RolloutInv'
<1>1. /\ step.op = "transact"
      /\ chain' = AfterCall(chain, step.call)
      /\ job' = [job EXCEPT !.pc = @ + 1]
      /\ UNCHANGED <<plan, records, pending>>
  BY DEF TransactNow, Advance, StaysInPlan
<1>2. JobOK' /\ job'.at = job.at /\ job'.pc = job.pc + 1 /\ job'.held = job.held
  BY <1>1, Advanced DEF RolloutInv
<1>3. Now' = Now
  BY <1>1, <1>2 DEF Now, Running, Scripts
<1>4. CallOK(step.call)
  BY <1>1, StepOfScript DEF StepOK
<1>5. /\ ChainOK(chain') /\ Grows(chain, chain')
      /\ step.call.fn \in DeployFns /\ HasCode(chain, step.call.to) =>
           <<step.call.to, "proxy">> \in DOMAIN chain'.stored
  BY <1>1, <1>4, AfterCallOK DEF RolloutInv
<1>6. RecordsOK' /\ HeldOK'
  BY <1>1, <1>2, <1>3, <1>5, FitsStill DEF RolloutInv, RecordsOK, HeldOK
<1>7. WrapperRead'
  <2> SUFFICES ASSUME plan = "Local", Now = "LocalWOMMF"
               PROVE  WrapperRead'
    BY <1>1, <1>3 DEF WrapperRead
  <2>2. job.pc = 4
    BY <1>1, ReadPositions
  <2>3. job.held["factory"] # NoAddress
    BY <2>2 DEF RolloutInv, WrapperOK, WrapperRead
  <2>4. Sort(Now, "factory") = "WOMMFFactory" /\ "factory" \in Locals
    BY DEF Sort, Locals
  <2>5. HasCode(chain, job.held["factory"])
    BY <2>3, <2>4 DEF RolloutInv, HeldOK, Fits
  <2>6. step.call.to = job.held["factory"] /\ step.call.fn \in DeployFns
    BY <2>2, ReadPositions DEF DeployFns, Produces
  <2> QED  BY <1>2, <1>5, <2>2, <2>3, <2>5, <2>6 DEF WrapperRead
<1>8. WrapperChecked' /\ WrapperPassedOn'
  BY <1>1, <1>2, <1>3, CheckedPositions, PassedOnPositions
     DEF WrapperChecked, WrapperPassedOn, Get, Require
<1>9. WrapperRecorded' /\ PendingOK' /\ (plan \in Plan)'
  BY <1>1 DEF RolloutInv, PendingOK, WrapperOK, WrapperRecorded
<1> QED  BY <1>2, <1>5, <1>6, <1>7, <1>8, <1>9 DEF RolloutInv, WrapperOK

(* A constructor that accepts its arguments leaves the chain as it should be. *)
LEMMA DeploymentOK ==
  ASSUME RolloutInv, NEW step \in NextStep, step.op = "deploy",
         ConstructorAccepts(chain, step.kind, step.args)
  PROVE  BirthOK(chain, step.kind, step.args)
<1>1. /\ step.kind \notin {"zero", "OUSG"}
      /\ ArgsFit(Now, job.held, step.kind, step.args)
  BY StepOfScript DEF StepOK
<1>2. CASE step.kind \in Managers
  <2>1. HasCode(chain, step.args.rwa)
    BY <1>2 DEF ConstructorAccepts, Managers
  <2>2. step.args.rwa[1] # "zero"
    BY <2>1 DEF RolloutInv, ChainOK, WordsOK, HasCode
  <2>3. step.args.rwa[1] = TokenOf[step.kind]
    BY <1>1, <1>2, <2>2 DEF ArgsFit
  <2>4. step.kind = "OMMFManager" => HasCode(chain, step.args.wommf)
    BY WrapperAtDeployment
  <2>5. step.kind \notin Factories
    BY <1>2 DEF Managers, Factories, ProductOf
  <2> QED  BY <1>1, <2>1, <2>3, <2>4, <2>5 DEF BirthOK
<1>3. CASE step.kind \notin Managers
  BY <1>1, <1>3 DEF BirthOK, ArgsFit, Managers
<1> QED  BY <1>2, <1>3

LEMMA DeployKeeps ==
  ASSUME RolloutInv, NEW step \in NextStep, DeployContract(step)
  PROVE  RolloutInv'
<1> DEFINE new == Fresh(chain, step.kind)
<1>1. /\ step.op = "deploy"
      /\ job' = [job EXCEPT !.pc = @ + 1]
      /\ UNCHANGED <<plan, pending>>
  BY DEF DeployContract, Advance, StaysInPlan
<1>2. JobOK' /\ job'.at = job.at /\ job'.pc = job.pc + 1 /\ job'.held = job.held
  BY <1>1, Advanced DEF RolloutInv
<1>3. Now' = Now
  BY <1>1, <1>2 DEF Now, Running, Scripts
<1>4. \/ UNCHANGED <<chain, records>>
      \/ /\ ConstructorAccepts(chain, step.kind, step.args)
         /\ chain' = Constructed(chain, step.kind, step.args)
         /\ records' = Put(records, step.name, new)
  BY DEF DeployContract, Record
<1>5. step.kind # "zero" /\ step.name \in Tracked => step.kind = step.name
  BY <1>1, StepOfScript DEF StepOK
<1>6. ChainOK(chain') /\ Grows(chain, chain') /\ RecordsOK'
      /\ ("WOMMFFactory" \in DOMAIN records' => records'["WOMMFFactory"] # NoAddress)
      /\ (plan = "Local" /\ "WOMMF" \in DOMAIN records' => records'["WOMMF"] # NoAddress)
  <2>1. CASE UNCHANGED <<chain, records>>
    BY <2>1 DEF RolloutInv, RecordsOK, WrapperOK, WrapperRecorded, Grows
  <2>2. CASE /\ ConstructorAccepts(chain, step.kind, step.args)
             /\ chain' = Constructed(chain, step.kind, step.args)
             /\ records' = Put(records, step.name, new)
    <3>1. BirthOK(chain, step.kind, step.args)
      BY <1>1, <2>2, DeploymentOK
    <3>2. /\ ChainOK(chain') /\ Grows(chain, chain')
          /\ new \in DOMAIN chain'.built /\ new[1] = step.kind
      BY <2>2, <3>1, ConstructedOK DEF RolloutInv
    <3>3. step.kind # "zero"
      BY <1>1, StepOfScript DEF StepOK
    <3>4. new # NoAddress
      BY <3>2, <3>3 DEF NoAddress, Account
    <3> HIDE DEF new
    <3>5. /\ DOMAIN records' = DOMAIN records \cup {step.name}
          /\ records'[step.name] = new
          /\ \A name \in DOMAIN records : name # step.name => records'[name] = records[name]
      BY <2>2 DEF Put
    <3>6. RecordsOK'
      <4> SUFFICES ASSUME NEW name \in DOMAIN records', name \in Tracked
                   PROVE  Fits(chain', records'[name], name)
        BY DEF RecordsOK
      <4>1. CASE name = step.name
        BY <1>5, <3>2, <3>3, <3>5, <4>1 DEF Fits, HasCode
      <4>2. CASE name # step.name
        BY <3>2, <3>5, <4>2, FitsStill DEF RolloutInv, RecordsOK
      <4> QED  BY <4>1, <4>2
    <3> QED  BY <3>2, <3>4, <3>5, <3>6 DEF RolloutInv, WrapperOK, WrapperRecorded
  <2> QED  BY <1>4, <2>1, <2>2
<1>7. HeldOK'
  BY <1>2, <1>3, <1>6, FitsStill DEF RolloutInv, HeldOK
<1>8. WrapperRead'
  <2> SUFFICES ASSUME plan = "Local", Now = "LocalWOMMF"
               PROVE  WrapperRead'
    BY <1>1, <1>3 DEF WrapperRead
  <2>2. job.pc = 1
    BY <1>1, ReadPositions
  <2> QED  BY <1>2, <2>2 DEF WrapperRead
<1>9. WrapperChecked' /\ WrapperPassedOn'
  BY <1>1, <1>2, <1>3, CheckedPositions, PassedOnPositions
     DEF RolloutInv, WrapperOK, WrapperChecked, WrapperPassedOn, Get, Require
<1>10. WrapperRecorded' /\ PendingOK' /\ (plan \in Plan)'
  BY <1>1, <1>6 DEF RolloutInv, PendingOK, WrapperRecorded
<1> QED  BY <1>2, <1>6, <1>7, <1>8, <1>9, <1>10 DEF RolloutInv, WrapperOK

(* On the local node one script saves the wrapper, after it has read it. *)
LEMMA WrapperAtSave ==
  ASSUME RolloutInv, NEW step \in NextStep, step.op = "save", step.name = "WOMMF", plan = "Local"
  PROVE  step.address # NoAddress
<1>1. PICK l \in Locals : step.address = job.held[l] /\ Sort(Now, l) = "WOMMF"
  BY StepOfScript DEF StepOK, Tracked
<1>2. l = "wrapped" /\ Now \in {"SaveWOMMF", "DeployOMMFManager", "LocalWOMMF", "LocalOMMFManager"}
  BY <1>1, Zenon DEF Sort
<1>3. <<>> # ScriptOf(plan, Now, job.held)
  BY StepOfScript
<1>4. Now \in {"LocalWOMMF", "LocalOMMFManager"}
  BY <1>2, <1>3 DEF ScriptOf, LocalScript
<1>5. Now = "LocalWOMMF"
  <2> SUFFICES ASSUME Now = "LocalOMMFManager" PROVE FALSE
    BY <1>4
  <2> QED  BY PassedOnPositions DEF Get
<1>6. job.pc \in {7, 8}
  BY <1>5, ReadPositions
<1> QED  BY <1>1, <1>2, <1>5, <1>6 DEF RolloutInv, WrapperOK, WrapperRead

LEMMA SaveKeeps ==
  ASSUME RolloutInv, NEW step \in NextStep, SaveRecord(step)
  PROVE  RolloutInv'
<1>1. /\ step.op = "save"
      /\ records' = Put(records, step.name, step.address)
      /\ job' = [job EXCEPT !.pc = @ + 1]
      /\ UNCHANGED <<plan, chain, pending>>
  BY DEF SaveRecord, Record, Advance, StaysInPlan
<1>2. JobOK' /\ job'.at = job.at /\ job'.pc = job.pc + 1 /\ job'.held = job.held
  BY <1>1, Advanced DEF RolloutInv
<1>3. Now' = Now
  BY <1>1, <1>2 DEF Now, Running, Scripts
<1>4. /\ DOMAIN records' = DOMAIN records \cup {step.name}
      /\ records'[step.name] = step.address
      /\ \A name \in DOMAIN records : name # step.name => records'[name] = records[name]
  BY <1>1 DEF Put
<1>5. /\ step.name \notin Factories
      /\ step.name \in Tracked =>
           \E l \in Locals : step.address = job.held[l] /\ Sort(Now, l) = step.name
  BY <1>1, StepOfScript DEF StepOK
<1>6. RecordsOK'
  <2> SUFFICES ASSUME NEW name \in DOMAIN records', name \in Tracked
               PROVE  Fits(chain, records'[name], name)
    BY <1>1 DEF RecordsOK
  <2>1. CASE name = step.name
    <3>1. PICK l \in Locals : step.address = job.held[l] /\ Sort(Now, l) = step.name
      BY <1>5, <2>1
    <3>2. step.name # "any"
      BY <2>1 DEF Tracked, Factories, ProductOf, Managers
    <3> QED  BY <1>4, <2>1, <3>1, <3>2 DEF RolloutInv, HeldOK
  <2>2. CASE name # step.name
    BY <1>4, <2>2 DEF RolloutInv, RecordsOK
  <2> QED  BY <2>1, <2>2
<1>7. WrapperRecorded'
  <2>1. "WOMMFFactory" \in Factories
    BY DEF Factories, ProductOf
  <2>2. step.name = "WOMMF" /\ plan = "Local" => step.address # NoAddress
    BY <1>1, WrapperAtSave
  <2> QED  BY <1>1, <1>4, <1>5, <2>1, <2>2 DEF RolloutInv, WrapperOK, WrapperRecorded
<1>8. HeldOK' /\ PendingOK' /\ ChainOK(chain)' /\ (plan \in Plan)'
  BY <1>1, <1>2, <1>3 DEF RolloutInv, HeldOK, PendingOK
<1>9. WrapperChecked' /\ WrapperPassedOn'
  BY <1>1, <1>2, <1>3, CheckedPositions, PassedOnPositions
     DEF WrapperChecked, WrapperPassedOn, Get, Require
<1>10. WrapperRead'
  <2> SUFFICES ASSUME plan = "Local", Now = "LocalWOMMF"
               PROVE  WrapperRead'
    BY <1>1, <1>3 DEF WrapperRead
  <2>2. job.pc \in {7, 8}
    BY <1>1, ReadPositions
  <2> QED  BY <1>1, <1>2, <2>2 DEF RolloutInv, WrapperOK, WrapperRead
<1> QED  BY <1>2, <1>6, <1>7, <1>8, <1>9, <1>10 DEF RolloutInv, WrapperOK

-----------------------------------------------------------------------------
LEMMA InvKept == RolloutInv /\ [Next]_vars => RolloutInv'
<1> SUFFICES ASSUME RolloutInv, [Next]_vars PROVE RolloutInv'
  OBVIOUS
<1>1. CASE \/ Start \/ Rerun \/ Interrupt \/ End \/ \E step \in NextStep : Throw(step)
  BY <1>1, OperatorKeeps
<1>2. CASE \E step \in NextStep :
             \/ GetRecord(step) \/ ReadContract(step) \/ Pass(step) \/ DeployContract(step)
             \/ SaveRecord(step) \/ Submit(step) \/ TransactNow(step)
  BY <1>2, GetKeeps, ReadKeeps, PassKeeps, DeployKeeps, SaveKeeps, SubmitKeeps, TransactKeeps
<1>3. CASE \E step \in NextStep : LoseAnswer(step)
  BY <1>3, LostAnswerKeeps
<1>4. CASE Execute \/ RevertTransaction \/ AcceptOwnership
  BY <1>4, OthersKeep
<1>5. CASE UNCHANGED vars
  <2>1. UNCHANGED <<plan, records, job, chain, pending>>
    BY <1>5 DEF vars
  <2> QED  BY <2>1, OthersAct DEF RolloutInv, Grows
<1> QED  BY <1>1, <1>2, <1>3, <1>4, <1>5 DEF Next, ScriptStep

(* However impatient the operator, however often a script is interrupted   *)
(* or run again, and in whichever order the signers sign.                  *)
THEOREM RolloutManagersMatch == Spec => []ManagersMatchTheirTokens
<1>1. RolloutInv /\ [Next]_vars => RolloutInv'
  BY InvKept
<1> QED  BY <1>1, InvInit, InvMatches, PTL DEF Spec
=============================================================================

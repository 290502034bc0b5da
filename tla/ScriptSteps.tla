---------------------------- MODULE ScriptSteps ----------------------------
(***************************************************************************)
(* The steps the deployment scripts are written in.  A script is a         *)
(* sequence of them; each is one awaited call to the node, to the          *)
(* hardhat-deploy records or to the Defender service.  Between two steps   *)
(* anything may happen elsewhere.  The words a script holds in its locals  *)
(* are a function h from names to addresses; a step that answers names the *)
(* local the answer goes to.                                               *)
(***************************************************************************)
EXTENDS RolloutChain

Locals == {"factory", "second", "token", "admin", "manager", "pricer", "wrapped",
           "blocklist", "allowlist", "oracle", "setter"}

NothingHeld == [x \in Locals |-> NoAddress]

(* ethers.getContract: the address recorded under a name; throws without. *)
Get(name, local) == [op |-> "get", name |-> name, into |-> local]

(* A getter of a contract. *)
Read(contract, field, local) ==
  [op |-> "read", contract |-> contract, field |-> field, into |-> local]

(* if (...) throw *)
Require(holds) == [op |-> "require", holds |-> holds]

(* deployments.deploy and deployments.save *)
Deploy(name, kind, args) == [op |-> "deploy", name |-> name, kind |-> kind, args |-> args]
Save(name, address)      == [op |-> "save", name |-> name, address |-> address]

(* inquirer.prompt: the operator confirms, or the script throws. *)
Confirm == [op |-> "confirm"]

(* addContract: the Defender service lists a contract; nothing reads it. *)
AddContract(address) == [op |-> "list", address |-> address]

CallOf(from, to, fn, args) == [from |-> from, to |-> to, fn |-> fn, args |-> args]

(* proposeFunctionCall: the call waits for the multisig `via`. *)
ProposeFunctionCall(via, to, fn, args) ==
  [op |-> "propose", call |-> CallOf(via, to, fn, args)]

ProposeGrantRole(via, to, role, account) ==
  ProposeFunctionCall(via, to, "grantRole", [role |-> role, account |-> account])

ProposeRevokeRole(via, to, role, account) ==
  ProposeFunctionCall(via, to, "revokeRole", [role |-> role, account |-> account])

ProposeKYCAddressUpdate(via, to, addresses) ==
  ProposeFunctionCall(via, to, "addKYCAddresses", [addresses |-> addresses])

(* A transaction of an account whose key the script has: mined later on a  *)
(* live network, at once on a local node.                                  *)
Send(from, to, fn, args) == [op |-> "send", call |-> CallOf(from, to, fn, args)]
Transact(from, to, fn, args) == [op |-> "transact", call |-> CallOf(from, to, fn, args)]

=============================================================================

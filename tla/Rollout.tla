------------------------------ MODULE Rollout ------------------------------
(***************************************************************************)
(* One rollout, from the first script to the last.  An operator runs the   *)
(* scripts in the order of their numbers; the scripts read and write the   *)
(* deployment records, send transactions and put proposals to multisigs,   *)
(* which sign them in any order, at any time, or never; the guardian       *)
(* accepts what is handed over to it.  A script that fails is run again    *)
(* from its beginning, and one that ended may be run again by mistake.     *)
(***************************************************************************)
EXTENDS OMMFRollout, OUSGUpgrade, Verification, LocalNode, BagsExt

CONSTANTS Plans,      \* the rollouts, a subset of DOMAIN PlanScripts
          MaxMishaps, \* how often a script is interrupted or run again
          Mishandled  \* plan |-> the scripts, the first so many, it happens to

VARIABLES plan,     \* which rollout this is
          patient,  \* does the operator wait for the factories' proposals?
          chain,    \* the contracts (RolloutChain)
          records,  \* the deployments directory: name |-> address
          pending,  \* the calls proposed or sent that did not happen yet, a bag
          job,      \* the running script, its next step and its locals
          done,     \* how many scripts of the plan have ended
          mishaps

vars == <<plan, patient, chain, records, pending, job, done, mishaps>>

PlanScripts == [OMMF        |-> OMMFPlan,
                USDY        |-> USDYPlan,
                Mantle      |-> MantlePlan,
                OUSGProd    |-> OUSGPlan(OUSGProd),
                OUSGStaging |-> OUSGPlan(OUSGStaging),
                Local       |-> LocalPlan]

ASSUME RolloutAssumption == /\ Plans \subseteq DOMAIN PlanScripts
                            /\ MaxMishaps \in Nat
                            /\ Mishandled \in [Plans -> Nat]

ChainBefore(p) ==
  CASE p = "OMMF"              -> OMMFChain
    [] p \in {"USDY", "Mantle"} -> USDYChain
    [] p = "OUSGProd"          -> OUSGChain(OUSGProd)
    [] p = "OUSGStaging"       -> OUSGChain(OUSGStaging)
    [] p = "Local"             -> LocalChain

(* The steps of a script of a plan; a name no plan has stands for none. *)
ScriptOf(p, name, h) ==
  CASE p = "OMMF"        -> OMMFScript(name, h)
    [] p = "USDY"        -> USDYScript(MainnetUSDY, name, h)
    [] p = "Mantle"      -> USDYScript(MantleUSDY, name, h)
    [] p = "OUSGProd"    -> OUSGScript(OUSGProd, name, h)
    [] p = "OUSGStaging" -> OUSGScript(OUSGStaging, name, h)
    [] p = "Local"       -> LocalScript(name, h)

Scripts == PlanScripts[plan]
Idle    == [at |-> 0, pc |-> 1, held |-> NothingHeld]
Running == job.at # 0
Script  == ScriptOf(plan, Scripts[job.at], job.held)

(* The next step of the running script, if there is one. *)
NextStep ==
  IF ~ Running THEN {}
  ELSE {Script[i] : i \in {job.pc} \cap 1..Len(Script)}

Init == /\ plan \in Plans
        /\ patient \in BOOLEAN
        /\ chain = ChainBefore(plan)
        /\ records = <<>>
        /\ pending = EmptyBag
        /\ job = Idle
        /\ done = 0
        /\ mishaps = 0

-----------------------------------------------------------------------------
(* The operator. *)

FactoryIsAwaited == \E call \in BagToSet(pending) : call.fn \in DeployFns

Start ==
  /\ ~ Running /\ done < Len(Scripts)
  /\ patient => ~ FactoryIsAwaited
  /\ job' = [Idle EXCEPT !.at = done + 1]
  /\ UNCHANGED <<plan, patient, chain, records, pending, done, mishaps>>

(* A script that has ended is run once more. *)
Rerun ==
  /\ ~ Running /\ mishaps < MaxMishaps /\ done <= Mishandled[plan]
  /\ patient => ~ FactoryIsAwaited
  /\ \E at \in 1..done : job' = [Idle EXCEPT !.at = at]
  /\ mishaps' = mishaps + 1
  /\ UNCHANGED <<plan, patient, chain, records, pending, done>>

(* The node or the Defender service fails, or the operator declines. *)
Interrupt ==
  /\ mishaps < MaxMishaps /\ job.at <= Mishandled[plan]
  /\ \E step \in NextStep : step.op # "require"
  /\ job' = Idle
  /\ mishaps' = mishaps + 1
  /\ UNCHANGED <<plan, patient, chain, records, pending, done>>

-----------------------------------------------------------------------------
(* The steps of the running script. *)

Advance         == job' = [job EXCEPT !.pc = @ + 1]
Answer(step, a) == job' = [job EXCEPT !.pc = @ + 1, !.held[step.into] = a]
Record(name, a) == records' = Put(records, name, a)
StaysInPlan     == UNCHANGED <<plan, patient, done, mishaps>>

(* A mutant of the next definition: it looks into the directory of another *)
(* network, and throws.                                                    *)
GetRecordElsewhere(step) ==
  /\ step.op = "get"
  /\ job' = Idle
  /\ StaysInPlan /\ UNCHANGED <<chain, records, pending>>

GetRecord(step) ==
  /\ step.op = "get"
  /\ step.name \in DOMAIN records
  /\ Answer(step, records[step.name])
  /\ StaysInPlan /\ UNCHANGED <<chain, records, pending>>

ReadContract(step) ==
  /\ step.op = "read"
  /\ Answer(step, FieldOf(chain, step.contract, step.field))
  /\ StaysInPlan /\ UNCHANGED <<chain, records, pending>>

(* A condition that holds, a confirmation, an entry in Defender's list. *)
Pass(step) ==
  /\ step.op \in {"require", "confirm", "list"}
  /\ step.op = "require" => step.holds
  /\ Advance
  /\ StaysInPlan /\ UNCHANGED <<chain, records, pending>>

(* hardhat-deploy reuses what it recorded for the same arguments. *)
Recorded(step) ==
  /\ step.name \in DOMAIN records
  /\ HasCode(chain, records[step.name])
  /\ chain.built[records[step.name]] = AtBirth(step.kind, step.args)

DeployContract(step) ==
  /\ step.op = "deploy"
  /\ IF Recorded(step)
     THEN UNCHANGED <<chain, records>>
     ELSE /\ ConstructorAccepts(chain, step.kind, step.args)
          /\ chain' = Constructed(chain, step.kind, step.args)
          /\ Record(step.name, Fresh(chain, step.kind))
  /\ Advance
  /\ StaysInPlan /\ UNCHANGED pending

SaveRecord(step) ==
  /\ step.op = "save"
  /\ Record(step.name, step.address)
  /\ Advance
  /\ StaysInPlan /\ UNCHANGED <<chain, pending>>

(* The service takes any proposal; the deployer's node estimates its       *)
(* transaction first and refuses one that would fail.                      *)
Submit(step) ==
  /\ step.op \in {"propose", "send"}
  /\ step.op = "send" => Succeeds(chain, step.call)
  /\ pending' = BagAdd(pending, step.call)
  /\ Advance
  /\ StaysInPlan /\ UNCHANGED <<chain, records>>

(* The proposal, or the transaction, arrived, but the answer did not: the  *)
(* script throws, after its last call too.                                 *)
LoseAnswer(step) ==
  /\ step.op \in {"propose", "send"}
  /\ step.op = "send" => Succeeds(chain, step.call)
  /\ mishaps < MaxMishaps /\ job.at <= Mishandled[plan]
  /\ pending' = BagAdd(pending, step.call)
  /\ job' = Idle
  /\ mishaps' = mishaps + 1
  /\ UNCHANGED <<plan, patient, chain, records, done>>

(* A local node mines a transaction as it is sent. *)
TransactNow(step) ==
  /\ step.op = "transact"
  /\ Succeeds(chain, step.call)
  /\ chain' = AfterCall(chain, step.call)
  /\ Advance
  /\ StaysInPlan /\ UNCHANGED <<records, pending>>

Throws(step) ==
  CASE step.op = "get"     -> step.name \notin DOMAIN records
    [] step.op = "require" -> ~ step.holds
    [] step.op = "deploy"  -> ~ Recorded(step)
                                /\ ~ ConstructorAccepts(chain, step.kind, step.args)
    [] step.op \in {"send", "transact"} -> ~ Succeeds(chain, step.call)
    [] OTHER               -> FALSE

(* An error ends the script; what it did before stays. *)
Throw(step) ==
  /\ Throws(step)
  /\ job' = Idle
  /\ StaysInPlan /\ UNCHANGED <<chain, records, pending>>

End ==
  /\ Running /\ NextStep = {}
  /\ done' = IF job.at > done THEN job.at ELSE done
  /\ job' = Idle
  /\ UNCHANGED <<plan, patient, chain, records, pending, mishaps>>

ScriptStep ==
  \/ End
  \/ \E step \in NextStep :
       \/ GetRecord(step) \/ ReadContract(step) \/ Pass(step)
       \/ DeployContract(step) \/ SaveRecord(step)
       \/ Submit(step) \/ TransactNow(step) \/ Throw(step)

-----------------------------------------------------------------------------
(* Everybody else. *)

(* The signers execute a proposal, or a block takes the deployer's call.  A *)
(* proposal that would revert is not executed, and stays.                  *)
Execute ==
  \E call \in BagToSet(pending) :
    /\ pending' = BagRemove(pending, call)
    /\ Succeeds(chain, call)
    /\ chain' = AfterCall(chain, call)
    /\ UNCHANGED <<plan, patient, records, job, done, mishaps>>

(* The deployer's transaction was overtaken: it reverts and is gone. *)
RevertTransaction ==
  \E call \in BagToSet(pending) :
    /\ call.from = Deployer /\ ~ Succeeds(chain, call)
    /\ pending' = BagRemove(pending, call)
    /\ UNCHANGED <<plan, patient, chain, records, job, done, mishaps>>

(* The guardian accepts the ownership that was offered to it.  A local     *)
(* node's guardian does what the scripts do for it.                        *)
AcceptOwnership ==
  /\ plan # "Local"
  /\ \E a \in DOMAIN chain.built :
       LET owner == FieldOf(chain, a, "pendingOwner")
           call  == CallOf(owner, a, "acceptOwnership", <<>>)
       IN /\ owner # NoAddress
          /\ Succeeds(chain, call)
          /\ chain' = AfterCall(chain, call)
          /\ UNCHANGED <<plan, patient, records, pending, job, done, mishaps>>

Next ==
  \/ Start \/ Rerun \/ Interrupt \/ ScriptStep
  \/ \E step \in NextStep : LoseAnswer(step)
  \/ Execute \/ RevertTransaction \/ AcceptOwnership

(* A running script goes on by itself. *)
Spec == Init /\ [][Next]_vars /\ WF_vars(ScriptStep)

-----------------------------------------------------------------------------
(* Properties. *)

Complete ==
  /\ ~ Running /\ done = Len(Scripts) /\ pending = EmptyBag
  /\ \A a \in DOMAIN chain.built : FieldOf(chain, a, "pendingOwner") = NoAddress

(* No factory was told to deploy twice. *)
Produced     == {Produces[fn] : fn \in DeployFns}
OneTokenEach == \A a \in DOMAIN chain.built : a[1] \in Produced => a[2] = 1

IsOperational ==
  CASE plan = "OMMF"        -> OMMFIsOperational(chain, records)
    [] plan = "USDY"        -> ChecksPass(MainnetUSDY, chain, records)
    [] plan = "OUSGProd"    -> OUSGIsUpgraded(OUSGProd, chain, records)
    [] plan = "OUSGStaging" -> OUSGIsUpgraded(OUSGStaging, chain, records)
    [] plan = "Local"       -> LocalIsOperational(chain, records)
    [] OTHER                -> TRUE

(* When the operator waited for the factories, every script has ended and  *)
(* every signer has signed, the contracts are wired to one another and the *)
(* roles are held as the configuration says (for USDY: every check-* task  *)
(* passes, but for LIST_CONFIGURER_ROLE), whatever the order of the        *)
(* signatures, and through failures and repetitions of scripts.            *)
CompleteIsOperational ==
  patient /\ Complete /\ OneTokenEach => IsOperational

(* What the scripts propose can be signed in any order: each pending       *)
(* proposal of a patient operator is a call that would go through now, to  *)
(* an address with code, whichever other proposals are signed before it.   *)
NoDeadProposal ==
  patient => \A call \in BagToSet(pending) :
               call.from # Deployer => HasCode(chain, call.to) /\ Succeeds(chain, call)

(* However impatient the operator, and whatever is run twice: a manager is *)
(* never deployed with a token, or a wrapper, that is not there; only      *)
(* managers mint, each the token it was built for, when no factory ran     *)
(* twice.                                                                  *)
ManagersMatchTheirTokens ==
  /\ \A m \in DOMAIN chain.built :
       /\ m[1] \in Managers => HasCode(chain, chain.built[m].rwa)
       /\ m[1] = "OMMFManager" => HasCode(chain, chain.built[m].wommf)
  /\ OneTokenEach => \A token \in DOMAIN chain.built, m \in DOMAIN chain.built :
       m[1] \in Managers /\ Holds(chain.members, token, "MINTER_ROLE", m)
         => chain.built[m].rwa = token

(* The operator does not stop, and again and again those who sign have     *)
(* signed whatever can be signed.                                          *)
Signed ==
  /\ \A call \in BagToSet(pending) : ~ Succeeds(chain, call) /\ call.from # Deployer
  /\ \A a \in DOMAIN chain.built : FieldOf(chain, a, "pendingOwner") = NoAddress

PeopleAct == []<>Signed /\ []<>(Running \/ FactoryIsAwaited \/ done = Len(Scripts))

(* The guardian owns Blocklist, and the script that handed it over lost    *)
(* the answer to its last call: transferOwnership was sent and mined, the  *)
(* script threw.  Every rerun asks for the transfer again and throws, for  *)
(* the deployer is no longer the owner.                                    *)
Overtaken ==
  /\ ~ Running
  /\ ~ \E at \in 1..done : Scripts[at] = "DeployBlocklist"
  /\ \E a \in DOMAIN chain.built :
       a[1] = "Blocklist" /\ FieldOf(chain, a, "owner") # Deployer

(* If the people act, a rollout with a patient operator comes to its end   *)
(* and stays there, unless the guardian overtakes the blocklist script: no *)
(* other script fails for ever, no proposal waits for one that comes after *)
(* it, no call is stuck.                                                   *)
RolloutCompletes == patient /\ PeopleAct /\ [](~ Overtaken) => <>[]Complete

(* What check-usdy asserts of LIST_CONFIGURER_ROLE on USDY: the guardian,  *)
(* and it alone, holds it when the rollout is over.                        *)
ListConfigurersAsChecked ==
  patient /\ Complete /\ OneTokenEach => CheckListConfigurers(MainnetUSDY, chain, records)
=============================================================================

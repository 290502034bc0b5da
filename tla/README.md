# Ondo OUSG: a TLA+ model of the contracts and of their rollout

TLA+ models of the contracts in `src/contracts`: the tokenised fund OUSG, its rebasing wrapper rOUSG, the contracts that mint and redeem them against USDC, and the oracles and registries these depend on; and of the scripts in `src/deploy` and `src/scripts` that put the products OMMF, USDY and OUSG on a chain, with the operator who runs them and the multisigs that sign what they propose.
TLC checks the models on small instances; TLAPS proves nearly every property of the contracts for every value of the constants.

Paths below are relative to `src/contracts`, those that begin with `deploy`, `scripts` or `constants` to `src`.

## 1. The system

| Component | State | Operations | Talks to |
|---|---|---|---|
| **OUSG** `ousg/ousg.sol` (with the vendored ERC-20) | balances, allowances, supply, pause, KYC registry and group | transfer, transferFrom, approve and its increments, mint, burn, burnFrom, the burner's burn, pause, KYC settings | KYC registry, in the transfer hook |
| **rOUSG** `ousg/rOUSG.sol` | shares, total shares, allowances, oracle, pause, KYC settings | wrap, unwrap, transfer, transferFrom, transferShares, approve..., burner's burn, setOracle, pause, KYC settings | OUSG (holds the reserve), oracle (price at the moment of reading), KYC registry |
| **OUSGInstantManager** `ousg/ousgInstantManager.sol` | fees, minimums, oracle, fee receiver, pauses, USDC buffer, BUIDL | mint, mintRebasingOUSG, redeem, redeemRebasingOUSG, every setter, pauses, retrieveTokens, multiexcall | both tokens, oracle, rate limiter, investor-based limiter, USDC, BUIDL and its redeemer |
| **Rate limiter** `InstantMintTimeBasedRateLimiter.sol` | per side: limit, duration, amount used, last reset | check and update, set limit, set duration | the clock |
| **KYC registry** `kyc/*.sol` | verified addresses per group, the role of each group, the holders of each role | add, remove, add by signature, assign a group, grant, revoke, renounce | sanctions list, the clock |
| **Price oracles** `rwaOracles/*.sol` | price and timestamp, last feed round; list of ranges | setPrice, setRange, overrideRange | Chainlink feed, the clock |
| **Hub** `RWAHub.sol`, `RWAHubOffChainRedemptions.sol`, `ousg/ousgManager.sol` | open deposits and redemptions, counters, fees, minimums, pauses | requests, claims, proofs, price ids, overwriting, setters | OUSG, pricer, KYC registry, USDC |
| **Pricer** `Pricer.sol`, `PricerWithOracle.sol` | prices by id, latest id, maximum age | add (freely or checked), update, delete | an oracle |
| **Rollouts** `deploy/**`, `scripts/**` | deployment records; contracts with their wiring and roles; proposals that wait for signatures | forty-odd scripts: deploy, save, propose, configure; check tasks | hardhat-deploy, Defender, the multisigs, the contracts' constructors and setters |
| Factory and proxies of rOUSG, instant-mint hubs, CI scripts | | | not modelled, see section 8 |

A transaction is atomic, so concurrency is the interleaving of transactions of holders, role holders, the oracle's setter, the registries and the passing of time.
What is hard here:

* *Values that move between two calls.* A price, a KYC entry, a pause or a limit changes between the calls of a holder. rOUSG balances and supply are recomputed from the oracle's price at every reading.
* *Rounding.* Shares, two tokens, USDC, three scales and two fees are converted into each other, and each division must favour the right side, over any sequence of calls.
* *Contracts that rely on each other's checks.* The manager checks no KYC, rOUSG's `burn` no pause; they rely on hooks in other contracts.
* *Protocols over several transactions.* The hub's request, price id and claim; settings of a price that follow each other; ranges set and overridden.
* *Time.* Fixed windows of the limiter, update windows and freshness of oracles, age of prices, ranges that run out.
* *Errors that revert.* One failing step of several undoes all. In the model a call that reverts is an action that is not enabled.

On the chain nothing crashes, restarts or gets lost, and no message is in flight, but for the relayed proofs of the hub and the signatures of the registry, which can be delivered twice.
A rollout is different. It is a distributed protocol, run once, by people:

* *Scripts fail half way and are run again from the top.* What they did before stays: contracts, records, proposals.
* *Proposals are signed in any order, late, or after the script that needs them.* A script that reads a factory's proxy before the factory's proposal was executed reads the null address.
* *Records link the scripts.* A name is written by one script and read by another; nothing but the run shows that they agree.
* *The order of roles.* The verification compares role members by index.

### What makes each part correct

* OUSG: the supply is the sum of the balances; a pause or a lost KYC freezes; only its owner, a spender or the burner lowers a balance.
* rOUSG: every share is backed by OUSG; conversions never favour the holder; the exit is open; a pause and a lost KYC freeze; a spender pays in allowance.
* Manager: nobody profits by minting or redeeming, the issuer's equity does not fall, and a redemption does not fail for want of USDC that BUIDL could provide.
* Limiter: what is admitted stays within the limit; the tracked amount is the true one; nobody is refused whom a sliding window of the same length would admit. The contract writes its two sides out twice; the copies agree statement by statement and are one operator over `Side` here.
* Oracles: a price moves no further and no faster than its bounds; a fresh round can always be priced; accrued prices do not fall and do not change in hindsight.
* KYC registry: only the present holders of a group's role change the group, whoever signed what before; an authority given up does not come back.
* Hub and pricer: an open request is neither lost nor paid twice, nobody gains, a price id names a price, the latest price is the newest.
* Rollouts: what is complete is wired and owned as the configuration says, in whatever order people acted; a proposal put to a multisig can be executed when it is signed; no manager serves a token that is not there or not its own; a rollout comes to its end.

## 2. The modules

| Module | Models | Notes |
|---|---|---|
| `TokenLedger` | balance arithmetic of the ERC-20s | pure operators `Paid`, `Issued`, `Retired`, `Total` |
| `KYCStatus` | abstract: registry and sanctions list as the tokens see them | entries come and go by themselves |
| `KYCRegistry` | the registry: roles, groups, batches, signatures with deadlines | EXTENDS `KYCStatus`, whose variables it changes by its own rules; a signature, once made, is a message that can be delivered at any time and any number of times |
| `OUSGWithRegistry` | `OUSG` composed with `KYCRegistry` | |
| `OUSG` | the token | one action per external function, caller first; `OUSGHook` is `_beforeTokenTransfer` |
| `ROUSG` | the wrapper; EXTENDS `OUSG` | shares are the state, balances are computed; `ONE` and `MULT` stand for 1e18 and the 10,000 shares per OUSG |
| `ShareVault` | abstract: what a wrapper promises | deposit, withdraw, reassign, donate |
| `RateLimiter`, `RateLimiterLog` | the limiter; with its history | the history is only observed |
| `OUSGInstantManager` | the manager composed with `ROUSG` and `RateLimiter` | each mint or redemption is one action with all its calls |
| `BlockTime`, `SignedMath`, `PriceMath` | the clock; Solidity's signed division; distances and powers, for properties | `Power` is a recursive function, about which induction is possible |
| `BoundedPrice` | abstract: a price replaced at most once per window, each time within a bound | both oracles set by hand implement it |
| `RWAOracleExternalComparisonCheck`, `RWAOracleRateCheck` | the two oracles set by hand | the feed may answer any round, corrupt ones too |
| `RWADynamicOracle` | ranges, accrual, the fixed-point power | the power's loop keeps the order and rounding of the code |
| `Pricer` | both pricers | the oracle behind it publishes of its own accord |
| `OUSGManager` | the hub with the two contracts that extend it, over `OUSG` and `Pricer` | |
| `RoleMembers` | AccessControlEnumerable: role members in their order | pure operators; removal moves the last member into the gap |
| `RolloutChain` | the contracts a rollout touches: constructor arguments, stored addresses, roles; when a call succeeds and what it does | the source of tokens and factories is in the compiler's metadata of the deployment records (`src/deployments/mainnet`), that of rUSDY in `mainnet_prod/solcInputs`; the bridges are modelled from how the scripts use them |
| `ScriptSteps` | the steps scripts consist of, one per awaited call | `get`, `read`, `require`, `deploy`, `save`, `propose`, `send`, ... |
| `OMMFRollout`, `USDYRollout`, `OUSGUpgrade`, `LocalNode` | each script as its sequence of steps; the order of a plan | one definition per file; `LocalNode` computes hardhat-deploy's order from tags, dependencies and paths |
| `Verification` | the `check-*` tasks of USDY | conditions on the end of a rollout |
| `Rollout` | the interpreter of the scripts; the operator, the signers, the chain | state machine; properties |
| `LedgerLemmas`, `OUSGProofs`, `KYCRegistryProofs`, `ROUSGProofs`, `ManagerProofs`, `OracleProofs`, `HubProofs`, `RolloutProofs` | theorems and proofs | section 7 |
| `MCOUSG`, `MCROUSG`, `MCRateLimiter`, `MCManager`, `MCOracles`, `MCHub`, `MCRollout` | instances for TLC | `MCOracles` deploys one of the three oracles in each behaviour |

Conventions.
Variables and operators carry the names of the contract; where several contracts share a name a prefix tells them apart.
Each external function is an action; guards are its `require`s and reverts, in any order, since a revert undoes everything.
Constants marked `bound` are the finite sets of inputs and the limits on counters; they restrict which calls are made, never what a call does.
A deployment script is data: a sequence of steps, in the order of the file, with the locals it holds as a parameter. `Rollout` executes one step per action, so that anything may happen between two awaits.
A definition followed by another whose comment begins "A mutant of" pairs the code with a plausible slip of it, which the property of the same section must catch.

## 3. The runs

| Run | Question | Properties |
|---|---|---|
| `ousg_registry` | Does the token keep its freeze and its pause, and who can lower a balance or change the registry, with the real registry beside it? | `OUSGFrozenStay`, `OUSGPausedStay`, `OUSGIdleKeep`, `OrphanGroupsAreFrozen`, `AbandonedForGood` |
| `rousg_core` | Is every share backed, at any price, and can holders leave? | `SharesAreSum`, `Backed`, `SupplyMatchesBalances`, `FullExitLosesAtMostOneUnit`, `ExitIsOpen`, `ImplementsShareVault` |
| `rousg_allowance` | Does a spender pay, with prices of zero, a burner who reaches the reserve, and tokens that use different registries? | `AllowanceCovers`, `SurplusNeverShrinks`, `FrozenStay` |
| `limiter` | Do limits mean what they say, while they are changed? | `CurrentMatchesLog`, `NeverStricterThanSliding`, `TwiceTheLimitInAnyWindow` |
| `manager_value` | Is value created or lost by minting and redeeming? | `NobodyProfits`, `EquityNeverFalls`, `KeepsOnlyDust` |
| `manager_limits` | Do all contracts stay in order, and can any history make a funded redemption fail, with every setter, limits, KYC and an investor who uses the tokens directly as well? Does the manager, which checks no KYC, serve only whom the hooks let through? | `TokensInOrder`, `RedemptionIsOpen`, `ServesOnlyTheCleared` |
| `oracles` | How far and fast can a price move; does the accrued price behave? | `FreshRoundCanBePriced`, `PricesCompoundByWindow`, `FollowsTheFeed`, `ComparisonImplementsBoundedPrice`, `RateImplementsBoundedPrice`, `RangesInOrder`, `PriceNeverFalls`, `PastIsFinal`, `PriceIsCompoundInterest` |
| `hub` | Is a request lost, paid twice or worth more than was put in? | `HubInOrder`, `LatestIsNewest`, `OpenRequestsAreKeptOrSettled`, `UsersNeverGain` |
| `rollout` | Do the scripts, the operator and the signers bring each product up as configured, in any order and through failures? | `CompleteIsOperational`, `NoDeadProposal`, `ManagersMatchTheirTokens`, `RolloutCompletes` |
| `manager_feecap` (violated) | Is a fee at or above its cap impossible? | `FeesBelowCap` |
| `oracle_lock` (violated) | Does a round judged malfunctioning have no effect on later settings? | `MalfunctionIsIgnored` |
| `rollout_lists` (violated) | Does the guardian of USDY end up with LIST_CONFIGURER_ROLE? | `ListConfigurersAsChecked` |

Each property is stated in words above its definition.

Some properties deserve a remark.
`UsersNeverGain` weighs everything users hold or are owed at a price q and lets a call raise it only if it is a relayed proof or an overwriting; a claim is weighed at the price it is settled at, so the rounding of fees, scaling and both conversions is covered in either direction.
`ComparisonImplementsBoundedPrice` and `RateImplementsBoundedPrice` are refinements: each setting of either oracle is one `Replace` of `BoundedPrice`, from which the compound bound over any number of windows follows, checked and proved as `PricesCompoundByWindow`.
`ServesOnlyTheCleared` looks at the money, not at the hooks: an investor's USDC moves in a mint or a redemption only when one of the two tokens accepts him at that moment and the other does not move for him. Nothing in the manager says so; it holds by what each of the four calls makes of the hooks. The owner of the fees is excepted: what others do pays him.
`FrozenStay` leaves out the admin burn: its comment says that it reaches every account, its hook that it does not (section 6), and no property says which is right.
`PriceIsCompoundInterest` compares every day's price with the definition, price times rate to the power of the day, in whole numbers: both sides are multiplied by `ONE` to that power. Its bound, `PowerError`, holds at every scale: in proportion about `(n - 1)/(2 ONE)`, nothing to notice at 1e27 and less than a sixth at the scale of the run.
`ComparisonImplementsBoundedPrice`'s companion `FollowsTheFeed` is about the other threshold: between two settings price and feed part by no more than the deviation allowed, truncation included.
`CompleteIsOperational` and `NoDeadProposal` speak of a *patient* operator, who does not start a script while a factory's proposal waits, as the scripts are numbered; `ManagersMatchTheirTokens` of any operator. `OneTokenEach` in them excludes behaviours in which a factory was made to deploy twice, which nothing in the scripts prevents (section 6).

## 4. Bounds, and why they are enough

Scales are small numbers chosen so that *every* division of the code leaves remainders in some state: `ONE = 2`, `MULT = 3`, prices 3 and 5 (never a multiple of the scale), basis points of 2, 4 or 10.
The properties about rounding concern remainders of one division at a time or the composition of two, and these take all their values at such scales.

* Two holders are the least for transfers, spenders and a burner acting against another; a third address is used where an idle one matters. The manager and the hub deal with one caller at a time and keep no state per caller besides balances and requests: one investor who does everything.
* Supplies of two to three OUSG, six to nine shares: a wrap, a partial exit and a remainder at once.
* Limiter: three timestamps, durations zero and two: a window, its end and the timestamp between.
* Oracles: up to six time units with windows of two and three: two full windows and a stale round; three rounds; three ranges, so that there is a first, a middle and a last one to override.
* Hub: two requests open at a time out of two deposits and two redemptions (one by counter, one by hash each), two price ids, two timestamps, prices 2 and 3, an oracle whose price is one unit old at the deployment; one fee or pause in force at a time (`MaxSettings`); the price that is corrected or deleted is the first (`CorrectedIds`); a deposit proof arrives only while there are no tokens (`MaxOUSG`). KYC does not change in this run: it is the business of `ousg_registry` and `manager_limits`.

* Registry (`ousg_registry`): one registry and group, its admin and one more member of staff, one KYC role besides the two administrators', one signature at a time whose deadline is the first of two timestamps: delivered before and after it, before and after its signer lost the role, the user was removed or the group changed hands. One OUSG in circulation.
* `rousg_allowance` has one OUSG and three shares, two registries and prices 0 and 5; amounts of 2 and 3 rOUSG are 2 and 3 shares there: a transfer with a remainder and an exit. The larger supply is in `rousg_core`, with prices 3 and 5 and no allowances.
* `manager_value` has fees, two timestamps, prices 3 and 5 and redemptions above and below the minimum of BUIDL, with fixed minimums and no KYC changes; `manager_limits` changes everything else and leaves the clock alone, its limits being of duration zero. Its two tokens ask the same registry; tokens that ask different ones, and several investors, are covered by the theorem `ManagerServesTheCleared`.
* `rollout`: six plans, each by itself, with every order of signatures. `MaxMishaps = 1`: per behaviour one interruption, at any await, or one call that arrives while its answer is lost, or one repetition of an ended script. `Mishandled` says for which scripts of a plan: all on Mantle and on staging, the first eight of USDY (up to the deployment of its manager), the first two of the OUSG upgrade in production, none for OMMF and the local node. The configuration scripts at the end leave up to ten proposals that do not depend on one another; to repeat them multiplies the orders without a new case, and staging runs the same configuration script under a mishap. Of Mantle, whose rollout ends before the manager, only `NoDeadProposal`, `ManagersMatchTheirTokens` and `RolloutCompletes` say something; its last scripts cannot run there (section 6).

Where `CHECK_DEADLOCK FALSE` is set, the bound on the block time ends the behaviour (`oracles`, `oracle_lock`), or the rollout is over (`rollout`, `rollout_lists`).

## 5. Fairness

Of the contracts none is assumed, and no liveness is claimed: the chain guarantees no user or role holder that anybody will ever send a transaction.
What must *remain possible* is stated as invariants instead: `ExitIsOpen`, `RedemptionIsOpen`, `NeverStricterThanSliding` and `FreshRoundCanBePriced` say that under their conditions every check of the call passes. The checks are definitions (`CanUnwrap`, `CanRedeem`, `Admits`, `Priceable`) that the actions have as guards; what else such an action says are assignments. `ENABLED` is not used, so that TLAPS can prove what TLC checks.

A rollout does come to an end. `Rollout!Spec` has `WF_vars(ScriptStep)`: a script that runs goes on by itself, since it is one process whose awaited calls return or fail.
Nothing makes people act, so no fairness is put on them; `RolloutCompletes` has it as its premise instead, `PeopleAct`: again and again whatever can be signed has been signed, and the operator does not stop half way while no factory is awaited. Interruptions, lost answers and repetitions are bounded by `MaxMishaps`, so they do not go on for ever. A second premise, `[](~ Overtaken)`, names the one behaviour in which people act and the rollout hangs all the same (section 6).

## 6. What the runs found

**The fee cap checks the wrong value** (`manager_feecap`). `setMintFee` and `setRedeemFee` require the *current* fee to be below 200 (`ousg/ousgInstantManager.sol:557`, `:570`). Any fee can be set from a legal one, and from a fee at the cap none can be set again.

**An ignored round is not ignored** (`oracle_lock`). A feed change beyond the threshold "is deemed malfunctioning and ignored" (`rwaOracles/RWAOracleExternalComparisonCheck.sol:140`), yet the round is stored as the reference of the next setting (`:216`). In the run the feed starts at a real price, a round answers zero, `setPrice` ignores and stores it, and from the next, sound round no price can be set: the comparison divides by zero (`:267`).

**The role the check expects is not granted** (`rollout_lists`). `check-usdy` asserts that the guardian, and it alone, holds LIST_CONFIGURER_ROLE of USDY (`scripts/usdy/verification-scripts/config.ts:72`, asserted at `assert_usdy_configuration.ts:98`). At birth it has none: in the source kept with the deployment (`src/deployments/mainnet/USDYFactory.json:266`, the metadata's `USDYFactory.sol` and `USDY.sol`) `deployUSDY` grants the guardian DEFAULT_ADMIN_ROLE and PAUSER_ROLE, and the initializer nobody else anything that lasts. The only script that proposes the role proposes it on the USDYManager (`scripts/usdy/5-usdyManager-prod.ts:131`), which has no use for it. `CompleteIsOperational` therefore leaves this one assertion out.

Smaller observations made while modelling, none of them contradicting a statement of the repository strongly enough to be a finding:

* `rOUSG.transferFrom` and `transfer` move shares rounded down from the amount, so an amount slightly above the shown balance can succeed (`ousg/rOUSG.sol`, `_transfer`).
* With OUSG's burner used against the wrapper itself `Backed` fails by design; the theorems exclude it by assumption, `SurplusNeverShrinks` names it as the only cause.
* The admin burn does not reach every account. Its comment says "Admin burn function to burn rOUSG tokens from any account" (`ousg/rOUSG.sol:619`), the table of roles "Can admin burn other holders' rOUSG tokens" (`src/README.md:182`); `_burnShares` runs the transfer hook, which requires KYC of the account burned from (`ousg/rOUSG.sol:595`): a holder who wraps and then loses his KYC cannot be burned, though the burner is KYC'd and nothing is paused.
* With a duration of zero the limiter admits the limit on every operation, not once per block (`InstantMintTimeBasedRateLimiter.sol:96`).
* The dynamic oracle: a range set after the last one ran out starts in the past and changes the price already answered (`setRange`); `overrideRange` accepts a rate below one or, for the last range, a start in the future. `PastIsFinal` and `PriceNeverFalls` state the conditions under which this does not happen.
* The hub: a hash is accepted by `addProof` again after its claim (`RWAHub.sol:331`); a redemption claimed after its price was deleted pays zero and is gone (`RWAHub.sol:286`), where a mint reverts (`:697`).
* `2-save-ommf-prod.ts` and its like save the factory's proxy without a look at it. An operator who does not wait records the null address, and `3-wommf-prod.ts` then has WOMMF wrap it. The manager's own deployment script does look (`deploy/ommf/production/3_deploy_ommfManager.ts:23`), hence `ManagersMatchTheirTokens`.
* The blocklist script can be overtaken. If the answer to its last call, `transferOwnership` (`deploy/usdy/production/2_deploy_blocklist.ts:22`), is lost, the script throws though the offer is made. Should the guardian accept before the script is run again, every rerun asks for the transfer once more and throws, the deployer being the owner no longer; hardhat-deploy does not go on to the scripts after it. TLC shows it when `RolloutCompletes` has no premise `[](~ Overtaken)`.
* A script run again repeats its proposals; a factory's deploy function executed twice leaves two tokens and points at the second.
* The USDYManager is given PAUSER_ROLE and LIST_CONFIGURER_ROLE, and a title in `scripts/ommf/5-ommfManager-prod.ts:157` says RELAYER_ROLE where the payload is PAUSER_ADMIN. The manager's roles are those of `RWAHub.sol`; the two first have no effect there.
* The grant of MINTER_ROLE on OUSG to the new manager is commented out (`scripts/ousg/1_ousg_upgrade_rwahub/1_configure_rwahub_upgrade.ts:91`): after the upgrade as scripted the old CashManager mints no more and the new manager not yet.
* The `assert` of the verification tasks is the console's and does not throw (`scripts/utils/helpers.ts:1`): a task that fails prints and ends well.
* On Mantle `deploy/usdy/production/4_deploy_usdyManager.ts:45` means to say that no manager is to be deployed; the lookup at `:15` throws before.
* Local deployment: `deploy/usdy/local/deploy_blocklist.ts:29` depends on a tag "Allowlist" that no file has (it is "AllowList"), the USDYManager reads a pricer and rUSDY a token that are not among their dependencies. The alphabetical order of the paths makes all of it work: `rollout`, plan `Local`.
* The pricer: `deletePrice` leaves `latestPriceId` on the deleted price (`PricerWithOracle.sol:125`); `updatePrice` changes the price of requests that already carry the id.

## 7. What is proved

All proofs are checked by TLAPS. They rest on the `ASSUME`s of the modules and on the hypotheses of a few theorems, both listed at the end of this section; nothing else is assumed. "For any" below means: for every value of the constants, of any finite set of accounts, and for behaviours of any length.

**Sums** (`LedgerLemmas`). A sum of balances over accounts is the cardinality of a set of unit coins, so that the library's facts on finite sets carry it. The lemmas say what paying, issuing and retiring do to a sum, that the sum over part of the accounts is at most the whole, and how much truncating division loses: once per quotient, at most one unit each, so at most one unit per account in a sum of quotients.

**OUSG** (`OUSGProofs`). `OUSGInv` = types, allowances and supply as the sum of balances. It is inductive: every action of a holder or role holder moves, issues or retires whole amounts. From it: `OUSGTypeCorrect`, `OUSGSupplyCorrect`, and the action properties `OUSGPauseFreezes`, `OUSGIdleKept`, `OUSGFreezeHolds`.

**rOUSG** (`ROUSGProofs`). `WrapperInv` adds shares and their total, allowances, oracle and price types, and `ReserveUnspendable`: the wrapper never approves anybody on OUSG. Without the last conjunct `Backed` is not inductive, since an approved spender could take the reserve. It gives

* `WrapperTypeCorrect`, `WrapperSharesAreSum`, `ReserveStaysUnspendable`, `AllowancesPay`, `WrapperPauseFreezes`, `WrapperFreezeHolds`, for any price, scale, holders and amounts;
* `WrapperSupplyMatches`: the sum of the truncated balances against the truncated supply. It comes from a lemma on sums of quotients (`ShownAll`): a sum of truncated balances falls short by less than a unit for each holder;
* `WrapperFullExit`, from two lemmas on a quotient of a quotient; `WrapperSurplusStays`, the only steps that lower the surplus being seizures from the wrapper;
* if `rOUSG \notin OUSGSeizable`, `WrapperExitIsOpen`: who may move both tokens can unwrap all he is shown. Rounding asks for no more shares than he has (the shares of a truncated balance), and the reserve has the OUSG by `Backed`, so neither burning nor paying can fail;
* if `rOUSG \notin OUSGSeizable`, `WrapperImplementsVault`: every step of wrapper, token and registries is a step or a stutter of `ShareVault`. `WrapperIsBacked` then follows from `VaultKeepsItsBooks`, the same statement about the vault's four actions.

**Manager** (`ManagerProofs`). A mint or redemption is one action of a dozen calls that touch four ledgers (USDC, BUIDL, OUSG, shares). The proof takes it apart: what each of these ledgers is after it, as a composition of payments, issues and retirements, and what the users hold of each. The inductive invariant `ManagerInv` = `WrapperInv`, `ConfigOK` (settings), `MoneyOK` (balances of USDC and BUIDL) and `LimiterTypeOK`; for the backing, also that the surplus is not negative. From it

* `TokensStayInOrder`: both tokens keep the invariants of the wrapper under the manager's minting and burning, `Backed` included: no step but a seizure lowers the surplus;
* `ManagerKeepsOnlyDust`: the manager's OUSG is after a mint or redemption what it was before, its approval of rOUSG is used up or as before, and the shares it keeps are worth less than a unit of rOUSG and one share;
* `ManagerNobodyProfits`, `ManagerEquityStays`: no mint or redemption raises the worth of what a user holds, nor lowers the issuer's equity. Each adds up the differences of the four ledgers, every conversion being worth at most what it converts.
* `ManagerRedemptionIsOpen`: a redemption that the gates let through and BUIDL covers passes every check of the call. In each case of the two sources the amount that is taken from BUIDL is there, and what is paid out after the fees is covered by the USDC held and the USDC received.
* `ManagerPassesTheGates`: the freeze and the pause of both tokens hold in the whole system. The argument is one lemma per token, that each of its three writes passes its hook (`WritesPassTheHook`, `SharesMoveByHook`), and a lemma per kind of transaction for the manager, whose rebasing calls write each ledger several times and are checked against the composition of those writes.
* `ManagerServesTheCleared`: no mint or redemption moves a user's USDC but that of the caller (`OthersKeepTheirUSDC`), the fee receiver excepted, and the caller got through the hooks of the token he brought or received while the other stayed (`CallersAreServed`, one case per call).

**KYC registry** (`KYCRegistryProofs`). The list of a group changes only by a batch of one who holds the group's role, or by a signature of one who holds it at delivery; from this lemma and `RegistryTypeOK` as the invariant: `OrphansStayFrozen` and `AbandonmentIsFinal`, for any accounts, roles, groups, registries and signatures. `CheckedSupply` carries the theorems about `OUSG` over to the token beside this registry.

**Rate limiter** (`ManagerProofs`, last part). `LimiterTypeCorrect` with its inductive invariant, and from it `LimitHolds` (an action property: no admission leaves a side above its limit), for any limits, durations and amounts. The two properties about the log of admissions need a stronger invariant, `WindowInv`. For each side, `WindowOK` says the amount counted is what the log shows since the last reset, and `SettledOK`, for the time since the settings last changed: nothing was admitted once the open window is over; what it admitted is within the limit; and so is any stretch shorter than a window that ends before the reset. `LimiterMatchesItsLog` is the first part. For `LimiterTwiceTheLimit`, a stretch as long as a window that contains the reset splits at it into two halves of which each is one of the kinds above; hence twice the limit and not once. `LimiterNeverStricter` needs the first part only: the amount counted as used was admitted since the last reset, which is no longer ago than a window unless it counts as nothing (`UsedIsRecent`).

**Oracles** (`OracleProofs`).

* `RateBounded`, `ComparisonBounded`: both oracles set by hand implement `BoundedPrice`, from lemmas on the two truncating (signed) divisions.
* `ComparisonFollowsTheFeed`: each setting changes the price by about the proportion by which the feed changed, unless the feed moved beyond what a setting can follow; `ComparisonNeverLocks`: for a fresh, uncorrupted round there is always a price that both checks accept, by choosing a change both allow and a price that comes to it.
* `OraclePricesCompound`: however often they are set, the prices of these oracles lie within one bound per window gone by since deployment, on both sides. The inductive invariant says the same up to the last setting; `ReplacementMultiplies` is its step: one replacement costs one more factor, and a window has gone by for it. `Power` is a recursive function, and that its values are positive and keep the order of exponents is proved by induction.
* `DynamicRangesInOrder`: the ranges of the dynamic oracle are in order of time, never overlap and are never empty, through any settings and overrides. On it rest `DynamicPastIsFinal` (no change of the ranges changes a price at a past moment) and `DynamicPriceNeverFalls`. The latter needs that `_rpow` is monotone in the number of days, though it rounds at every squaring; its loop is a recursive function, shown to terminate and then compared with the loop for the next exponent.
* `DynamicPriceIsCompoundInterest`: the price is the compound interest of its range within `PowerError` and half a unit, for any rates, also below one, and any ranges. `Near(u, x, a)` says that u is x to the power a but for the rounding of a - 1 products. A rounded product of two such numbers is one again, of the sum of the exponents (`NearMultiplies`, whatever the order of the products); the loop keeps it for both its accumulators (`PowLoopNear`, by induction over the passes left), so `_rpow` raises to the power (`RPowNear`). The truncation and the rounding to units add half a unit (`RoundUpTo8Near`).

**Hub and pricer** (`HubProofs`). `HubInv` = `PricerInv` /\ `OUSGInv` /\ `BooksInv` /\ `MoneyInv`. `PricerInv`: types, no price behind an id not given out yet, a clock that has run further than any permitted age of a price, and `LatestIsNewest`. `BooksInv`: the next id of each counter is free each request's price id is one that was given out, or none, and a record without a user has no amount. From it `HubStaysInOrder`, `HubLatestIsNewest`, and the action properties `HubRequestsStand` (an open request is kept or settled as it stands, in every step but the admin's overwriting) and `HubUsersNeverGain` (at the price a request is settled at, what users hold and are owed never grows, but by a proof of a deposit made elsewhere or by overwriting).

**Rollouts** (`RolloutProofs`). `RolloutManagersMatch`: in each of the six plans a manager is only deployed with a token, and OMMF's with a wrapper, that is there; and unless a factory ran twice, no manager holds MINTER_ROLE on a token other than the one it was built for. It holds for the impatient operator, any number of interruptions, lost answers and repetitions of any scripts, and any order of the signatures. The property is not inductive: the addresses in question go from a factory's proxies to a record, to a local of a later script and only then to a constructor. `RolloutInv` follows them:

* `RecordsOK`, `HeldOK`: a record, and a local of the running script where it matters (`Sort` says of what kind), is no address or points to a contract of that kind (`JobOK` says there is nothing else);
* `ChainOK`: the same of the words stored on the chain, in particular of the factories' proxies and of what factories and managers were constructed with; and who is in the lists of MINTER_ROLE;
* `PendingOK`: each proposal that waits for signatures is a call a script may make;
* `WrapperOK`: of the one token that is given to a constructor besides a manager's own, the wrapper of OMMF, what the scripts know of it: in production the manager's script has checked it, on the local node the script before has read it off the factory that deployed it.

Each script's steps respect the kinds (`ScriptsOK`, a lemma per script); each call and each constructor keeps `ChainOK` (`AfterCallOK`, `ConstructedOK`); then there is one lemma per action (`InvKept`).

Some of these state properties that have no line of their own in a run: `OUSGTypeCorrect`, `WrapperTypeCorrect` and `OUSGSupplyCorrect` (parts of `TokensInOrder`), `WrapperPauseFreezes`, `LimitHolds`.

### Induction

The library's induction theorems take an operator as a parameter and cannot be used with the installed provers. Two things stand in for them. Sums over accounts are cardinalities of sets, and a statement about all parts of a finite set is shown by a smallest counterexample (`SubsetInduction`). A statement about all numbers is the set of numbers for which it holds: if a number were missing there would be a least one (`StrongInduction`, from the well-foundedness of `<` on the naturals). So is it shown that a recursive function is what its equation says (`LoopTerminates`).

### What is assumed

Types of constants apart, these assumptions are stated in the modules and hold for the constants of the code:

* `manager`, `rOUSG`, `hub`, `usdcReceiver`, `assetRecipient` are not users, nor the zero address; where they are contracts or custody accounts they make no calls of their own (`ROUSGAssumption`, `ManagerAssumption`, `HubAssumption`, `CustodyAssumption`). Were `assetRecipient` a user, a deposit would cost nothing.
* `MAX_ABSOLUTE_DIFF_BPS < BPS_DENOMINATOR` (200 and 10,000) and `RATE_DIFF_BPS <= RATE_DENOMINATOR` (100 and 10,000): otherwise a price could change its sign and bounds on its ratio mean nothing.
* `RequestAssumption`: `_getMintAmount` multiplies with overflow checks; the amounts a run or a theorem admits are those for which it does not revert.
* `TimestampDiffs` are smaller than `DeployTime` (`DiffAssumption`): the pricer subtracts them from the time, in checked arithmetic.
* `TxHashes`, the ids of deposits from off chain, are finite in number and larger than any id a counter reaches: they are hashes.

Hypotheses of single theorems:

* `rOUSG \notin OUSGSeizable` (`WrapperImplementsVault`, `WrapperIsBacked`, `WrapperExitIsOpen`, `TokensStayInOrder`): the burner role is not used against the wrapper. The code allows it; `SurplusNeverShrinks` is stated so that it holds either way.
* `FeeReceivers \cap Users = {}` (`ManagerNobodyProfits`, `ManagerEquityStays`): a user who is also the fee receiver gains by the fees of others. The runs have it so as well.

### Checked by TLC only

* `RolloutCompletes`: liveness under fairness.
* `CompleteIsOperational`, `NoDeadProposal`: both speak of the exact roles and addresses of a product, plan by plan; but for the number of mishaps the state space is finite and fixed by the scripts, and TLC goes through all of it.

## 8. What is not modelled, and why

* `multiexcall` of the manager and the factory: an arbitrary call by the admin; anything could happen.
* AccessControl in tokens, managers and oracles: who holds a role is a constant of each module. It is modelled with the registry and, with the members' order, with the rollouts.
* Signatures of the registry are messages that name their signer; the encoding and the recovery of the signer are not modelled.
* `setPricer`: one pricer throughout.
* `RWAHubInstantMints`, `RWAHubNonStableInstantMints`: abstract, inherited by no contract of the repository.
* Overflow of 256-bit integers: Solidity 0.8 reverts. The two places with unchecked arithmetic are the ERC-20's balances, where the type invariants are the proof that nothing wraps, and the power of the dynamic oracle, whose overflow checks are not modelled.
* `simulateRange` of the dynamic oracle, a view no contract calls.
* `check-usdy-rwaOracle-rateCheck`: the oracle it checks is deployed by no script. `deployWithRetries` (`scripts/utils/deploy.ts`): called by no script.
* Of the scripts: wording and ABIs of proposals, verification of source code, amounts and limits that are passed through to constructors. Of the OMMF and USDY tokens, the allowlist, the blocklist and their factories, which `src` has as metadata of deployments only, what the scripts depend on: roles at birth, ownership and wiring.
* Event coverage in CI (`scripts/ci`), node helpers, hardhat configuration.
* Events, metadata, upgrades, gas and tests.

## 9. Plan

1. **Next to model.** `setPricer` and two users in a run of the hub with a smaller price book. The rOUSG factory's one transaction, in `RolloutChain`. Role changes in the instant manager, with the definitions of `KYCRegistry`.
2. **Next to prove.**
   * `NoDeadProposal` and `CompleteIsOperational`, for any number of mishaps.
3. **Order.** The additions to the models first, each with the theorems it calls for.

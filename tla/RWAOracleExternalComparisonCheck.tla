----------------- MODULE RWAOracleExternalComparisonCheck -----------------
(***************************************************************************)
(* contracts/rwaOracles/RWAOracleExternalComparisonCheck.sol: a price set  *)
(* by hand, checked against the rounds of a Chainlink feed.  Windows and   *)
(* basis points are constants of any scale; the checks are those of the    *)
(* code.  The setter's role is taken as given.                             *)
(***************************************************************************)
EXTENDS BlockTime, SignedMath

CONSTANTS MIN_PRICE_UPDATE_WINDOW, MAX_CL_WINDOW,
          BPS_DENOMINATOR, MAX_ABSOLUTE_DIFF_BPS, MAX_CHANGE_DIFF_BPS,
          InitialPrice,  \* the price the contract is deployed with
          NewPrices,     \* bound: the prices a setter tries
          Answers,       \* bound: the answers of the feed
          MaxRound       \* bound: the rounds of the feed

ASSUME ComparisonAssumption ==
  /\ MIN_PRICE_UPDATE_WINDOW \in Nat \ {0}
  /\ MAX_CL_WINDOW \in Nat
  /\ BPS_DENOMINATOR \in Nat \ {0}
  /\ MAX_ABSOLUTE_DIFF_BPS \in Nat
  /\ MAX_ABSOLUTE_DIFF_BPS < BPS_DENOMINATOR   \* 200 and 10_000 in the code
  /\ MAX_CHANGE_DIFF_BPS \in Nat
  /\ InitialPrice \in Int
  /\ NewPrices \subseteq Int
  /\ Answers \subseteq Int
  /\ MaxRound \in Nat

VARIABLES rwaPrice, priceTimestamp,
          lastSetRound,   \* the round the price was set with
          feed            \* what latestRoundData answers

priceVars == <<rwaPrice, priceTimestamp, lastSetRound>>
comparisonVars == <<rwaPrice, priceTimestamp, lastSetRound, feed>>

(* startedAt is stored and never read. *)
Round == [roundId : Nat, answer : Int, updatedAt : Nat, answeredInRound : Nat]

(* _getLatestChainlinkRoundData *)
Uncorrupted(round) == /\ round.answer >= 0
                      /\ round.roundId = round.answeredInRound
                      /\ round.roundId # 0
                      /\ round.updatedAt # 0
                      /\ round.updatedAt <= now

Recent(round) == now <= round.updatedAt + MAX_CL_WINDOW

(* A mutant of the next definition: the change relative to the higher.     *)
PriceChangeBpsOfHigher(previous, new) ==
  TruncDiv((new - previous) * BPS_DENOMINATOR, IF new > previous THEN new ELSE previous)

(* _getPriceChangeBps; reverts when the previous price is zero. *)
PriceChangeBps(previous, new) ==
  TruncDiv((new - previous) * BPS_DENOMINATOR, previous)

(* A mutant of the next definition: the threshold is one too high. *)
SaneByOneMore(clBps) == Abs(clBps) <= MAX_ABSOLUTE_DIFF_BPS + MAX_CHANGE_DIFF_BPS + 1

(* A larger change of the feed is deemed a malfunction. *)
Sane(clBps) == Abs(clBps) <= MAX_ABSOLUTE_DIFF_BPS + MAX_CHANGE_DIFF_BPS

(* A mutant of the next definition: the changes are compared by size. *)
DeviationUnsigned(rwaBps, clBps) == Abs(Abs(rwaBps) - Abs(clBps))

Deviation(rwaBps, clBps) == Abs(rwaBps - clBps)

(* A mutant of the next definition: any later block will do. *)
WindowOverNextBlock == now > priceTimestamp

WindowOver == now >= priceTimestamp + MIN_PRICE_UPDATE_WINDOW

(* Both prices divided by are not zero; the change is within its absolute  *)
(* bound and, unless the feed malfunctions, follows the feed's.            *)
ChangeAllowed(newPrice) ==
  /\ rwaPrice # 0
  /\ Abs(PriceChangeBps(rwaPrice, newPrice)) <= MAX_ABSOLUTE_DIFF_BPS
  /\ lastSetRound.answer # 0
  /\ LET rwaBps == PriceChangeBps(rwaPrice, newPrice)
         clBps  == PriceChangeBps(lastSetRound.answer, feed.answer)
     IN  Sane(clBps) => Deviation(rwaBps, clBps) <= MAX_CHANGE_DIFF_BPS

CanSetPrice(newPrice) == /\ newPrice > 0
                         /\ Uncorrupted(feed)
                         /\ Recent(feed)
                         /\ feed.roundId # lastSetRound.roundId
                         /\ WindowOver
                         /\ ChangeAllowed(newPrice)

(* The round is stored whether or not it was ignored. *)
SetPrice(newPrice) == /\ CanSetPrice(newPrice)
                      /\ rwaPrice' = newPrice
                      /\ priceTimestamp' = now
                      /\ lastSetRound' = feed
                      /\ UNCHANGED <<feed, now>>

-----------------------------------------------------------------------------
(* The feed: rounds are numbered upwards; each is either complete, or in   *)
(* one of the states the code calls corrupted.                             *)
NewRound(answer, updatedAt, behind) ==
  [roundId |-> feed.roundId + 1, answer |-> answer,
   updatedAt |-> updatedAt, answeredInRound |-> feed.roundId + 1 - behind]

PublishRound(round) == /\ feed.roundId < MaxRound
                       /\ feed' = round
                       /\ UNCHANGED <<priceVars, now>>

PublishRounds ==
  \E answer \in Answers :
    \/ PublishRound(NewRound(answer, now, 0))
    \/ PublishRound(NewRound(answer, 0, 0))         \* not updated yet
    \/ PublishRound(NewRound(answer, now + 1, 0))   \* ahead of the block
    \/ PublishRound(NewRound(answer, now, 1))       \* carried over

(* The constructor checks the round and not the price. *)
ComparisonInit ==
  /\ feed \in {[roundId |-> 1, answer |-> answer, updatedAt |-> now,
                answeredInRound |-> 1] : answer \in Answers}
  /\ Uncorrupted(feed)
  /\ Recent(feed)
  /\ rwaPrice = InitialPrice
  /\ priceTimestamp = now
  /\ lastSetRound = feed

ComparisonTick == ClockTick /\ UNCHANGED comparisonVars

ComparisonNext == \/ \E newPrice \in NewPrices : SetPrice(newPrice)
                  \/ PublishRounds
                  \/ ComparisonTick

ComparisonSpec ==
  ClockInit /\ ComparisonInit /\ [][ComparisonNext]_<<comparisonVars, now>>

-----------------------------------------------------------------------------

(* Every setPrice moves the price at most MAX_ABSOLUTE_DIFF_BPS, and what  *)
(* truncation adds to it, at most once per MIN_PRICE_UPDATE_WINDOW.        *)
ComparisonBound == INSTANCE BoundedPrice
  WITH Window <- MIN_PRICE_UPDATE_WINDOW, Num <- MAX_ABSOLUTE_DIFF_BPS + 1,
       Den <- BPS_DENOMINATOR, DeployedAt <- DeployTime,
       price <- rwaPrice, stamp <- priceTimestamp

ComparisonImplementsBoundedPrice == ComparisonBound!Spec

(* Between two settings the price follows the feed: cross-multiplied, the  *)
(* relative changes differ by less than MAX_CHANGE_DIFF_BPS and the two    *)
(* basis points that truncation costs, unless the feed itself moved too    *)
(* far to be believed.                                                     *)
FeedFollowed ==
  LET P  == rwaPrice
      C  == lastSetRound.answer
      dP == rwaPrice' - P
      dC == lastSetRound'.answer - C
  IN  \/ Abs(dC) * BPS_DENOMINATOR
           >= (MAX_ABSOLUTE_DIFF_BPS + MAX_CHANGE_DIFF_BPS + 1) * C
      \/ Abs(dP * C - dC * P) * BPS_DENOMINATOR < (MAX_CHANGE_DIFF_BPS + 2) * P * C

FollowsTheFeed == [][priceTimestamp' # priceTimestamp => FeedFollowed]_comparisonVars

(* A fresh round whose window has come can be priced, whatever the feed    *)
(* did: the thresholds leave a price between the absolute bound and the    *)
(* deviation.  A price of at least BPS_DENOMINATOR reaches every basis     *)
(* point, and the last round must not have answered zero.                  *)
Priceable == /\ Uncorrupted(feed)
             /\ Recent(feed)
             /\ feed.roundId # lastSetRound.roundId
             /\ WindowOver
             /\ rwaPrice >= BPS_DENOMINATOR

FreshRoundCanBePriced ==
  Priceable /\ lastSetRound.answer > 0
    => \E newPrice \in 1..(2 * rwaPrice) : CanSetPrice(newPrice)

(* The contract's comment: a change of the feed beyond the threshold "is   *)
(* deemed malfunctioning and ignored".  A round that is ignored would not  *)
(* matter to the settings after it: from a feed that started with a real   *)
(* price, a fresh round could always be priced.                            *)
MalfunctionIsIgnored ==
  Priceable => \E newPrice \in 1..(2 * rwaPrice) : CanSetPrice(newPrice)
=============================================================================

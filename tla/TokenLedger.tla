---------------------------- MODULE TokenLedger ----------------------------
(***************************************************************************)
(* The accounting every token of the system is built from: balances as a   *)
(* function from addresses to amounts, the three ways a balance map may    *)
(* change, and the sum of a balance map.                                   *)
(*                                                                         *)
(* The sum is written without recursion.  A balance of n is n unit coins;  *)
(* the sum of a map is the number of coins in it.  The definition agrees   *)
(* with the recursive one on every map with natural values and lets the    *)
(* finite-set theorems reason about sums for any set of accounts.          *)
(***************************************************************************)
EXTENDS Integers, FiniteSets

CONSTANTS Address,    \* every account: people, contracts and the zero address
          Zero        \* address(0)

ASSUME AddressAssumption == /\ IsFiniteSet(Address)
                            /\ Zero \in Address

(* The unit coins of account a, and of the whole balance map. *)
Coins(bal, a) == {a} \X (1 .. bal[a])
AllCoins(bal) == UNION {Coins(bal, a) : a \in DOMAIN bal}

Total(bal) == Cardinality(AllCoins(bal))

(* The balance writes of _mint and _burn. *)
Issued(bal, to, amt)    == [bal EXCEPT ![to] = @ + amt]
Retired(bal, from, amt) == [bal EXCEPT ![from] = @ - amt]

(* ERC20Upgradeable._transfer: debit, then re-read and credit, so that a   *)
(* transfer to oneself leaves the balance alone.                           *)
Paid(bal, from, to, amt) == Issued(Retired(bal, from, amt), to, amt)

=============================================================================

----------------------------- MODULE ShareVault -----------------------------
(***************************************************************************)
(* What rOUSG promises, without prices, KYC, pauses or allowances: a vault *)
(* that holds a reserve of OUSG and a claim for every account, counted in  *)
(* shares of one MULT-th of an OUSG.  A deposit creates exactly the claims *)
(* it backs, a withdrawal pays out whole OUSG only and leaves the rounding *)
(* in the vault, claims move between accounts without being created.       *)
(***************************************************************************)
EXTENDS TokenLedger

CONSTANTS Mult,       \* shares per unit of the reserve
          Deposits    \* the amounts that are deposited or donated

(* The assumption of the theorems about the vault. *)
VaultAssumption == Mult \in Nat \ {0} /\ Deposits \subseteq Nat

VARIABLES claim,      \* [Address -> Nat]
          claims,     \* the contract's running total of claims
          reserve     \* units of OUSG held

vault == <<claim, claims, reserve>>

VaultTypeOK == /\ claim \in [Address -> Nat]
               /\ claims \in Nat
               /\ reserve \in Nat

VaultInit == /\ claim = [a \in Address |-> 0]
             /\ claims = 0
             /\ reserve = 0

Deposit(a, n) == /\ claim' = Issued(claim, a, n * Mult)
                 /\ claims' = claims + n * Mult
                 /\ reserve' = reserve + n

(* The reserve pays the whole units among the k shares given up. *)
Withdraw(a, k) == /\ k \in Mult .. claim[a]
                  /\ claim' = Retired(claim, a, k)
                  /\ claims' = claims - k
                  /\ reserve' = reserve - k \div Mult

Reassign(a, b, k) == /\ k \in 0 .. claim[a]
                     /\ claim' = Paid(claim, a, b, k)
                     /\ UNCHANGED <<claims, reserve>>

(* OUSG sent to the vault outside wrap backs nobody's claim. *)
Donate(n) == /\ reserve' = reserve + n
             /\ UNCHANGED <<claim, claims>>

VaultNext == \/ \E a \in Address, n \in Deposits : Deposit(a, n) \/ Donate(n)
             \/ \E a \in Address : \E k \in Mult .. claim[a] : Withdraw(a, k)
             \/ \E a, b \in Address : \E k \in 0 .. claim[a] : Reassign(a, b, k)

VaultSpec == VaultInit /\ [][VaultNext]_vault

-----------------------------------------------------------------------------
(* The running total is the sum of the claims. *)
ClaimsAreSum == Total(claim) = claims

(* Every share is backed: all claims together are worth no more than the   *)
(* reserve.                                                                *)
ClaimsBacked == claims <= reserve * Mult

=============================================================================

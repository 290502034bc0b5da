---------------------------- MODULE LedgerLemmas ----------------------------
(***************************************************************************)
(* What the operators of TokenLedger do to the sum of a balance map, for   *)
(* any finite set of accounts.  Every sum property of the tokens rests on  *)
(* these lemmas.                                                           *)
(***************************************************************************)
EXTENDS TokenLedger, FiniteSetTheorems, WellFoundedInduction, TLAPS

(* A map of balances has finitely many coins, so its sum is a natural      *)
(* number.                                                                 *)
LEMMA TotalOver ==
  ASSUME NEW S, IsFiniteSet(S), NEW bal \in [S -> Nat]
  PROVE  IsFiniteSet(AllCoins(bal)) /\ Total(bal) \in Nat
<1> DEFINE piles == {Coins(bal, a) : a \in S}
           pile  == [a \in S |-> Coins(bal, a)]
<1>1. pile \in Surjection(S, piles)
  BY DEF Surjection
<1>2. IsFiniteSet(piles)
  <2> HIDE DEF pile, piles
  <2> QED  BY <1>1, FS_Surjection
<1>3. \A p \in piles : IsFiniteSet(p)
  <2> SUFFICES ASSUME NEW a \in S
               PROVE  IsFiniteSet(Coins(bal, a))
    OBVIOUS
  <2>1. bal[a] \in Int /\ 1 \in Int
    OBVIOUS
  <2>2. IsFiniteSet(1 .. bal[a])
    BY <2>1, FS_Interval
  <2>3. IsFiniteSet({a})
    BY FS_Singleton
  <2> QED  BY <2>2, <2>3, FS_Product DEF Coins
<1>4. AllCoins(bal) = UNION piles
  BY DEF AllCoins
<1>5. IsFiniteSet(AllCoins(bal))
  <2> HIDE DEF piles
  <2> QED  BY <1>2, <1>3, <1>4, FS_UNION
<1> QED  BY <1>5, FS_CardinalityType DEF Total

(* The coins of a ledger, as a subset of all coins there could be. *)
LEMMA CoinsOver ==
  ASSUME NEW S, IsFiniteSet(S), NEW bal \in [S -> Nat]
  PROVE  AllCoins(bal) = {coin \in S \X (Nat \ {0}) : coin[2] <= bal[coin[1]]}
<1>1. ASSUME NEW coin \in AllCoins(bal)
      PROVE  coin \in S \X (Nat \ {0}) /\ coin[2] <= bal[coin[1]]
  BY DEF AllCoins, Coins
<1>2. ASSUME NEW coin \in S \X (Nat \ {0}), coin[2] <= bal[coin[1]]
      PROVE  coin \in AllCoins(bal)
  <2>1. coin \in Coins(bal, coin[1])
    BY <1>2 DEF Coins
  <2> QED  BY <2>1 DEF AllCoins
<1> QED  BY <1>1, <1>2

(* What is added to one balance is added to the sum. *)
LEMMA TotalOverIssued ==
  ASSUME NEW S, IsFiniteSet(S), NEW bal \in [S -> Nat], NEW to \in S, NEW amt \in Nat
  PROVE  /\ Issued(bal, to, amt) \in [S -> Nat]
         /\ Total(Issued(bal, to, amt)) = Total(bal) + amt
<1> DEFINE after == Issued(bal, to, amt)
           fresh == {to} \X (bal[to] + 1 .. bal[to] + amt)
<1>1. after \in [S -> Nat]
  BY DEF Issued
<1>2. AllCoins(after) = AllCoins(bal) \cup fresh
  <2>1. AllCoins(after) = {coin \in S \X (Nat \ {0}) : coin[2] <= after[coin[1]]}
    <3> HIDE DEF after
    <3> QED  BY <1>1, CoinsOver
  <2>2. AllCoins(bal) = {coin \in S \X (Nat \ {0}) : coin[2] <= bal[coin[1]]}
    BY CoinsOver
  <2>3. fresh = {coin \in S \X (Nat \ {0}) :
                   coin[1] = to /\ bal[to] < coin[2] /\ coin[2] <= bal[to] + amt}
    OBVIOUS
  <2>4. \A a \in S : after[a] = IF a = to THEN bal[a] + amt ELSE bal[a]
    BY DEF Issued
  <2>5. ASSUME NEW coin \in S \X (Nat \ {0})
        PROVE  coin \in AllCoins(after) <=> coin \in AllCoins(bal) \cup fresh
    <3> HIDE DEF after, fresh
    <3>1. coin[1] \in S /\ coin[2] \in Nat
      OBVIOUS
    <3>2. CASE coin[1] = to
      BY <2>1, <2>2, <2>3, <2>4, <3>1, <3>2
    <3>3. CASE coin[1] # to
      BY <2>1, <2>2, <2>3, <2>4, <3>1, <3>3
    <3> QED  BY <3>2, <3>3
  <2> HIDE DEF after, fresh
  <2> QED  BY <2>1, <2>2, <2>3, <2>5
<1>3. AllCoins(bal) \cap fresh = {}
  BY CoinsOver
<1>4. IsFiniteSet(fresh) /\ Cardinality(fresh) = amt
  <2> DEFINE lo == bal[to] + 1
             hi == bal[to] + amt
  <2>1. lo \in Int /\ hi \in Int
    OBVIOUS
  <2>2. IsFiniteSet(lo .. hi) /\ Cardinality(lo .. hi) = IF lo > hi THEN 0 ELSE hi - lo + 1
    <3> HIDE DEF lo, hi
    <3> QED  BY <2>1, FS_Interval
  <2>3. Cardinality(lo .. hi) = amt
    BY <2>2
  <2>4. IsFiniteSet({to}) /\ Cardinality({to}) = 1
    BY FS_Singleton
  <2>5. IsFiniteSet(fresh) /\ Cardinality(fresh) = Cardinality({to}) * Cardinality(lo .. hi)
    <3> HIDE DEF lo, hi
    <3>1. IsFiniteSet({to} \X (lo .. hi))
          /\ Cardinality({to} \X (lo .. hi)) = Cardinality({to}) * Cardinality(lo .. hi)
      BY <2>2, <2>4, FS_Product
    <3> QED  BY <3>1 DEF lo, hi
  <2> QED  BY <2>3, <2>4, <2>5
<1>5. IsFiniteSet(AllCoins(bal)) /\ Total(bal) \in Nat
  BY TotalOver
<1>6. Cardinality(AllCoins(bal) \cup fresh)
        = Cardinality(AllCoins(bal)) + Cardinality(fresh) - Cardinality(AllCoins(bal) \cap fresh)
  <2> HIDE DEF fresh
  <2> QED  BY <1>4, <1>5, FS_Union
<1>7. Cardinality(AllCoins(bal) \cap fresh) = 0
  BY <1>3, FS_EmptySet
<1>8. Total(after) = Total(bal) + amt
  <2> HIDE DEF fresh, after
  <2> QED  BY <1>2, <1>4, <1>5, <1>6, <1>7 DEF Total
<1> QED  BY <1>1, <1>8

(* What one balance is set to replaces in the sum what it was.             *)
PutAt(bal, x, amt) == [bal EXCEPT ![x] = amt]

LEMMA TotalOverPut ==
  ASSUME NEW S, IsFiniteSet(S), NEW bal \in [S -> Nat], NEW x \in S, NEW amt \in Nat
  PROVE  Total(PutAt(bal, x, amt)) = Total(bal) - bal[x] + amt
<1> DEFINE rest == [bal EXCEPT ![x] = 0]
           put  == [bal EXCEPT ![x] = amt]
           old  == bal[x]
<1>1. rest \in [S -> Nat] /\ put \in [S -> Nat] /\ old \in Nat
  OBVIOUS
<1>2. Issued(rest, x, amt) = put /\ Issued(rest, x, old) = bal
  <2>1. Issued(rest, x, amt) = [rest EXCEPT ![x] = 0 + amt]
        /\ Issued(rest, x, old) = [rest EXCEPT ![x] = 0 + old]
    BY <1>1 DEF Issued
  <2>2. 0 + amt = amt /\ 0 + old = old
    BY <1>1
  <2> QED  BY <2>1, <2>2
<1> HIDE DEF rest, put, old
<1>3. Total(put) = Total(rest) + amt /\ Total(bal) = Total(rest) + old /\ Total(rest) \in Nat
  BY <1>1, <1>2, TotalOverIssued, TotalOver
<1>4. Total(put) = Total(bal) - old + amt
  BY <1>1, <1>3
<1> QED  BY <1>4 DEF put, old, PutAt

(* In particular over all accounts: the sum is a natural number, and _mint *)
(* adds what it issues to it.                                              *)
LEMMA TotalType ==
  ASSUME NEW bal \in [Address -> Nat]
  PROVE  IsFiniteSet(AllCoins(bal)) /\ Total(bal) \in Nat
BY AddressAssumption, TotalOver

LEMMA TotalIssued ==
  ASSUME NEW bal \in [Address -> Nat], NEW to \in Address, NEW amt \in Nat
  PROVE  /\ Issued(bal, to, amt) \in [Address -> Nat]
         /\ Total(Issued(bal, to, amt)) = Total(bal) + amt
<1>1. IsFiniteSet(Address)
  BY AddressAssumption
<1> QED  BY <1>1, TotalOverIssued

(* The sum of the empty ledger. *)
LEMMA TotalZero == Total([a \in Address |-> 0]) = 0
<1> DEFINE none == [a \in Address |-> 0]
<1>1. AllCoins(none) = {}
  BY DEF AllCoins, Coins
<1> QED  BY <1>1, FS_EmptySet DEF Total

(* _burn takes what it retires from the sum, which is no less than any one *)
(* balance.                                                                *)
LEMMA TotalRetired ==
  ASSUME NEW bal \in [Address -> Nat], NEW from \in Address, NEW amt \in 0 .. bal[from]
  PROVE  /\ Retired(bal, from, amt) \in [Address -> Nat]
         /\ Total(Retired(bal, from, amt)) = Total(bal) - amt
<1> DEFINE left == Retired(bal, from, amt)
<1>1. left \in [Address -> Nat]
  BY DEF Retired
<1>2. amt \in Nat /\ Issued(left, from, amt) = bal
  <2>1. Issued(left, from, amt) \in [Address -> Int]
    BY DEF Retired, Issued
  <2>2. \A a \in Address : Issued(left, from, amt)[a] = bal[a]
    BY DEF Retired, Issued
  <2> HIDE DEF left
  <2> QED  BY <2>1, <2>2
<1>3. Total(left) \in Nat
  <2> HIDE DEF left
  <2> QED  BY <1>1, TotalType
<1>4. Total(Issued(left, from, amt)) = Total(left) + amt
  <2> HIDE DEF left
  <2> QED  BY <1>1, <1>2, TotalIssued
<1> QED  BY <1>1, <1>2, <1>3, <1>4

LEMMA TotalCoversOne ==
  ASSUME NEW bal \in [Address -> Nat], NEW a \in Address
  PROVE  bal[a] <= Total(bal)
<1> DEFINE left == Retired(bal, a, bal[a])
<1>1. left \in [Address -> Nat] /\ Total(left) = Total(bal) - bal[a]
  BY TotalRetired
<1> HIDE DEF left
<1>2. Total(left) \in Nat /\ Total(bal) \in Nat
  BY <1>1, TotalType
<1> QED  BY <1>1, <1>2

(* _transfer leaves the sum alone, also from an account to itself: the     *)
(* credit is added to the balance that the debit left.                     *)
LEMMA TotalPaid ==
  ASSUME NEW bal \in [Address -> Nat], NEW from \in Address, NEW to \in Address,
         NEW amt \in 0 .. bal[from]
  PROVE  /\ Paid(bal, from, to, amt) \in [Address -> Nat]
         /\ Total(Paid(bal, from, to, amt)) = Total(bal)
<1> DEFINE left == Retired(bal, from, amt)
<1>1. left \in [Address -> Nat] /\ Total(left) = Total(bal) - amt
  BY TotalRetired
<1>2. amt \in Nat /\ Paid(bal, from, to, amt) = Issued(left, to, amt)
  BY DEF Paid
<1>3. Total(bal) \in Nat
  BY TotalType
<1>4. Issued(left, to, amt) \in [Address -> Nat] /\ Total(Issued(left, to, amt)) = Total(left) + amt
  <2> HIDE DEF left
  <2> QED  BY <1>1, <1>2, TotalIssued
<1> QED  BY <1>1, <1>2, <1>3, <1>4

(* Who loses and who gains by a _transfer. *)
LEMMA PaidMoves ==
  ASSUME NEW bal \in [Address -> Nat], NEW from \in Address, NEW to \in Address,
         NEW amt \in 0 .. bal[from]
  PROVE  /\ Paid(bal, from, to, amt)[from] >= bal[from] - amt
         /\ \A a \in Address \ {to} : Paid(bal, from, to, amt)[a] <= bal[a]
         /\ \A a \in Address \ {from} : Paid(bal, from, to, amt)[a] >= bal[a]
BY DEF Paid, Issued, Retired

(* A family of sets that holds the empty set, and with a part of a finite  *)
(* set that part and one more element, holds the whole set.                *)
LEMMA SubsetInduction ==
  ASSUME NEW S, IsFiniteSet(S), NEW T, {} \in T,
         \A R \in SUBSET S : \A x \in S \ R : R \in T => R \cup {x} \in T
  PROVE  S \in T
<1> DEFINE order == StrictSubsetOrdering(S)
           parts == FiniteSubsetsOf(S)
           rest  == {R \in parts : R \notin T}
<1>1. IsWellFoundedOn(order, parts)
  BY FS_StrictSubsetOrderingWellFounded
<1>2. \A R \in parts : R \subseteq S /\ IsFiniteSet(R)
  BY DEF FiniteSubsetsOf
<1>3. S \in parts
  BY DEF FiniteSubsetsOf
<1>4. ASSUME NEW R \in rest, NEW x \in R
      PROVE  R \ {x} \in rest /\ <<R \ {x}, R>> \in order
  <2>1. R \ {x} \in parts /\ R \ {x} \in SUBSET S /\ x \in S \ (R \ {x})
    BY <1>2, FS_RemoveElement DEF FiniteSubsetsOf
  <2>2. (R \ {x}) \cup {x} = R
    OBVIOUS
  <2>3. R \ {x} \notin T
    BY <2>1, <2>2
  <2>4. <<R \ {x}, R>> \in order
    BY <1>2, <2>1 DEF StrictSubsetOrdering
  <2> QED  BY <2>1, <2>3, <2>4
<1> HIDE DEF order, parts
<1>5. rest # {} => \E R \in rest : \A Q \in rest : <<Q, R>> \notin order
  <2>1. rest \subseteq parts
    OBVIOUS
  <2> HIDE DEF rest
  <2> QED  BY <1>1, <2>1, WFMin
<1>6. {} \notin rest
  OBVIOUS
<1>7. rest = {}
  <2> HIDE DEF rest
  <2> QED  BY <1>4, <1>5, <1>6
<1> QED  BY <1>3, <1>7

-----------------------------------------------------------------------------
(* What the accounts of a set hold together. *)
Within(bal, S) == Total([a \in S |-> bal[a]])

LEMMA WithinType ==
  ASSUME NEW bal \in [Address -> Nat], NEW S \in SUBSET Address
  PROVE  IsFiniteSet(S) /\ Within(bal, S) \in Nat
<1>1. IsFiniteSet(S)
  BY AddressAssumption, FS_Subset
<1> DEFINE part == [a \in S |-> bal[a]]
<1>2. part \in [S -> Nat]
  OBVIOUS
<1> HIDE DEF part
<1>3. Total(part) \in Nat
  BY <1>1, <1>2, TotalOver
<1> QED  BY <1>1, <1>3 DEF Within, part

LEMMA WithinNobody ==
  ASSUME NEW bal
  PROVE  Within(bal, {}) = 0
<1>1. AllCoins([a \in {} |-> bal[a]]) = {}
  BY DEF AllCoins
<1> QED  BY <1>1, FS_EmptySet DEF Within, Total

LEMMA WithinAll ==
  ASSUME NEW bal \in [Address -> Nat]
  PROVE  Within(bal, Address) = Total(bal)
<1>1. [a \in Address |-> bal[a]] = bal
  OBVIOUS
<1> QED  BY <1>1 DEF Within

(* One account more. *)
LEMMA WithinOneMore ==
  ASSUME NEW bal \in [Address -> Nat], NEW S \in SUBSET Address, NEW x \in Address \ S
  PROVE  Within(bal, S \cup {x}) = Within(bal, S) + bal[x]
<1> DEFINE more   == S \cup {x}
           part   == [a \in S |-> bal[a]]
           before == [a \in more |-> IF a = x THEN 0 ELSE bal[a]]
           after  == [a \in more |-> bal[a]]
<1>1. part \in [S -> Nat] /\ before \in [more -> Nat] /\ bal[x] \in Nat /\ x \in more
  OBVIOUS
<1>2. IsFiniteSet(S) /\ IsFiniteSet(more)
  <2>1. more \in SUBSET Address
    OBVIOUS
  <2> HIDE DEF more
  <2> QED  BY <2>1, WithinType
<1>3. AllCoins(before) = AllCoins(part)
  <2>1. \A a \in S : before[a] = part[a]
    OBVIOUS
  <2>2. before[x] = 0
    OBVIOUS
  <2>3. AllCoins(before) = {coin \in more \X (Nat \ {0}) : coin[2] <= before[coin[1]]}
    <3> HIDE DEF before, more
    <3> QED  BY <1>1, <1>2, CoinsOver
  <2>4. AllCoins(part) = {coin \in S \X (Nat \ {0}) : coin[2] <= part[coin[1]]}
    <3> HIDE DEF part
    <3> QED  BY <1>1, <1>2, CoinsOver
  <2>5. \A a \in more : a \in S \/ a = x
    OBVIOUS
  <2>6. S \subseteq more
    OBVIOUS
  <2> HIDE DEF before, part, more
  <2>7. ASSUME NEW coin \in more \X (Nat \ {0})
        PROVE  coin[2] <= before[coin[1]] <=> coin[1] \in S /\ coin[2] <= part[coin[1]]
    <3>1. coin[1] \in more /\ coin[2] \in Nat \ {0}
      OBVIOUS
    <3>2. CASE coin[1] \in S
      BY <2>1, <3>1, <3>2
    <3>3. CASE coin[1] \notin S
      BY <2>2, <2>5, <3>1, <3>3
    <3> QED  BY <3>2, <3>3
  <2> QED  BY <2>3, <2>4, <2>6, <2>7
<1>4. PutAt(before, x, bal[x]) = after /\ before[x] = 0
  BY DEF PutAt
<1> HIDE DEF before, after, part, more
<1>5. Total(after) = Total(before) - before[x] + bal[x] /\ Total(before) \in Nat
  BY <1>1, <1>2, <1>4, TotalOverPut, TotalOver
<1>6. Total(before) = Total(part)
  BY <1>3 DEF Total
<1>7. Total(after) = Total(part) + bal[x]
  BY <1>1, <1>4, <1>5, <1>6
<1> QED  BY <1>7 DEF Within, after, part, more

(* One balance set anew, and a _transfer, seen from a set of accounts.     *)
LEMMA WithinPut ==
  ASSUME NEW bal \in [Address -> Nat], NEW S \in SUBSET Address,
         NEW a \in Address, NEW amt \in Nat
  PROVE  Within(PutAt(bal, a, amt), S)
           = IF a \in S THEN Within(bal, S) - bal[a] + amt ELSE Within(bal, S)
<1> DEFINE before == [x \in S |-> bal[x]]
           after  == [x \in S |-> PutAt(bal, a, amt)[x]]
<1>1. before \in [S -> Nat] /\ (a \in S => before[a] = bal[a]) /\ IsFiniteSet(S)
  BY WithinType
<1>2. Within(bal, S) = Total(before) /\ Within(PutAt(bal, a, amt), S) = Total(after)
  BY DEF Within
<1>3. CASE a \in S
  <2>1. after = PutAt(before, a, amt)
    BY <1>3 DEF PutAt
  <2> HIDE DEF before, after
  <2>2. Total(PutAt(before, a, amt)) = Total(before) - before[a] + amt
    BY <1>1, <1>3, TotalOverPut
  <2> QED  BY <1>1, <1>2, <1>3, <2>1, <2>2
<1>4. CASE a \notin S
  <2>1. after = before
    BY <1>4 DEF PutAt
  <2> HIDE DEF before, after
  <2> QED  BY <1>2, <1>4, <2>1
<1> QED  BY <1>3, <1>4

LEMMA WithinPaid ==
  ASSUME NEW bal \in [Address -> Nat], NEW S \in SUBSET Address,
         NEW from \in Address, NEW to \in Address, NEW amt \in 0 .. bal[from]
  PROVE  Within(Paid(bal, from, to, amt), S)
           = Within(bal, S) - (IF from \in S THEN amt ELSE 0) + (IF to \in S THEN amt ELSE 0)
<1> DEFINE less == bal[from] - amt
           left == PutAt(bal, from, less)
           more == left[to] + amt
           end  == PutAt(left, to, more)
<1>1. amt \in Nat /\ less \in Nat /\ bal[from] \in Nat /\ less = bal[from] - amt
  OBVIOUS
<1>2. Paid(bal, from, to, amt) = end
  BY DEF Paid, Issued, Retired, PutAt
<1> HIDE DEF less
<1>3. left \in [Address -> Nat]
  BY <1>1 DEF PutAt
<1>4. Within(left, S) = IF from \in S THEN Within(bal, S) - bal[from] + less ELSE Within(bal, S)
  BY <1>1, WithinPut
<1> HIDE DEF left
<1>5. more \in Nat /\ left[to] \in Nat /\ more = left[to] + amt
  BY <1>1, <1>3
<1> HIDE DEF more
<1>6. Within(end, S) = IF to \in S THEN Within(left, S) - left[to] + more ELSE Within(left, S)
  BY <1>3, <1>5, WithinPut
<1> HIDE DEF end
<1>7. Within(bal, S) \in Nat /\ Within(left, S) \in Nat
  BY <1>3, WithinType
<1>8. Within(left, S) = Within(bal, S) - (IF from \in S THEN amt ELSE 0)
  BY <1>1, <1>4, <1>7
<1>9. Within(end, S) = Within(left, S) + (IF to \in S THEN amt ELSE 0)
  BY <1>5, <1>6, <1>7
<1> QED  BY <1>2, <1>8, <1>9

LEMMA WithinIssued ==
  ASSUME NEW bal \in [Address -> Nat], NEW S \in SUBSET Address, NEW to \in Address, NEW amt \in Nat
  PROVE  Within(Issued(bal, to, amt), S) = Within(bal, S) + (IF to \in S THEN amt ELSE 0)
<1> DEFINE more == bal[to] + amt
<1>1. more \in Nat /\ bal[to] \in Nat /\ more = bal[to] + amt
  OBVIOUS
<1>2. Issued(bal, to, amt) = PutAt(bal, to, more)
  BY DEF Issued, PutAt
<1> HIDE DEF more
<1>3. Within(PutAt(bal, to, more), S)
        = IF to \in S THEN Within(bal, S) - bal[to] + more ELSE Within(bal, S)
  BY <1>1, WithinPut
<1>4. Within(bal, S) \in Nat
  BY WithinType
<1> QED  BY <1>1, <1>2, <1>3, <1>4

LEMMA WithinOne ==
  ASSUME NEW bal \in [Address -> Nat], NEW a \in Address
  PROVE  Within(bal, {a}) = bal[a]
<1>1. Within(bal, {} \cup {a}) = Within(bal, {}) + bal[a]
  BY WithinOneMore
<1>2. {} \cup {a} = {a} /\ Within(bal, {}) = 0 /\ bal[a] \in Nat
  BY WithinNobody
<1> QED  BY <1>1, <1>2

(* Two payments out of one account. *)
LEMMA TwoPayments ==
  ASSUME NEW bal \in [Address -> Nat], NEW S \in SUBSET Address,
         NEW from \in Address, NEW first \in Address, NEW second \in Address,
         NEW x \in 0 .. bal[from], NEW y \in 0 .. Paid(bal, from, first, x)[from]
  PROVE  /\ Paid(Paid(bal, from, first, x), from, second, y) \in [Address -> Nat]
         /\ Within(Paid(Paid(bal, from, first, x), from, second, y), S)
              = Within(bal, S) - (IF from \in S THEN x + y ELSE 0)
                  + (IF first \in S THEN x ELSE 0) + (IF second \in S THEN y ELSE 0)
<1> DEFINE mid == Paid(bal, from, first, x)
           end == Paid(mid, from, second, y)
<1>1. mid \in [Address -> Nat]
  BY TotalPaid
<1>2. Within(mid, S) = Within(bal, S) - (IF from \in S THEN x ELSE 0)
                                      + (IF first \in S THEN x ELSE 0)
  BY WithinPaid
<1>3. y \in 0 .. mid[from]
  OBVIOUS
<1> HIDE DEF mid
<1>4. end \in [Address -> Nat]
  BY <1>1, <1>3, TotalPaid
<1>5. Within(end, S) = Within(mid, S) - (IF from \in S THEN y ELSE 0)
                                      + (IF second \in S THEN y ELSE 0)
  BY <1>1, <1>3, WithinPaid
<1>6. Within(bal, S) \in Nat /\ x \in Nat /\ y \in Nat
  BY <1>1, <1>3, WithinType
<1> HIDE DEF end
<1>7. Within(end, S) = Within(bal, S) - (IF from \in S THEN x + y ELSE 0)
                       + (IF first \in S THEN x ELSE 0) + (IF second \in S THEN y ELSE 0)
  BY <1>2, <1>5, <1>6
<1> QED  BY <1>4, <1>7 DEF end, mid

(* Two changes of one ledger in one transaction that come to one: what is  *)
(* issued to an account that passes it on, and what an account takes and   *)
(* burns.                                                                  *)
LEMMA IssuedPaidOn ==
  ASSUME NEW bal \in [Address -> Nat], NEW to \in Address, NEW next \in Address, to # next,
         NEW amt \in Nat
  PROVE  Paid(Issued(bal, to, amt), to, next, amt) = Issued(bal, next, amt)
<1> DEFINE one == Paid(Issued(bal, to, amt), to, next, amt)
           two == Issued(bal, next, amt)
<1>1. one = [a \in Address |-> one[a]] /\ two = [a \in Address |-> two[a]]
  BY DEF Paid, Issued, Retired
<1>2. \A a \in Address : bal[a] \in Nat /\ one[a] = two[a]
  BY DEF Paid, Issued, Retired
<1> HIDE DEF one, two
<1>3. one = two
  BY <1>1, <1>2
<1> QED  BY <1>3 DEF one, two

LEMMA PaidThenRetired ==
  ASSUME NEW bal \in [Address -> Nat], NEW from \in Address, NEW to \in Address, from # to,
         NEW amt \in Nat
  PROVE  Retired(Paid(bal, from, to, amt), to, amt) = Retired(bal, from, amt)
<1> DEFINE one == Retired(Paid(bal, from, to, amt), to, amt)
           two == Retired(bal, from, amt)
<1>1. one = [a \in Address |-> one[a]] /\ two = [a \in Address |-> two[a]]
  BY DEF Paid, Issued, Retired
<1>2. \A a \in Address : bal[a] \in Nat /\ one[a] = two[a]
  BY DEF Paid, Issued, Retired
<1> HIDE DEF one, two
<1>3. one = two
  BY <1>1, <1>2
<1> QED  BY <1>3 DEF one, two

(* What an account receives and passes on in part. *)
LEMMA IssuedPaidInPart ==
  ASSUME NEW bal \in [Address -> Nat], NEW to \in Address, NEW next \in Address, to # next,
         NEW amt \in Nat, NEW part \in 0 .. amt
  PROVE  LET end == Paid(Issued(bal, to, amt), to, next, part)
         IN  /\ end \in [Address -> Nat]
             /\ Total(end) = Total(bal) + amt
             /\ end[to] = bal[to] + (amt - part)
             /\ end[next] = bal[next] + part
             /\ \A a \in Address \ {to, next} : end[a] = bal[a]
<1> DEFINE mid == Issued(bal, to, amt)
           end == Paid(mid, to, next, part)
<1>1. mid \in [Address -> Nat] /\ Total(mid) = Total(bal) + amt
  BY TotalIssued
<1>2. mid[to] = bal[to] + amt /\ \A a \in Address \ {to} : mid[a] = bal[a]
  BY DEF Issued
<1>3. bal[to] \in Nat /\ part \in Nat /\ part <= amt
  OBVIOUS
<1> HIDE DEF mid
<1>4. part \in 0 .. mid[to]
  BY <1>2, <1>3
<1>5. end \in [Address -> Nat] /\ Total(end) = Total(mid)
  BY <1>1, <1>4, TotalPaid
<1>6. /\ end[to] = mid[to] - part /\ end[next] = mid[next] + part
      /\ \A a \in Address \ {to, next} : end[a] = mid[a]
  BY <1>1 DEF Paid, Issued, Retired
<1> HIDE DEF end
<1>7. end[to] = bal[to] + (amt - part) /\ end[next] = bal[next] + part
      /\ \A a \in Address \ {to, next} : end[a] = bal[a]
  BY <1>2, <1>3, <1>6
<1> QED  BY <1>1, <1>5, <1>7 DEF end, mid

-----------------------------------------------------------------------------
(* The arithmetic of a reserve: c claims on r units of m claims each.      *)

(* Rounding down, for any divisor. *)
LEMMA RoundsDown ==
  ASSUME NEW k \in Nat, NEW m \in Nat \ {0}
  PROVE  k \div m \in Nat /\ (k \div m) * m <= k
OBVIOUS

(* New claims come with what backs them. *)
LEMMA DepositStaysBacked ==
  ASSUME NEW c \in Nat, NEW r \in Nat, NEW m \in Nat \ {0}, NEW n \in Nat, c <= r * m
  PROVE  c + n * m <= (r + n) * m /\ c <= (r + n) * m
<1>1. (r + n) * m = r * m + n * m /\ n * m \in Nat /\ r * m \in Nat
  OBVIOUS
<1> QED  BY <1>1

(* Paying the whole units of k claims leaves the rest backed. *)
LEMMA WithdrawalStaysBacked ==
  ASSUME NEW c \in Nat, NEW r \in Nat, NEW m \in Nat \ {0}, NEW k \in 0 .. c, c <= r * m
  PROVE  k \div m <= r /\ c - k <= (r - k \div m) * m
<1> DEFINE out == k \div m
<1>1. out \in Nat /\ out * m <= k
  BY RoundsDown
<1> HIDE DEF out
<1>2. (r - out) * m = r * m - out * m /\ (r + 1) * m = r * m + m
  BY <1>1
<1>3. out <= r
  <2> SUFFICES ASSUME out >= r + 1 PROVE FALSE
    BY <1>1
  <2>1. out * m >= (r + 1) * m
    BY <1>1
  <2> QED  BY <1>1, <1>2, <2>1
<1>4. r * m \in Nat /\ out * m \in Nat
  BY <1>1
<1>5. c - k <= (r - out) * m
  BY <1>1, <1>2, <1>4
<1> QED  BY <1>3, <1>5 DEF out

(* Rounding down loses less than the divisor. *)
LEMMA RoundsDownLess ==
  ASSUME NEW k \in Nat, NEW m \in Nat \ {0}
  PROVE  k < (k \div m) * m + m
OBVIOUS

(* What fits is found: rounding down finds the largest number that does.   *)
LEMMA RoundsDownMost ==
  ASSUME NEW k \in Nat, NEW m \in Nat \ {0}, NEW s \in Nat, k <= s * m
  PROVE  k \div m <= s
<1> DEFINE q == k \div m
<1>1. q \in Nat /\ q * m <= k
  BY RoundsDown
<1> HIDE DEF q
<1>2. s * m \in Nat /\ q * m \in Nat /\ (s + 1) * m = s * m + m
  BY <1>1
<1>3. q <= s
  <2> SUFFICES ASSUME q >= s + 1 PROVE FALSE
    BY <1>1
  <2>1. q * m >= (s + 1) * m
    BY <1>1
  <2> QED  BY <1>1, <1>2, <2>1
<1> QED  BY <1>3 DEF q

(* Claims shown at a price and turned back into claims: none are created,  *)
(* and those that are lost are worth less than a unit shown and one claim. *)
LEMMA RoundTrip ==
  ASSUME NEW s \in Nat, NEW p \in Nat \ {0}, NEW k \in Nat \ {0}
  PROVE  LET n == (((s * p) \div k) * k) \div p
         IN  n \in Nat /\ n <= s /\ (s - n) * p < k + p
<1> DEFINE x == s * p
           r == x \div k
           y == r * k
           n == y \div p
<1>1. x \in Nat
  OBVIOUS
<1> HIDE DEF x
<1>2. r \in Nat /\ r * k <= x /\ x < r * k + k
  BY <1>1, RoundsDown, RoundsDownLess
<1> HIDE DEF r
<1>3. y \in Nat /\ y <= x /\ x < y + k
  BY <1>2
<1> HIDE DEF y
<1>4. n \in Nat /\ n * p <= y /\ y < n * p + p
  BY <1>3, RoundsDown, RoundsDownLess
<1>5. n <= s
  <2> HIDE DEF n
  <2>1. y <= s * p
    BY <1>3 DEF x
  <2> QED  BY <1>3, <2>1, RoundsDownMost DEF n
<1> HIDE DEF n
<1>6. (s - n) * p = x - n * p /\ n * p \in Nat
  BY <1>4 DEF x
<1>7. (s - n) * p < k + p
  BY <1>1, <1>3, <1>4, <1>6
<1> QED  BY <1>4, <1>5, <1>7 DEF n, y, r, x

-----------------------------------------------------------------------------
(* Every balance shown at a price, p for k of it, and their sum.           *)
Shown(bal, p, k) == [a \in Address |-> (bal[a] * p) \div k]

Holders(bal, S) == {a \in S : bal[a] > 0}

(* One balance shown: nothing is added, and a holder loses less than k.    *)
LEMMA ShownOne ==
  ASSUME NEW b \in Nat, NEW p \in Nat, NEW k \in Nat \ {0}
  PROVE  /\ (b * p) \div k \in Nat
         /\ ((b * p) \div k) * k <= b * p
         /\ b * p <= ((b * p) \div k) * k + (IF b > 0 THEN k - 1 ELSE 0)
<1> DEFINE x == b * p
<1>1. x \in Nat /\ (b = 0 => x = 0)
  OBVIOUS
<1> HIDE DEF x
<1>2. x \div k \in Nat /\ (x \div k) * k <= x /\ x < (x \div k) * k + k
  BY <1>1, RoundsDown, RoundsDownLess
<1> DEFINE y == (x \div k) * k
<1>3. y \in Nat /\ y <= x /\ x < y + k
  BY <1>2
<1> HIDE DEF y
<1>4. x <= y + (IF b > 0 THEN k - 1 ELSE 0)
  BY <1>1, <1>3
<1> QED  BY <1>2, <1>4 DEF y, x

LEMMA HoldersOneMore ==
  ASSUME NEW bal \in [Address -> Nat], NEW S \in SUBSET Address, NEW x \in Address \ S
  PROVE  /\ Cardinality(Holders(bal, S)) \in Nat
         /\ Cardinality(Holders(bal, S \cup {x}))
              = Cardinality(Holders(bal, S)) + (IF bal[x] > 0 THEN 1 ELSE 0)
<1> DEFINE h == Holders(bal, S)
<1>1. IsFiniteSet(h) /\ x \notin h
  <2>1. h \in SUBSET S /\ x \notin h
    BY DEF Holders
  <2> HIDE DEF h
  <2> QED  BY <2>1, WithinType, FS_Subset
<1>2. bal[x] > 0 => Holders(bal, S \cup {x}) = h \cup {x}
  BY DEF Holders
<1>3. ~ (bal[x] > 0) => Holders(bal, S \cup {x}) = h
  BY DEF Holders
<1> HIDE DEF h
<1>4. Cardinality(h) \in Nat
  BY <1>1, FS_CardinalityType
<1>5. Cardinality(h \cup {x}) = Cardinality(h) + 1
  BY <1>1, FS_AddElement
<1> QED  BY <1>2, <1>3, <1>4, <1>5 DEF h

LEMMA ShownType ==
  ASSUME NEW bal \in [Address -> Nat], NEW p \in Nat, NEW k \in Nat \ {0}
  PROVE  Shown(bal, p, k) \in [Address -> Nat]
<1>1. \A a \in Address : (bal[a] * p) \div k \in Nat
  BY ShownOne
<1> QED  BY <1>1 DEF Shown

(* All balances shown: their sum is worth at most the sum, and less by at  *)
(* most k - 1 for each holder.                                             *)
LEMMA ShownAll ==
  ASSUME NEW bal \in [Address -> Nat], NEW p \in Nat, NEW k \in Nat \ {0}
  PROVE  /\ Total(Shown(bal, p, k)) * k <= Total(bal) * p
         /\ Total(bal) * p
              <= Total(Shown(bal, p, k)) * k + Cardinality(Holders(bal, Address)) * (k - 1)
<1> DEFINE shown == Shown(bal, p, k)
           t(S)  == Within(bal, S)
           r(S)  == Within(shown, S)
           h(S)  == Cardinality(Holders(bal, S))
           Close(S) == r(S) * k <= t(S) * p /\ t(S) * p <= r(S) * k + h(S) * (k - 1)
           family == {S \in SUBSET Address : Close(S)}
<1>1. shown \in [Address -> Nat]
  BY ShownType
<1>2. \A a \in Address : shown[a] = (bal[a] * p) \div k
  BY DEF Shown
<1>3. {} \in family
  <2>1. t({}) = 0 /\ r({}) = 0
    BY WithinNobody
  <2>2. Holders(bal, {}) = {}
    BY DEF Holders
  <2>3. h({}) = 0
    BY <2>2, FS_EmptySet
  <2> QED  BY <2>1, <2>3
<1>4. ASSUME NEW S \in SUBSET Address, NEW x \in Address \ S, Close(S)
      PROVE  Close(S \cup {x})
  <2> DEFINE b    == bal[x]
             v    == shown[x]
             more == S \cup {x}
             one  == IF b > 0 THEN 1 ELSE 0
             t0 == t(S)
             r0 == r(S)
             h0 == h(S)
             t1 == t(more)
             r1 == r(more)
             h1 == h(more)
             j  == k - 1
  <2>1. t0 \in Nat /\ t1 = t0 + b /\ b \in Nat
    BY WithinType, WithinOneMore
  <2>2. r0 \in Nat /\ r1 = r0 + v /\ v \in Nat
    <3> HIDE DEF shown
    <3> QED  BY <1>1, WithinType, WithinOneMore
  <2>3. h0 \in Nat /\ h1 = h0 + one
    BY HoldersOneMore
  <2>4. v * k <= b * p /\ b * p <= v * k + (IF b > 0 THEN k - 1 ELSE 0)
    BY <1>2, <2>1, ShownOne
  <2>5. r0 * k <= t0 * p /\ t0 * p <= r0 * k + h0 * j
    BY <1>4
  <2> HIDE DEF b, v, t0, r0, h0, t1, r1, h1
  <2>6. j \in Nat /\ one \in Nat /\ one * j = (IF b > 0 THEN k - 1 ELSE 0)
    OBVIOUS
  <2> HIDE DEF j, one
  <2>7. t1 * p = t0 * p + b * p
    BY <2>1
  <2>8. r1 * k = r0 * k + v * k
    BY <2>2
  <2>9. h1 * j = h0 * j + one * j
    BY <2>3, <2>6
  <2>10. /\ t0 * p \in Nat /\ b * p \in Nat /\ r0 * k \in Nat /\ v * k \in Nat
         /\ h0 * j \in Nat /\ one * j \in Nat
    BY <2>1, <2>2, <2>3, <2>6
  <2>11. r1 * k <= t1 * p /\ t1 * p <= r1 * k + h1 * j
    BY <2>4, <2>5, <2>6, <2>7, <2>8, <2>9, <2>10
  <2> QED  BY <2>11 DEF t1, r1, h1, j
<1>5. Address \in family
  <2>1. \A S \in SUBSET Address : \A x \in Address \ S : S \in family => S \cup {x} \in family
    <3> HIDE DEF Close
    <3> QED  BY <1>4
  <2> HIDE DEF family
  <2> QED  BY <1>3, <2>1, AddressAssumption, SubsetInduction
<1>6. t(Address) = Total(bal) /\ r(Address) = Total(shown)
  <2> HIDE DEF shown
  <2> QED  BY <1>1, WithinAll
<1>7. Close(Address)
  BY <1>5
<1> HIDE DEF shown
<1> QED  BY <1>6, <1>7 DEF shown

(* Shown as one, the whole sum is no less than all the parts shown, and    *)
(* the difference is less than a unit for each holder.                     *)
LEMMA ShownGap ==
  ASSUME NEW bal \in [Address -> Nat], NEW p \in Nat, NEW k \in Nat \ {0}
  PROVE  LET whole == (Total(bal) * p) \div k
             parts == Total(Shown(bal, p, k))
             h     == Cardinality(Holders(bal, Address))
         IN  /\ whole \in Nat /\ parts \in Nat /\ h \in Nat
             /\ parts <= whole
             /\ whole = parts \/ whole < parts + h
<1> DEFINE t     == Total(bal)
           x     == t * p
           whole == x \div k
           parts == Total(Shown(bal, p, k))
           h     == Cardinality(Holders(bal, Address))
           j     == k - 1
           y     == parts * k
<1>1. t \in Nat /\ parts \in Nat
  BY TotalType, ShownType
<1>2. h \in Nat
  <2>1. IsFiniteSet(Address) /\ Holders(bal, Address) \in SUBSET Address
    BY AddressAssumption DEF Holders
  <2> QED  BY <2>1, FS_Subset, FS_CardinalityType
<1>3. y <= x /\ x <= y + h * j
  BY ShownAll
<1> HIDE DEF t, parts, h
<1>4. x \in Nat /\ y \in Nat /\ j \in Nat
  BY <1>1
<1> HIDE DEF x
<1>5. whole \in Nat /\ whole * k <= x /\ x < whole * k + k
  BY <1>4, RoundsDown, RoundsDownLess
<1> HIDE DEF whole
<1>6. parts <= whole
  <2> SUFFICES ASSUME parts >= whole + 1 PROVE FALSE
    BY <1>1, <1>5
  <2>1. parts * k >= (whole + 1) * k
    BY <1>1, <1>5
  <2>2. (whole + 1) * k = whole * k + k /\ whole * k \in Nat
    BY <1>5
  <2> QED  BY <1>3, <1>4, <1>5, <2>1, <2>2 DEF y
<1>7. whole = parts \/ whole < parts + h
  <2> SUFFICES ASSUME whole > parts, whole >= parts + h PROVE FALSE
    BY <1>1, <1>2, <1>5, <1>6
  <2>1. h * j = h * k - h /\ h * k \in Nat
    BY <1>2
  <2>2. (parts + h) * k = parts * k + h * k
    BY <1>1, <1>2
  <2>3. whole * k >= (parts + h) * k
    BY <1>1, <1>2, <1>5
  <2> DEFINE hk == h * k
             wk == whole * k
  <2>4. hk \in Nat /\ wk \in Nat
    BY <1>2, <1>5
  <2>5. x <= y + hk - h /\ wk <= x /\ wk >= y + hk
    BY <1>3, <1>5, <2>1, <2>2, <2>3 DEF y
  <2> HIDE DEF hk, wk
  <2>6. h = 0 /\ hk = 0
    BY <1>2, <1>4, <2>4, <2>5 DEF hk
  <2>7. wk <= y
    BY <1>2, <1>4, <2>4, <2>5, <2>6
  <2>8. wk >= (parts + 1) * k
    BY <1>1, <1>5 DEF wk
  <2>9. (parts + 1) * k = parts * k + k /\ parts * k \in Nat
    BY <1>1
  <2> QED  BY <2>4, <2>7, <2>8, <2>9 DEF y
<1> QED  BY <1>1, <1>2, <1>5, <1>6, <1>7 DEF whole, parts, h, x, t

=============================================================================

--------------------------- MODULE BoundedPrice ---------------------------
(***************************************************************************)
(* What a holder is promised of a price that somebody sets: it is replaced *)
(* at most once per Window, and no replacement moves it by more than Num   *)
(* parts in Den.  Both oracles that are set by hand implement this.        *)
(***************************************************************************)
EXTENDS PriceMath

CONSTANTS Window, Num, Den, InitialPrice, DeployedAt

VARIABLES price,   \* what getPriceData answers
          stamp    \* the timestamp it answers with

Init == price = InitialPrice /\ stamp = DeployedAt

Replace == /\ stamp' >= stamp + Window
           /\ price' > 0
           /\ Distance(price, price') * Den <= Num * price

Spec == Init /\ [][Replace]_<<price, stamp>>

(* However many replacements there were, the price has compounded at most  *)
(* one bound per window that has gone by since deployment.                *)
WithinCompoundBound ==
  LET k == (stamp - DeployedAt) \div Window
  IN  /\ price * Power(Den)[k] <= InitialPrice * Power(Den + Num)[k]
      /\ price * Power(Den)[k] >= InitialPrice * Power(Den - Num)[k]
=============================================================================

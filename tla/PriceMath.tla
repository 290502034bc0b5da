----------------------------- MODULE PriceMath -----------------------------
(* What the properties of the oracles measure prices with.                 *)
EXTENDS Integers

Distance(p, q) == IF p < q THEN q - p ELSE p - q

(* base to the power k is Power(base)[k]. *)
Power(base) == LET power[k \in Nat] == IF k = 0 THEN 1 ELSE base * power[k - 1]
               IN  power
=============================================================================

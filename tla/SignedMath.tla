---------------------------- MODULE SignedMath ----------------------------
(* What Solidity's signed integers do where TLA+ does otherwise.           *)
EXTENDS Integers

Abs(x) == IF x >= 0 THEN x ELSE -x

(* Division truncates towards zero. *)
TruncDiv(a, b) == IF (a >= 0) = (b >= 0) THEN Abs(a) \div Abs(b)
                                         ELSE -(Abs(a) \div Abs(b))
=============================================================================

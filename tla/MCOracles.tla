----------------------------- MODULE MCOracles -----------------------------
(* One oracle is deployed in each behaviour; the others stay as they were  *)
(* deployed.                                                               *)
EXTENDS RWAOracleExternalComparisonCheck, RWAOracleRateCheck, RWADynamicOracle

VARIABLE deployed

oracleVars == <<comparisonVars, rateVars, dynamicVars, deployed, now>>

OracleInit ==
  /\ ClockInit
  /\ deployed \in {"comparison", "rate", "dynamic"}
  /\ ComparisonInit
  /\ RateInit
  /\ DynamicInit
  /\ deployed # "comparison" => feed.answer = 10
  /\ deployed # "dynamic" => ranges = <<MakeRange(0, 2, ONE, TrueStart(6, ONE))>>

OracleNext ==
  /\ UNCHANGED deployed
  /\ \/ deployed = "comparison" /\ ComparisonNext /\ UNCHANGED <<rateVars, dynamicVars>>
     \/ deployed = "rate" /\ RateNext /\ UNCHANGED <<comparisonVars, dynamicVars>>
     \/ deployed = "dynamic" /\ DynamicNext /\ UNCHANGED <<comparisonVars, rateVars>>

OracleSpec == OracleInit /\ [][OracleNext]_oracleVars

(* The comparison oracle, deployed while its feed answered a real price.   *)
SoundInit == OracleInit /\ deployed = "comparison" /\ feed.answer > 0
SoundSpec == SoundInit /\ [][OracleNext]_oracleVars

(* However often it was set, a price lies within one bound per window that *)
(* has gone by since its oracle was deployed.                              *)
PricesCompoundByWindow == /\ ComparisonBound!WithinCompoundBound
                          /\ RateBound!WithinCompoundBound

(* A corrupt answer, the lock's zero, and changes within and beyond what   *)
(* is believed of the feed.                                                *)
MCAnswers == {-1, 0, 10, 13, 15}

MCOverrides == {<<2, 4, 6>>, <<1, 2, 6>>, <<4, 6, 8>>, <<4, 8, 6>>}
=============================================================================

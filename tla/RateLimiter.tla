---------------------------- MODULE RateLimiter ----------------------------
(***************************************************************************)
(* contracts/InstantMintTimeBasedRateLimiter.sol: two independent limiters *)
(* of one contract, one for mints and one for redemptions.  The code holds *)
(* four variables per side; here each is a function of the side.           *)
(*                                                                         *)
(* A limiter has no clock of its own: the window restarts at the first     *)
(* operation that finds it over.                                           *)
(***************************************************************************)
EXTENDS Integers

CONSTANTS Limits,      \* bound: the limits a configurer sets
          Durations,   \* bound: the window lengths a configurer sets
          Requests,    \* bound: the amounts requested
          MaxTime      \* bound: the last block timestamp

Side == {"mint", "redeem"}

ASSUME LimiterAssumption == /\ Limits \subseteq Nat
                            /\ Durations \subseteq Nat
                            /\ Requests \subseteq Nat
                            /\ MaxTime \in Nat

VARIABLES limit,       \* instantMintLimit, instantRedemptionLimit
          current,     \* currentInstantMintAmount, currentInstantRedemptionAmount
          lastReset,   \* lastResetInstantMintTime, lastResetInstantRedemptionTime
          duration,    \* resetInstantMintDuration, resetInstantRedemptionDuration
          now          \* block.timestamp

limiterVars == <<limit, current, lastReset, duration>>

LimiterTypeOK == /\ limit \in [Side -> Nat]
                 /\ current \in [Side -> Nat]
                 /\ lastReset \in [Side -> Nat]
                 /\ duration \in [Side -> Nat]
                 /\ now \in Nat

(* The constructor; deployed at time 0. *)
LimiterInit == /\ limit \in [Side -> Limits]
               /\ current = [side \in Side |-> 0]
               /\ duration \in [Side -> Durations]
               /\ now = 0
               /\ lastReset = [side \in Side |-> now]

-----------------------------------------------------------------------------
(* A mutant of the next definition: it is over one timestamp too late. *)
ExpiredLate(side) == now > lastReset[side] + duration[side]

(* The window of a side is over. *)
Expired(side) == now >= lastReset[side] + duration[side]

(* What the check counts as used: nothing once the window is over. *)
Used(side) == IF Expired(side) THEN 0 ELSE current[side]

(* A mutant of the next definition: the amount alone is compared with the  *)
(* limit.                                                                  *)
AdmitsEach(side, amt) == amt > 0 /\ amt <= limit[side]

(* The two requirements.  The subtraction is checked: a limit lowered      *)
(* below what is used makes it underflow, and the call reverts.            *)
Admits(side, amt) == /\ amt > 0
                     /\ Used(side) <= limit[side]
                     /\ amt <= limit[side] - Used(side)

(* A mutant of the next definition: the window starts again at each call.  *)
WindowStartSliding(side) == now

WindowStart(side) == IF Expired(side) THEN now ELSE lastReset[side]

(* _checkAndUpdateInstantMintLimit and ..RedemptionLimit: what they write *)
(* once the request is admitted ...                                       *)
Update(side, amt) ==
  /\ current' = [current EXCEPT ![side] = Used(side) + amt]
  /\ lastReset' = [lastReset EXCEPT ![side] = WindowStart(side)]
  /\ UNCHANGED <<limit, duration>>

(* ... and the whole of them. *)
CheckAndUpdate(side, amt) == Admits(side, amt) /\ Update(side, amt)

(* The setters leave what is used, and the window it is used in, alone. *)
SetLimit(side, newLimit) ==
  /\ limit' = [limit EXCEPT ![side] = newLimit]
  /\ UNCHANGED <<current, lastReset, duration>>

SetDuration(side, newDuration) ==
  /\ duration' = [duration EXCEPT ![side] = newDuration]
  /\ UNCHANGED <<limit, current, lastReset>>

(* Blocks are mined: time goes on, several operations may share a block.   *)
Tick == /\ now < MaxTime
        /\ now' = now + 1
        /\ UNCHANGED limiterVars

=============================================================================

--------------------------- MODULE RateLimiterLog ---------------------------
(***************************************************************************)
(* The rate limiter with a history: how much each side admitted at each    *)
(* timestamp, and when its settings last changed.  The properties say what *)
(* the limiter promises in terms of that history, which the contract       *)
(* itself does not keep.                                                   *)
(***************************************************************************)
EXTENDS RateLimiter, TokenLedger

CONSTANTS MaxAdmitted,   \* bound: what a side admits at one timestamp
          Adjustable     \* bound: the sides whose settings change in a run

ASSUME AdjustableAssumption == Adjustable \subseteq Side

VARIABLES admitted,      \* [Side -> [time -> amount]], a history variable
          settled        \* [Side -> time its settings were last changed, or -1]

logVars == <<limiterVars, now, admitted, settled>>

Times == 0 .. MaxTime

LogTypeOK == /\ LimiterTypeOK
             /\ admitted \in [Side -> [Times -> Nat]]
             /\ settled \in [Side -> Times \cup {-1}]

LogInit == /\ LimiterInit
           /\ admitted = [side \in Side |-> [t \in Times |-> 0]]
           /\ settled = [side \in Side |-> -1]

Request(side, amt) ==
  /\ CheckAndUpdate(side, amt)
  /\ admitted' = [admitted EXCEPT ![side][now] = @ + amt]
  /\ UNCHANGED <<now, settled>>

Reconfigure(side) ==
  /\ \/ \E n \in Limits : SetLimit(side, n)
     \/ \E d \in Durations : SetDuration(side, d)
  /\ settled' = [settled EXCEPT ![side] = now]
  /\ UNCHANGED <<now, admitted>>

LogNext == \/ \E side \in Side, amt \in Requests :
                admitted[side][now] + amt <= MaxAdmitted /\ Request(side, amt)
           \/ \E side \in Adjustable : Reconfigure(side)
           \/ Tick /\ UNCHANGED <<admitted, settled>>

LogSpec == LogInit /\ [][LogNext]_logVars

-----------------------------------------------------------------------------
(* What a side admitted at the times of a set. *)
AdmittedDuring(side, ts) == Total([t \in ts |-> admitted[side][t]])

(* The tracked amount is what was admitted since the window began: all     *)
(* that came later than the reset, and at the reset's own timestamp no     *)
(* more than was admitted then.                                            *)
CurrentMatchesLog ==
  \A side \in Side :
    /\ AdmittedDuring(side, lastReset[side] + 1 .. now) <= current[side]
    /\ current[side] <= AdmittedDuring(side, lastReset[side] .. now)

(* After the settings last changed, a window's length of time never sees   *)
(* more than twice the limit: windows are fixed, not sliding, so the end   *)
(* of one and the start of the next can be used in full.                   *)
TwiceTheLimitInAnyWindow ==
  \A side \in Side : \A t \in settled[side] + 1 .. now :
    duration[side] > 0 =>
      LET last == IF t + duration[side] - 1 <= now THEN t + duration[side] - 1 ELSE now
      IN  AdmittedDuring(side, t .. last) <= 2 * limit[side]

(* The timestamps of the last window's length, the present one included.   *)
Recent(side) == {t \in 0 .. now : t > now - duration[side]}

(* Nobody is turned away whom a sliding window would let through: what the *)
(* limiter refuses would take the side above its limit within one window's *)
(* length, whatever the settings were before and however old the window.   *)
NeverStricterThanSliding ==
  \A side \in Side : \A amt \in 1 .. limit[side] :
    AdmittedDuring(side, Recent(side)) + amt <= limit[side] => Admits(side, amt)

(* "If a limit is zero, the relevant check always fails" (the setters'     *)
(* comments), and lowering a limit below what is used closes the side: no  *)
(* admission ever leaves a side above its limit or happens at limit zero.  *)
AdmissionWithinLimit ==
  [][\A side \in Side : admitted'[side] # admitted[side] =>
       current'[side] <= limit[side] /\ limit[side] > 0]_logVars

=============================================================================

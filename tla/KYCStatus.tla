----------------------------- MODULE KYCStatus -----------------------------
(***************************************************************************)
(* What a token sees of the KYC registries: for each registry and group    *)
(* the addresses marked as verified, and the sanctions list that overrides *)
(* them.  Registries are changed by their own role holders at any moment,  *)
(* with no regard for what the tokens are doing; who may change them, and  *)
(* how, is in KYCRegistry.                                                 *)
(***************************************************************************)
EXTENDS TokenLedger

CONSTANTS Registry,   \* the registries a token may be pointed at
          Group,      \* KYC requirement groups
          Reviewed    \* bound: the addresses whose status changes in a run

ASSUME KYCAssumption == Reviewed \subseteq Address

VARIABLES kycState,   \* [Registry \X Group -> SUBSET Address]
          sanctioned  \* the addresses on the sanctions list

kycVars == <<kycState, sanctioned>>

KYCTypeOK == /\ kycState \in [Registry \X Group -> SUBSET Address]
             /\ sanctioned \in SUBSET Address

(* The addresses no run reviews are verified in every group throughout. *)
KYCInit == /\ kycState \in [Registry \X Group ->
                             {(Address \ (Reviewed \cup {Zero})) \cup as : as \in SUBSET Reviewed}]
           /\ sanctioned = {}

(* KYCRegistry.getKYCStatus *)
GetKYCStatus(registry, group, account) ==
  /\ account \in kycState[<<registry, group>>]
  /\ account \notin sanctioned

(* Each batch of addKYCAddresses / removeKYCAddresses lands in one step. *)
AddKYCAddresses(registry, group, accounts) ==
  /\ kycState' = [kycState EXCEPT ![<<registry, group>>] = @ \cup accounts]
  /\ UNCHANGED sanctioned

RemoveKYCAddresses(registry, group, accounts) ==
  /\ kycState' = [kycState EXCEPT ![<<registry, group>>] = @ \ accounts]
  /\ UNCHANGED sanctioned

(* The sanctions list is an external service; it adds and removes entries. *)
SetSanctions(accounts) ==
  /\ sanctioned' = accounts
  /\ UNCHANGED kycState

KYCNext ==
  \/ \E r \in Registry, g \in Group, as \in SUBSET Reviewed :
       AddKYCAddresses(r, g, as) \/ RemoveKYCAddresses(r, g, as)
  \/ \E as \in SUBSET Reviewed : SetSanctions(as)

=============================================================================

---------------------------- MODULE RoleMembers ----------------------------
(***************************************************************************)
(* AccessControlEnumerable: who holds which role of which contract.  The   *)
(* roles of all contracts are one function from <<contract, role>> to the  *)
(* members in the order getRoleMember lists them; a pair outside its       *)
(* domain has no members.                                                  *)
(***************************************************************************)
EXTENDS Integers, Sequences, SequencesExt

MembersOf(members, contract, role) ==
  IF <<contract, role>> \in DOMAIN members THEN members[<<contract, role>>] ELSE <<>>

Holds(members, contract, role, account) ==
  \E i \in DOMAIN MembersOf(members, contract, role) :
    MembersOf(members, contract, role)[i] = account

(* A function with one entry more, or replaced. *)
Put(f, key, value) ==
  [x \in DOMAIN f \cup {key} |-> IF x = key THEN value ELSE f[x]]

WithMembers(members, contract, role, list) == Put(members, <<contract, role>>, list)

(* A mutant of the grant: a new member is listed first. *)
GrantedInFront(members, contract, role, account) ==
  IF Holds(members, contract, role, account) THEN members
  ELSE WithMembers(members, contract, role,
                   <<account>> \o MembersOf(members, contract, role))

(* _grantRole: a member is not listed twice; a new one is listed last. *)
Granted(members, contract, role, account) ==
  IF Holds(members, contract, role, account) THEN members
  ELSE WithMembers(members, contract, role,
                   Append(MembersOf(members, contract, role), account))

(* _revokeRole: the last member takes the place of the one that leaves. *)
Revoked(members, contract, role, account) ==
  IF ~ Holds(members, contract, role, account) THEN members
  ELSE LET list == MembersOf(members, contract, role)
           i    == CHOOSE j \in DOMAIN list : list[j] = account
       IN  WithMembers(members, contract, role, Front([list EXCEPT ![i] = Last(list)]))

(* The grants of a new contract's constructor: each role to one account,   *)
(* grants[role].                                                           *)
GrantedAll(members, contract, grants) ==
  [key \in DOMAIN members \cup ({contract} \X DOMAIN grants) |->
     IF key \in {contract} \X DOMAIN grants THEN <<grants[key[2]]>> ELSE members[key]]
=============================================================================

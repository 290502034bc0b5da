-------------------------- MODULE OUSGWithRegistry --------------------------
(***************************************************************************)
(* The OUSG token beside the registries it consults.  Their transactions   *)
(* interleave: roles, batches, deliveries of signatures and the token's    *)
(* calls come in any order.                                                *)
(***************************************************************************)
EXTENDS OUSG, KYCRegistry

CheckedInit == OUSGInit /\ RegistryInit

CheckedNext == \/ OUSGNext /\ UNCHANGED registryVars
               \/ RegistryNext /\ UNCHANGED ousgVars

CheckedSpec == CheckedInit /\ [][CheckedNext]_<<ousgVars, registryVars>>
=============================================================================

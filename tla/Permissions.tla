------------------------------ MODULE Permissions ------------------------------
(***************************************************************************)
(* Permissions of identity connections: PermissionCaches, which this       *)
(* module extends, and as an instance PermissionMerge, the way of one      *)
(* permission through the layers that a resolution runs without looking at *)
(* any cache.  `part` says, for a whole behaviour, which of them moves.    *)
(***************************************************************************)
EXTENDS PermissionCaches

VARIABLES part, key, trust, partner, template, effect, stage, overridden

Merge == INSTANCE PermissionMerge

merge == <<key, trust, partner, template, effect, stage, overridden>>
permissionVars == <<vars, merge, part>>

PermissionsInit == part \in {"caches", "merge"} /\ Init /\ Merge!Init

PermissionsNext ==
    /\ UNCHANGED part
    /\ \/ part = "caches" /\ Next /\ UNCHANGED merge
       \/ part = "merge" /\ Merge!Next /\ UNCHANGED vars

PermissionsSpec == PermissionsInit /\ [][PermissionsNext]_permissionVars

-----------------------------------------------------------------------------
\* The guardrails of the five layers agree, from the template to the end.
Guardrails == Merge!Guardrails
=============================================================================

----------------------------- MODULE MCPermissions -----------------------------
(***************************************************************************)
(* Permissions on small instances: the contexts and bindings of a          *)
(* conversation; what two application instances answer; what one answers   *)
(* between overlapping overrides; what one answers with the risk overlay   *)
(* and without; and the way of one permission through the layers.          *)
(***************************************************************************)
EXTENDS Permissions, TLC

CONSTANTS h1, h2, i1, i2, k1, k2

Answers == INSTANCE PermissionCaches
    WITH Instances <- {i1, i2}, Overridable <- {k1}, Uses <- {"answer"},
         MaxOverrides <- 1, MaxWrites <- 0, MaxTime <- 0
Overrides == INSTANCE PermissionCaches
    WITH Overridable <- {k1, k2}, Uses <- {"answer"},
         MaxChanges <- 0, MaxOverrides <- 2, MaxWrites <- 0
Overlaid == INSTANCE PermissionCaches
    WITH Uses <- {"answer"}, Overlays <- BOOLEAN, MaxWrites <- 0, MaxTime <- 0

\* Where the permission stays in the parts that are not about it.
MergeOver ==
    /\ key = "block" /\ trust = "UNVERIFIED" /\ partner = FALSE /\ overridden = FALSE
    /\ template = 0 /\ effect = 0 /\ stage = "resolved"

MCInit ==
    \/ part = "contexts" /\ Init /\ MergeOver
    \/ part = "answers" /\ Answers!Init /\ MergeOver
    \/ part = "overrides" /\ Overrides!Init /\ MergeOver
    \/ part = "overlaid" /\ Overlaid!Init /\ MergeOver
    \/ part = "merge" /\ Init /\ Merge!Init

MCNext ==
    /\ UNCHANGED part
    /\ \/ part = "contexts" /\ Next /\ UNCHANGED merge
       \/ part = "answers" /\ Answers!Next /\ UNCHANGED merge
       \/ part = "overrides" /\ Overrides!Next /\ UNCHANGED merge
       \/ part = "overlaid" /\ Overlaid!Next /\ UNCHANGED merge
       \/ part = "merge" /\ Merge!Next /\ UNCHANGED vars

ContinueOf(h) ==
    \/ part = "contexts" /\ Continue(h)
    \/ part = "answers" /\ Answers!Continue(h)
    \/ part = "overrides" /\ Overrides!Continue(h)
    \/ part = "overlaid" /\ Overlaid!Continue(h)

TickOf ==
    \/ part = "contexts" /\ Tick
    \/ part = "answers" /\ Answers!Tick
    \/ part = "overrides" /\ Overrides!Tick
    \/ part = "overlaid" /\ Overlaid!Tick

\* Fairness, owed in the parts about the caches.
MCFairness == WF_vars(TickOf) /\ \A h \in Handlers : WF_vars(ContinueOf(h))

MCSpec == MCInit /\ [][MCNext]_permissionVars /\ MCFairness
=============================================================================

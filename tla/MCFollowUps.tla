----------------------------- MODULE MCFollowUps -----------------------------
(***************************************************************************)
(* The follow-ups of one relationship under the reminder job, and under    *)
(* the passive job; `part` says, for a whole behaviour, under which.       *)
(***************************************************************************)
EXTENDS FollowUps, TLC

CONSTANTS f1, f2, f3

VARIABLE part

\* Rows are never deleted, and take their identifiers in this order.
Used(f) == followUp[f] # NoFollowUp
InOrder == (Used(f3) => Used(f2)) /\ (Used(f2) => Used(f1))

OfOwner == {f \in FollowUpIds : Used(f) /\ ~followUp[f].system}

MCInit == part \in {"reminders", "passive"} /\ Init

\* Two follow-ups under the reminder job alone; or three, of which at most one is the
\* owner's, under the passive job alone.
MCNext ==
    /\ Next /\ InOrder' /\ UNCHANGED part
    /\ \/ /\ part = "reminders" /\ ~Used(f3)'
          /\ \A j \in Generators : op'[j] = Idle
       \/ /\ part = "passive" /\ Cardinality(OfOwner') <= 1
          /\ \A j \in Reminders : op'[j] = Idle

\* The fairness of FairSpec, owed in the part that has the reminder job.
MCFairness ==
    \A j \in Reminders :
        WF_vars(part = "reminders" /\ DueFind(j)) /\ SF_vars(part = "reminders" /\ DueCommit(j))

MCSpec == MCInit /\ [][MCNext]_<<vars, part>> /\ MCFairness

-----------------------------------------------------------------------------
\* Where the reminder job runs, no reminder that is due stays due.
RunsTriggerDue == part = "reminders" => DueIsTriggered
=============================================================================

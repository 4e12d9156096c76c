\* Two overlapping runs of the reminder job, with a batch smaller than what is due, and a
\* call of the owner; any run may fail, not all of them.  Two overlapping runs of the passive
\* job beside one call of the owner.
SPECIFICATION MCSpec
CONSTANTS
    f1 = f1
    f2 = f2
    f3 = f3
    FollowUpIds = {f1, f2, f3}
    Handlers = {h1}
    Reminders = {r1, r2}
    Generators = {g1, g2}
    BatchSize = 1
    Inactivity = 1
    MaxSystem = 2
    MaxTime = 2
INVARIANTS
    NeverEarly
    PassiveBurst
PROPERTIES
    OwnerDecides
    RunsTriggerDue

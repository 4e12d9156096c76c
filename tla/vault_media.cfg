\* Two calls at a time on one media, one at a time on two, two with one idempotency key, and
\* two on one continuity pack.
SPECIFICATION MCSpec
CONSTANTS
    h2 = h2
    m2 = m2
    Handlers = {h1, h2}
    Media = {m1, m2}
    Grace = 1
    BatchSize = 1
    MaxAttempts = 2
    MaxDrift = 1
    MaxTime = 2
    KeyBodies = {b1, b2}
    MaxEffects = 2
    Items = {m1}
    Recipients = {b1}
    MaxArmings = 2
INVARIANTS
    UsageFollowsMedia
    LiveHasObject
    KeyProtects
    ReleasedAsShown
PROPERTIES
    DueIsPurged
\* Once every row is used and the clock is at its bound, nothing may be left to do.
CHECK_DEADLOCK FALSE

\* A purge and a restore of one media.
SPECIFICATION MCSpec
CONSTANTS
    h2 = h2
    m2 = m2
    Handlers = {h1, h2}
    Media = {m1, m2}
    Grace = 1
    BatchSize = 1
    MaxAttempts = 2
    MaxDrift = 1
    MaxTime = 2
    KeyBodies = {b1, b2}
    MaxEffects = 2
    Items = {m1}
    Recipients = {b1}
    MaxArmings = 2
PROPERTIES
    OnlyTrashedIsPurged
\* Once every row is used and the clock is at its bound, nothing may be left to do.
CHECK_DEADLOCK FALSE

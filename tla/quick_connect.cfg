\* Three scans at a time of a token with two uses, by three scanners.
SPECIFICATION Spec
CONSTANTS
    h1 = h1
    h2 = h2
    h3 = h3
    s1 = s1
    s2 = s2
    s3 = s3
    Handlers = {h1, h2, h3}
    Scanners = {s1, s2, s3}
    MaxUses = 2
    EndsAt = 2
    Duration = 0
    MaxTime = 3
SYMMETRY Symmetry
INVARIANTS
    UsesAreConnections
    RetiredOnlyWhenSpent
    AccessStartsInWindow
\* Once the token has ended and the clock is at its bound, nothing is left to do.
CHECK_DEADLOCK FALSE

\* One scanner whose access lapses while the token is still good.
SPECIFICATION Spec
CONSTANTS
    h1 = h1
    s1 = s1
    Handlers = {h1}
    Scanners = {s1}
    MaxUses = 3
    EndsAt = 3
    Duration = 1
    MaxTime = 3
INVARIANTS
    ConnectedIsStored
\* Once the token has ended and the clock is at its bound, nothing is left to do.
CHECK_DEADLOCK FALSE

\* Two handlers on each of the four protocols of the auth service.
SPECIFICATION MCSpec
CONSTANTS
    h1 = h1
    h2 = h2
    c1 = c1
    c2 = c2
    c3 = c3
    p1 = p1
    p2 = p2
    i1 = i1
    Handlers = {h1, h2}
    Challenges = {c1, c2, c3}
    Phones = {p1, p2}
    Tokens = {c1, c2, c3}
    Sessions = {p1, p2}
    Ips = {i1}
    Ttl = 2
    Resend = 0
    Window = 1
    WindowLimit = 1
    MaxAttempts = 2
    Pause = 1
    MaxTime = 3
    LinkTtl = 2
    LinkCooldown = 0
    LinkWindow = 1
    LinkLimit = 1
    LinkKeepExpired = 0
    LinkKeepEnded = 2
    LinkChanges = 1
    LinkTime = 3
    SessionTtl = 2
    SessionKeepExpired = 0
    SessionKeepRevoked = 1
    SessionChanges = 2
    SessionTime = 2
    Threshold <- MCThreshold
    Lockout <- MCLockout
    FailureWindow = 2
    ThrottleTime = 3
SYMMETRY Symmetry
INVARIANTS
    AuthTypeOK
    OneOpenChallenge
    IssueBursts
    LinksReplaced
    LinksFollowPassword
    SessionsFollowPassword
    LockHolds
    CountedIsLocked
PROPERTIES
    LockedOut
    SignedOutStaysOut
\* All rows used and the clock at its bound, nothing may be left to do.
CHECK_DEADLOCK FALSE

\* Two calls at a time on one export, and a second export created meanwhile.
SPECIFICATION ExportsSpec
CONSTANTS
    h1 = h1
    h2 = h2
    e1 = e1
    e2 = e2
    Handlers = {h1, h2}
    Exports = {e1, e2}
    Ttl = 1
    StuckAfter = 0
    MaxActive = 1
    MaxAttempts = 2
    MaxTime = 3
INVARIANTS
    DownloadableIsStored
PROPERTIES
    ReadyIsKept
    ExportsSettle
\* Once the exports have expired and the clock is at its bound, nothing may be left to do.
CHECK_DEADLOCK FALSE

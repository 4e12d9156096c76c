\* Two calls racing for one row that is created at most twice.
SPECIFICATION Spec
CONSTANTS
    Handlers = {h1, h2}
    Duration = 1
    Window = 1
    MaxSends = 2
    MaxRows = 2
    MaxTime = 4
SYMMETRY Symmetry
INVARIANTS
    TypeOK
    WindowsAreHonest
    BurstIsBounded
PROPERTIES
    OpenWindowsEndByOwner

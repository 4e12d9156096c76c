\* Two handlers on one row.
SPECIFICATION Spec
CONSTANTS
    Handlers = {h1, h2}
    Duration = 1
    Window = 1
    MaxSends = 1
    MaxRows = 2
    MaxTime = 1
PROPERTIES
    ExpiredIsNotUpgraded

\* Three concurrent handlers over one persona pair; the clock stands still.
SPECIFICATION Spec
CONSTANTS
    alice = alice
    bob = bob
    a1 = a1
    b1 = b1
    r1 = r1
    r2 = r2
    h1 = h1
    h2 = h2
    h3 = h3
    Users = {alice, bob}
    Personas = {a1, b1}
    OwnerOf <- OneEach
    RequestFlow = {b1}
    InstantFlow = {a1}
    QuickFlow = {b1}
    RequestIds = {r1, r2}
    Handlers = {h1, h2, h3}
    HourlyLimit = 20
    Hour = 1
    Cooldown = 1
    MaxTime = 0
SYMMETRY Symmetry
INVARIANTS
    TypeOK
    OnePendingPerPair
    OnlyOvertakenRunBlocked
PROPERTIES
    AnsweredOnce
    ImplementsLedger

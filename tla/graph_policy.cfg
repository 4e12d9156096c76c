\* Two handlers and a running clock: the retry cooldown and the hourly limit.
SPECIFICATION Spec
CONSTANTS
    alice = alice
    bob = bob
    a1 = a1
    b1 = b1
    r1 = r1
    r2 = r2
    r3 = r3
    h1 = h1
    h2 = h2
    Users = {alice, bob}
    Personas = {a1, b1}
    OwnerOf <- OneEach
    RequestFlow = {b1}
    InstantFlow = {}
    QuickFlow = {}
    RequestIds = {r1, r2, r3}
    Handlers = {h1, h2}
    HourlyLimit = 2
    Hour = 1
    Cooldown = 1
    MaxTime = 2
SYMMETRY Symmetry
INVARIANTS
    HourlyCap
    CooldownHonoured

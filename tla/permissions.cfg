\* Two requests at a time: on one instance, with bindings and contexts; on two; and with the
\* overlay and without.  And every permission, trust state and effect of the layers.
SPECIFICATION MCSpec
CONSTANTS
    h1 = h1
    h2 = h2
    i1 = i1
    i2 = i2
    k1 = k1
    k2 = k2
    Handlers = {h1, h2}
    Instances = {i1}
    Overridable = {}
    Uses = {"bind", "context"}
    Overlays = {TRUE}
    Ttl = 1
    MaxChanges = 1
    MaxOverrides = 0
    MaxWrites = 2
    MaxTime = 1
INVARIANTS
    Guardrails
    AnswersAreTimely
    ContextsAreBound
PROPERTIES
    StaleIsForgotten
\* Once a permission is resolved, its part is over.
CHECK_DEADLOCK FALSE

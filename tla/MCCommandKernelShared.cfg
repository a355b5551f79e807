SPECIFICATION Spec
CONSTANTS
    w1 = w1
    w2 = w2
    c1 = c1
    c2 = c2
    c3 = c3
    k1 = k1
    k2 = k2
    x1 = x1
    x2 = x2
    b1 = b1
    b2 = b2
    Worker = {w1, w2}
    Key = {k1, k2}
    Context = {x1, x2}
    Binding = {b1, b2}
    None = None
    Missing = Missing
    Seeded = Seeded
    Unwritten = Unwritten
    Command = {c1, c2, c3}
    TargetOf <- SharedTargets
    BindingOf <- SharedBindings
    ContextOf <- SharedContexts
    RouteOf <- SharedRoutes
    ParticipantOf <- SharedParticipants
    Serial = {c1, c3}
    Initializing = {c1, c2, c3}
    Creating = {c3}
    Protected = {c1, c2}
    Declaring = {c1}
    MaxAttempts = 2
INVARIANTS
    TypeOK
    StableAnswer
    RevisionGuard
PROPERTY
    ImplementsLedger

SPECIFICATION FairSpec
CONSTANTS
    w1 = w1
    w2 = w2
    c1 = c1
    c2 = c2
    c3 = c3
    k1 = k1
    k2 = k2
    x1 = x1
    x2 = x2
    b1 = b1
    b2 = b2
    Worker = {w1, w2}
    Key = {k1, k2}
    Context = {x1, x2}
    Binding = {b1, b2}
    None = None
    Missing = Missing
    Seeded = Seeded
    Unwritten = Unwritten
    Command = {c1, c2}
    TargetOf <- CrossedTargets
    BindingOf <- CrossedBindings
    ContextOf <- CrossedContexts
    RouteOf <- CrossedRoutes
    ParticipantOf <- CrossedParticipants
    Serial = {c1, c2}
    Initializing = {c2}
    Creating = {}
    Protected = {c1, c2}
    Declaring = {c2}
    MaxAttempts = 2
PROPERTIES
    ImplementsLedger
    TransactionsEnd

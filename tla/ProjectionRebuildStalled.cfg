SPECIFICATION Spec
CONSTANTS
    a1 = a1
    a2 = a2
    w1 = w1
    live = live
    g1 = g1
    m1 = m1
    m2 = m2
    Attempt = {a1, a2}
    Worker = {w1}
    Generation = {live, g1}
    Initial = live
    TargetOf <- SameTarget
    Retirable = {live}
    SourceKinds = {"model-snapshot", "stream-replay"}
    Member = {m1, m2}
    EventOf <- Events
    MaxSequence = 3
    MaxFloor = 1
    PageSize = 2
    MaxRounds = 2
    MaxTries = 2
    Fault = {"stall"}
    None = None
SYMMETRY Attempts
CHECK_DEADLOCK FALSE
INVARIANT
    ActiveCovers

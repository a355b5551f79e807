SPECIFICATION FairSpec
CONSTANTS
    Signal = {s1}
    Action = {approve, reject}
    Key = {k1, k2}
    Caller = {c1, c2}
    Relay = {r1, r2}
    Free = Free
    BatchSize = 1
    MaxRequests = 2
    MaxFaults = 1
CHECK_DEADLOCK FALSE
INVARIANTS
    TypeOK
    OneDecision
    AnswersAgree
    ResumesWithDecision
    AcknowledgedReached
PROPERTIES
    DecisionFinal
    RunsDecide

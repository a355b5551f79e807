SPECIFICATION Spec
CONSTANTS
    Process = {p1, p2, p3}
    None = None
    Fault = {}
CHECK_DEADLOCK FALSE
INVARIANT OneWriter

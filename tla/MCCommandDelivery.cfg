SPECIFICATION Spec
CONSTANTS
    r1 = r1
    r2 = r2
    c1 = c1
    Request = {r1, r2}
    Command = {c1}
    CommandOf <- OneCommand
    Worker = {w1, w2}
    None = None
    MaxDeliver = 3
    Fault = {"ackLost", "gateway", "handler", "lastHandler", "unbound"}
CHECK_DEADLOCK FALSE
INVARIANTS
    TypeOK
    ReceiptAgrees

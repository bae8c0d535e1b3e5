SPECIFICATION Spec
CONSTANTS
    a = a
    b = b
    x = x
    y = y
    Thread = {t1, t2}
    Id = {a, b}
    Pass = {x, y}
    Request <- MCRequest
    ByHand <- MCByHand
    AutoEnroll = TRUE
    Limit = 1
    Window = 2
    Lockout = 1
    Kept = 3
    MaxCalls = 4
    MaxEvents = 1
    MaxTime = 2
SYMMETRY Symmetry
INVARIANTS TypeOK AccountsKept NoTwins FewTries
CHECK_DEADLOCK FALSE

SPECIFICATION RateSpec
CONSTANTS
    Ip = {p, q, r}
    Limit = 2
    Window = 2
    Block = 3
    TableCap = 2
    DropCap = 1
    MaxTime = 4
SYMMETRY Symmetry
INVARIANTS RateCap
PROPERTIES BlockLasts
CHECK_DEADLOCK FALSE

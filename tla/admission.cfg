SPECIFICATION Spec
CONSTANTS
    Conn = {c1, c2, c3, c4}
    Listener = {l1, l2}
    NoConn = NoConn
    Caps = {0, 1, 2}
SYMMETRY Symmetry
INVARIANTS SlotsReturn OwnThread
PROPERTIES SocketCap
CHECK_DEADLOCK FALSE

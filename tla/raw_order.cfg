SPECIFICATION OrderSpec
CONSTANTS
    Racer = {a, b}
    First = 101
    Last = 103
    StashMax = 2
SYMMETRY Symmetry
VIEW View
INVARIANT BufferAhead
PROPERTY NothingLost

SPECIFICATION Spec
CONSTANTS
    Client = {a, b, c, d}
    Room = {r, q}
    NoRoom = NoRoom
    Unknown = Unknown
    MaxClients = 3
    MaxPending = 1
    Players = {0, 2}
SYMMETRY Symmetry
CONSTRAINT InStep
INVARIANTS RoomsMatch StartedLive Caps
PROPERTIES Crowd HandedOver

SPECIFICATION FairSpec
CONSTANTS
    Uid = {a, b, c}
    NoGame = NoGame
    MaxUsers = 2
    MaxGames = 1
    MaxGameId = 2
    Limits = {2}
    DetachOnClose = {TRUE, FALSE}
    ForceReady = TRUE
    Unsteady = {a, b, c}
INVARIANTS Capacity NoLeakedSlot
PROPERTIES FreshGame GhostsReleased
CHECK_DEADLOCK FALSE

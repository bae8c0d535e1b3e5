SPECIFICATION Spec
CONSTANTS
    Uid = {a, b, c}
    NoGame = NoGame
    MaxUsers = 3
    MaxGames = 2
    MaxGameId = 2
    Limits = {2}
    DetachOnClose = {TRUE}
    ForceReady = FALSE
    Unsteady = {}
SYMMETRY Symmetry
VIEW View
INVARIANTS GamesWellFormed RacersRace
PROPERTIES SeatKept RaceEndsWithHost RacerReserved
CHECK_DEADLOCK FALSE

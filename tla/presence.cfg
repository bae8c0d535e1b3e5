SPECIFICATION Spec
CONSTANTS
    Uid = {h, g}
    MaxGameId = 2
    MaxGames = 1
    Limits = {4}
    NoGame = NoGame
    MaxLater = 3
    Hosts = {h, g}
    Guests = {g}
INVARIANTS NoPhantoms
PROPERTIES PromotedStaged StagedSoon
CHECK_DEADLOCK FALSE

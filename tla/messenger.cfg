SPECIFICATION FairSpec
CONSTANTS
    Conn = {c1, c2, c3}
    driver = driver
    mate = mate
    Persona = {driver, mate}
    Nobody = Nobody
    Teams <- MCTeams
    Cap = 2
    MaxCommands = 2
INVARIANTS TypeOK Agree ToldRight
PROPERTIES HearsOfLeaving
CHECK_DEADLOCK FALSE

SPECIFICATION Spec
CONSTANTS
    a1 = a1
    a2 = a2
    b = b
    Persona <- MCPersona
    Account = {"A", "B"}
    AccountOf <- MCAccountOf
    First <- MCFirst
    Thread = {t1, t2}
    Earlier <- MCEarlier
    MaxCalls = 2
    MaxSteps = 4
SYMMETRY Symmetry
VIEW View
INVARIANTS TypeOK Mutual OnDisk
PROPERTIES Consented
CHECK_DEADLOCK FALSE

SPECIFICATION Spec
CONSTANTS
    c1 = c1
    c2 = c2
    t1 = t1
    t2 = t2
    Client = {c1}
    Tool = {t1}
    MaxStep = 1
    MaxTries = 4
    MaxGlitches = 1
    ChecklistCount = 2
    MaxMapCounters = 2
    PauseNoClients = TRUE
    NoClient = NoClient
SYMMETRY Sym
INVARIANTS
    SameWorld
    NoFalseDesync
PROPERTY ForgottenIsOld

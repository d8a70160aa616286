SPECIFICATION FairSpec
CONSTANTS
    c1 = c1
    c2 = c2
    t1 = t1
    t2 = t2
    Client = {c1, c2}
    Tool = {t1}
    MaxStep = 1
    MaxTries = 2
    MaxGlitches = 0
    ChecklistCount = 2
    MaxMapCounters = 3
    PauseNoClients = TRUE
    NoClient = NoClient

PROPERTIES
    PausedResumes
    JoinEnds

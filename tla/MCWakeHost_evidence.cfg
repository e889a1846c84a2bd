CONSTANTS
    Participants = {asker, worker}
    Worker = worker
    Asker = asker
    Sessions = {s1, s2}
    Threads = {t1}
    Keys = {k1, k2}
    NoSession = NoSession
    QueueLimit = 2
    WakeLimit = 2
    MaxBatch = 2
    MaxMessages = 2
    MaxGeneration = 1
    MaxActivations = 2
SPECIFICATION HostSafe
SYMMETRY Symmetry
CONSTRAINTS
    Steady
    Early
INVARIANTS
    RecordedIsPersisted

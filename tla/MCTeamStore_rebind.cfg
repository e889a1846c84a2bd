CONSTANTS
    Participants = {asker, worker}
    Asker = asker
    Sessions = {s1, s2}
    Threads = {t1}
    Keys = {k1}
    NoSession = NoSession
    QueueLimit = 2
    WakeLimit = 1
    MaxBatch = 1
    MaxMessages = 1
    MaxGeneration = 2
    MaxActivations = 1
SPECIFICATION Spec
SYMMETRY Symmetry
CONSTRAINT QuietAsker
INVARIANTS
    TypeOK
    InFlightOwned
PROPERTIES
    NoSilentReplay

CONSTANTS
    Participants = {asker, worker}
    Worker = worker
    Asker = asker
    Sessions = {s1, s2}
    Threads = {t1}
    Keys = {k1}
    NoSession = NoSession
    QueueLimit = 1
    WakeLimit = 1
    MaxBatch = 1
    MaxMessages = 1
    MaxGeneration = 2
    MaxActivations = 0
    Commands = {c1, c2}
    MaxCopies = 2
SPECIFICATION ManualSpec
SYMMETRY Symmetry
INVARIANTS
    RecordedOnFile
    NoSilentRepeat
    AttemptIsWatched

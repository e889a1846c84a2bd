CONSTANTS
    Participants = {asker, worker}
    Worker = worker
    Asker = asker
    Sessions = {s1, s2}
    Threads = {t1}
    Keys = {k1}
    NoSession = NoSession
    QueueLimit = 2
    WakeLimit = 2
    MaxBatch = 1
    MaxMessages = 1
    MaxGeneration = 2
    MaxActivations = 2
SPECIFICATION HostSafe
SYMMETRY Symmetry
CONSTRAINTS
    Steady
    Early
PROPERTIES
    NoRepeatWithoutRetry
    NoWakeBeforeReview

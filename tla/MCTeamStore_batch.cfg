CONSTANTS
    Participants = {asker, worker}
    Asker = asker
    Sessions = {s1}
    Threads = {t1}
    Keys = {k1,k2}
    NoSession = NoSession
    QueueLimit = 3
    WakeLimit = 1
    MaxBatch = 2
    MaxMessages = 2
    MaxGeneration = 1
    MaxActivations = 1
SPECIFICATION Spec
SYMMETRY Symmetry
CONSTRAINT QuietAsker
INVARIANTS
    SettledIsProven
PROPERTIES
    DispatchRevalidates
    ObsoletePendingOnlyByRetry

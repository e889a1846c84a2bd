CONSTANTS
    Participants = {asker, worker}
    Asker = asker
    Sessions = {s1}
    Threads = {t1}
    Keys = {k1}
    NoSession = NoSession
    QueueLimit = 2
    WakeLimit = 1
    MaxBatch = 1
    MaxMessages = 1
    MaxGeneration = 2
    MaxActivations = 2
SPECIFICATION Spec
SYMMETRY Symmetry
CONSTRAINT QuietAsker
INVARIANTS
    LiveActivationOwned
    ClaimsHaveLiveActivation
    BudgetNeverExceeded
PROPERTIES
    InterruptionPauses

CONSTANTS
    Participants = {a, b}
    Asker = a
    Sessions = {s1}
    Threads = {t1}
    Keys = {k1, k2}
    NoSession = NoSession
    QueueLimit = 2
    WakeLimit = 1
    MaxBatch = 1
    MaxMessages = 3
    MaxGeneration = 1
    MaxActivations = 0
SPECIFICATION Spec
SYMMETRY MemberSymmetry
CONSTRAINT StableMembers
INVARIANTS
    QueueBounded
    AnsweredHasReply
    RepliesDoNotPingPong

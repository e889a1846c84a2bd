CONSTANTS
    Homes = {h1, h2}
    NoHome = NoHome
    Connectors = {k1, k2}
    Refreshers = {rf1}
    MaxEpoch = 2
    MaxEnrolments = 2
    MaxConnections = 2
SPECIFICATION LinkSpec
INVARIANT ConnectedIsTrue
CHECK_DEADLOCK FALSE

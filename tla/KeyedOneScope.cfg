SPECIFICATION FairSpec
CONSTANTS
    Callers = {c1, c2, c3}
    None = None
    Scopes = {None}
    Others = {"disconnect", "reconnect", "early"}
    MaxMoved = 1
INVARIANTS TypeOK AtMostOneLive BoundIsNotLost LiveIsReachable
PROPERTIES EveryCallEnds
CHECK_DEADLOCK FALSE

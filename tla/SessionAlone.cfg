SPECIFICATION FairSpec
CONSTANTS
    MaxAttempts = 5
    MaxExits = 2
    Endpoints = {}
INVARIANTS TypeOK StatusMatchesSocket NothingForgotten LostIsGivenUp RemovedIsInert
PROPERTIES ReconnectedFollowsReconnecting EveryLossResolves
CHECK_DEADLOCK FALSE

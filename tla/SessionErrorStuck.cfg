SPECIFICATION FairSpec
CONSTANTS
    MaxAttempts = 5
    MaxExits = 2
    Endpoints = {}
PROPERTIES
    ErrorLeadsToRecovery
CHECK_DEADLOCK FALSE

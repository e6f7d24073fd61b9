SPECIFICATION Spec
CONSTANTS
    MaxAttempts = 5
    MaxExits = 2
    Endpoints = {"reconnect", "mark"}
INVARIANTS ForgottenOnlyIfHungOrMismarked
CHECK_DEADLOCK FALSE

SPECIFICATION Spec
CONSTANTS
    Units <- MCUnits
    Options <- MCOptions
    MaxUnits <- MCMax
    MaxSends <- MCSends
INVARIANTS EndsAgree
PROPERTIES IsChannel ConnectSettles
CHECK_DEADLOCK FALSE

SPECIFICATION Spec
CONSTANTS
    None = None
    MaxScreenStack = 2
    MaxWindows = 2
    Rows = 4
    Cols = 5
    Records <- PopupRecords
    Texts <- OneText
    Keys = {"left", "up", "down", "Home", "End", "Reset"}
    Attentions = {"SysReq"}
    MaxRecords = 4
    MaxEvents = 6
 
PROPERTIES PopupLeavesNoTrace ErrorHoldsKeyboard
CHECK_DEADLOCK FALSE

SPECIFICATION Spec
CONSTANTS
    None = None
    MaxScreenStack = 2
    MaxWindows = 2
    Rows = 4
    Cols = 5
    Records <- FormRecords
    Texts <- TypedTexts
    Keys = {"right", "Tab", "Backtab", "Home", "Insert", "Backspace", "Delete", "EraseEOF", "FieldExit", "Reset"}
    Attentions = {"Enter", "F3", "Clear", "Attn", "Print"}
    MaxRecords = 2
    MaxEvents = 5
INVARIANTS FormatIsSound
PROPERTIES EditsAreAnswered TypingIsConfined
CHECK_DEADLOCK FALSE

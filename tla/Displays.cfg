SPECIFICATION SessionSpec
CONSTANTS
    None = None
    Default3270 <- Tiny
    Alternate3270 <- Tall
    Records3270 <- Recs
    Texts3270 <- Txts
    Keys3270 = {"left", "up", "down", "Tab", "Backtab", "Home", "End", "Insert", "Reset", "Backspace", "Delete", "EraseEOF"}
    Attentions3270 = {"Enter", "PA1"}
    Events3270 = 4
    RowsVt = 3
    ColsVt = 4
    MinRun = 3
    Labels = {"P:"}
    Graphics = {"q"}
    NumbersVt <- VtNumbers
    ChunksVt <- VtChunks
    TextsVt <- VtTexts
    EventsVt = 3
    Rows = 2
    Cols = 3
    Numbers <- HpNumbers
    Chunks <- HpChunks
    Texts <- HpTexts
    MaxEvents = 5
    TabWidth = 2
PROPERTIES FormIsKept TerminalIsKept TypingIsKept
CHECK_DEADLOCK FALSE

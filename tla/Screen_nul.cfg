SPECIFICATION Spec
CONSTANTS
    Terminals = {0, 1}
    NUM_ROWS = 2
    NUM_COLS = 2
    LINE_MAX = 2
    Keys = {"k", "nul"}
    EraseVisible = FALSE
    Texts <- MCTexts
    Messages <- MCMessages
    Drawing = {"k"}
VIEW MCView
INVARIANT
    CursorOnPage
CHECK_DEADLOCK FALSE

SPECIFICATION Spec
CONSTANTS
    Terminals = {0, 1}
    NUM_ROWS = 2
    NUM_COLS = 2
    LINE_MAX = 2
    Keys = {"k", "nul"}
    EraseVisible = TRUE
    Texts <- MCTexts
    Messages <- MCMessages
    Drawing = {"k"}
VIEW MCView
INVARIANTS
    CursorOnPage
    TextBeforeCursor
    CursorShown
CHECK_DEADLOCK FALSE

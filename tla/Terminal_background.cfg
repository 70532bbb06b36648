SPECIFICATION Spec
CONSTANTS
    MAX_TERMINALS = 2
    KBRD_BUF_LENGTH = 3
    Letters = {"l"}
    ModKeys = {"alt"}
    ReadSizes = {1, 2, 4}
    Habits = {"prompt"}
    MarkerBound = 2
PROPERTIES
    EnterKeepsLine

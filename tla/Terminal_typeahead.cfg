SPECIFICATION Spec
CONSTANTS
    MAX_TERMINALS = 1
    KBRD_BUF_LENGTH = 3
    Letters = {"l"}
    ModKeys = {"alt"}
    ReadSizes = {3}
    Habits = {"foreground"}
    MarkerBound = 4
INVARIANTS
    LineFitsBuffer

SPECIFICATION FairSpec
CONSTANTS
    MAX_TERMINALS = 2
    KBRD_BUF_LENGTH = 3
    Letters = {"l"}
    ModKeys = {"alt", "lshift"}
    ReadSizes = {1, 2, 4}
    Habits = {"prompt", "foreground", "alt_only"}
    MarkerBound = 2
INVARIANTS
    TypeOK
    LockFollowsReader
    BufferEndsWithTyped
    FlagsFollowKeys
PROPERTIES
    ImplementsLineInput
    EnterKeepsLine
    ReadReturns

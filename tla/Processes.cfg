SPECIFICATION FairSpec
CONSTANTS
    MAX_OPEN_PROCESSES = 5
    NUM_TERMINALS = 3
    Statuses = {0}
INVARIANTS
    IInv
    TypeOK
    CurrentProcessCoherent
    OneLeafPerTerminal
    ParentsWaitForChildren
    OneContinuation
    ShellsSurvive
    OnlyShellsPreemptedInUser
PROPERTIES
    HaltResumesParent
    ImplementsTree
    EveryTerminalScheduled

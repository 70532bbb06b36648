SPECIFICATION Boot_FairSpec
CONSTANTS
    MAX_OPEN_PROCESSES = 3
    NUM_TERMINALS = 3
    Statuses = {0}
    Memory = {0}
PROPERTIES
    AllShellsStart

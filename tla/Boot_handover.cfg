SPECIFICATION Zeroed_Spec
CONSTANTS
    MAX_OPEN_PROCESSES = 5
    NUM_TERMINALS = 3
    Statuses = {0}
    Memory = {0, 1}
INVARIANTS
    NoGarbageResumed
    BootHandsOver
    BootInv
PROPERTIES
    EarlyTickIsFinal

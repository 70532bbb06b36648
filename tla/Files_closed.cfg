SPECIFICATION Spec
CONSTANTS
    None = None
    NAME_SIZE = 3
    NUM_DENTRIES = 5
    BLOCK_SIZE = 2
    WORD = 16
    dentries <- MCdentries
    inodes <- MCinodes
    data_blocks <- MCdata_blocks
    MAX_OPEN_FILES = 3
    STD_FILES = 2
    ARGS_SIZE = 4
    BUFSIZE = 2
    Magic <- MCMagic
    Names <- MCNames
    Commands <- MCCommands
    Sizes <- MCSizes
    Buffers <- MCBuffers
    Directories <- MCDirectories
    LookupNames <- MCLookupNames
    StdKept = FALSE
PROPERTY
    ReadClosedFails

\* A screen of two by three, a ring of three characters, blocks of four bytes,
\* pages of 16.
CONSTANTS
    cols = 2
    rows = 3
    TERM_TABSIZE = 8
    MAX_ESC_VALUES = 2
    BufSize = 3
    EarlyMsgs <- MCEarlyMsgs
    Messages <- MCMessages
    MaxEarly = 2
    MaxPrints = 3
    BlockSize = 4
    NameLen = 4
    NMajors = 1
    Archives <- MCArchives
    FileNames = {"aaa", "bbb"}
    DeviceNames = {"dk0", "dk1"}
    Drivers = {"disk", "console"}
    WriteSizes = {0, 2, 5}
    WriteOffs = {0, 3}
    BufSizes = {25, 50}
    MaxOps = 4
    Sector = 4
    DriveBlocks = 24
    MaxTransfer = 16
    DiskPage = 8
    PrpPerPage = 4
    EntrySize = 2
    Tables <- MCTables
    ReadSizes = {2, 4, 8, 12, 20, 32, 36, 64, 68}
    ReadOffs = {0, 2, 4, 8, 16, 60}
    MaxReads = 2
    ExecPage = 16
    RtldBase = 256
    StackTop = 1024
    Images <- MCImages
    Rtlds <- MCRtlds
    ArgVectors <- MCArgVectors
    MaxExecs = 2
SPECIFICATION Spec
INVARIANTS
    
    ScreenShowsGrid
    
    FilesAsWritten
    
    
    
    ProgramStarts
PROPERTIES
    ScrollKeepsRest
CHECK_DEADLOCK FALSE

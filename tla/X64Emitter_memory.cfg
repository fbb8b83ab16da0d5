\* realloc and mremap may fail.
SPECIFICATION FairSpec
CONSTANTS
    START_CAPACITY = 1
    AllocMayFail = TRUE
    MremapMayFail = TRUE
    IMM32_HALF = 4096
    LibAddr <- MCLibAddr
    Programs <- MemoryPrograms
    Outputs = {"BINARY"}
    BufAddrs = {5000}
    RamAddrs = {0}
    CODE_BASE_ADDR = 100
    RAM_BASE_ADDR = 500
    PAGE_SIZE = 16
INVARIANTS RoomForNext MappedToOwnGroup OkMeansMapped
PROPERTY Terminates

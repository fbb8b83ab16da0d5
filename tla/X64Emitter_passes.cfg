\* Both output modes; memory lasts, and mremap never moves the buffer.
SPECIFICATION Spec
CONSTANTS
    START_CAPACITY = 1
    AllocMayFail = FALSE
    MremapMayFail = FALSE
    IMM32_HALF = 4096
    LibAddr <- MCLibAddr
    Programs <- MCPrograms
    Outputs = {"BINARY", "JIT"}
    BufAddrs = {5000}
    RamAddrs = {600}
    CODE_BASE_ADDR = 100
    RAM_BASE_ADDR = 500
    PAGE_SIZE = 16
INVARIANTS TypeOK RoomForNext JumpsLand NoSpuriousError

\* JIT mode, and code that outgrows the first page.
SPECIFICATION Spec
CONSTANTS
    START_CAPACITY = 1
    AllocMayFail = FALSE
    MremapMayFail = FALSE
    IMM32_HALF = 4096
    LibAddr <- MCLibAddr
    Programs <- GrowingPrograms
    Outputs = {"JIT"}
    BufAddrs = {1000, 5000}
    RamAddrs = {0}
    CODE_BASE_ADDR = 100
    RAM_BASE_ADDR = 500
    PAGE_SIZE = 16
INVARIANTS JumpsLand

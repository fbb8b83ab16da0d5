\* Literals that do not fit a 32 bit immediate once scaled.
SPECIFICATION Spec
CONSTANTS
    START_CAPACITY = 1
    AllocMayFail = FALSE
    MremapMayFail = FALSE
    IMM32_HALF = 512
    LibAddr <- MCLibAddr
    Programs <- BigLiterals
    Outputs = {"BINARY"}
    BufAddrs = {5000}
    RamAddrs = {0}
    CODE_BASE_ADDR = 100
    RAM_BASE_ADDR = 500
    PAGE_SIZE = 16
INVARIANTS LiteralsExact

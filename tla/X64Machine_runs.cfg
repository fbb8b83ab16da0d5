\* The addresses and sizes of the source; half the range of 32 bits is 2^29.
SPECIFICATION MachineSpec
CONSTANTS
    START_CAPACITY = 16
    AllocMayFail = FALSE
    MremapMayFail = FALSE
    IMM32_HALF = 536870912
    LibAddr <- MCLibAddr
    Programs <- MCPrograms
    Outputs = {"BINARY", "JIT"}
    BufAddrs = {8388608}
    RamAddrs = {12582912}
    CODE_BASE_ADDR = 4202496
    RAM_BASE_ADDR = 4214784
    PAGE_SIZE = 4096
    RAMSIZE = 4096
    Typed <- MCTyped
INVARIANTS MachineTypeOK RamPointerKept OutputReadable
PROPERTY ExecutesIr

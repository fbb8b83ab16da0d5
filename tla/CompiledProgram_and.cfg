\* A conjunction of two numbers that are zero.
SPECIFICATION CompileAndRunSpec
CONSTANTS
    START_CAPACITY = 16
    AllocMayFail = FALSE
    nullptr = nullptr
    RAMSIZE = 4096
    InputValues <- MCInputs
    Nodes <- MCAndNodes
    Trees <- AndPrograms
INVARIANTS OutputMatches

\* A statement that is an expression, before a return.
SPECIFICATION CompileAndRunSpec
CONSTANTS
    START_CAPACITY = 16
    AllocMayFail = FALSE
    nullptr = nullptr
    RAMSIZE = 4096
    InputValues <- MCInputs
    Nodes <- MCStatementNodes
    Trees <- StatementPrograms
INVARIANTS ReturnsToCaller

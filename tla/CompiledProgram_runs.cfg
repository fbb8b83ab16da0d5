\* Programs of every construct, compiled and run.
SPECIFICATION FairCompileAndRunSpec
CONSTANTS
    START_CAPACITY = 16
    AllocMayFail = FALSE
    nullptr = nullptr
    RAMSIZE = 4096
    InputValues <- MCInputs
    Nodes <- MCNodes
    Trees <- MCTrees
INVARIANTS MachineTypeOK OutputMatches ReturnsToCaller
PROPERTY Finishes

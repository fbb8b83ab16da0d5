\* A global is used before it is declared, where the error is dropped.
SPECIFICATION Spec
CONSTANTS
    START_CAPACITY = 16
    AllocMayFail = FALSE
    nullptr = nullptr
    Nodes <- EarlyNodes
    Trees <- EarlyTrees
INVARIANTS LabelsAgree

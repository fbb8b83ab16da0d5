\* Programs that declare what they use; one that does not.
SPECIFICATION Spec
CONSTANTS
    START_CAPACITY = 16
    AllocMayFail = FALSE
    nullptr = nullptr
    Nodes <- MCNodes
    Trees <- MCTrees
INVARIANTS TypeOK LabelsAgree TransfersInside SlotsBelowFrame OperandsFilled ErrorsEmitNothing

\* Every call may fail; the dump may be damaged.
SPECIFICATION FairSpec
CONSTANTS
    nullptr = nullptr
    Nodes <- MCNodes
    Trees <- MCTrees
    Damages = {"none", "cut", "headed", "tailed"}
    CodeSizes = {7, 5000, 12288, 12289, 20000}
    Buffers = {0, 300, 4096}
INVARIANTS TypeOK OnlyWholeTrees FailureReported OkMeansComplete ImageInPlace
PROPERTIES Implements Ends

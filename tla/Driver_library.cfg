\* The library is not there.
SPECIFICATION Spec
CONSTANTS
    nullptr = nullptr
    Nodes <- MCNodes
    Trees <- MCTrees
    Damages = {"none", "cut", "headed", "tailed"}
    CodeSizes = {7, 5000, 12288, 12289}
    Buffers = {0, 300, 4096}
INVARIANT HoldsLibrary

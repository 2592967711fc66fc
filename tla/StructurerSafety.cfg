SPECIFICATION EmitSpec
CONSTANTS
    Size = 4
    Graphs <- McGraphs
INVARIANT OrderIsPermutation
INVARIANT OrderFollowsEdges
INVARIANT NaturalLoopsAreSeen
INVARIANT LoopsKeepBlocks
INVARIANT OneExitIsWhole

SPECIFICATION EmitSpec
CONSTANTS
    Size = 4
    Graphs <- McAcyclic
INVARIANT NothingLiveIsCut

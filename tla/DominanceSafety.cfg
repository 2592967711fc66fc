SPECIFICATION Spec
CONSTANTS
    Size = 4
    Graphs <- McGraphs
INVARIANT BodiesOfLatches
INVARIANT LatchesAreBackEdges
INVARIANT LoopsNest
 

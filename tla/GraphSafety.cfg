SPECIFICATION Spec
CONSTANTS
    Programs <- McPrograms
    Viewed <- McViewed
    Points <- McPoints
    Drags <- McDrags
    NodeW = 172
    NodeHMin = 34
    NodeHMax = 64
    StmtPerPx = 8
    HGap = 20
    VGap = 70
    Pad = 32
    Unit = 60
    ScaleOne = 2
    ScaleMax = 4
    MaxEvents = 5
CHECK_DEADLOCK FALSE
INVARIANT NodesApart
INVARIANT CallsGoDown
INVARIANT SitesAreCalls
INVARIANT HoverIsThere

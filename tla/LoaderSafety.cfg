SPECIFICATION LoaderSpec
CONSTANTS
    Programs <- McPrograms
    Files <- McFiles
    MaxTypeDepth = 2
    MinString = 2
    MaxString = 4
    Near = 3
INVARIANT NamesFollowTypes
INVARIANT TypesStandUnderRoots
INVARIANT TablesAreText
INVARIANT RecoveredAreDisjoint

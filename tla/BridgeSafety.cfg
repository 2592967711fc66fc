SPECIFICATION FairSpec
CONSTANTS
    f1 = f1
    f2 = f2
    Files = {f1, f2}
    Names <- McNames
    FunctionsOf <- McFunctions
    SectionsOf <- McSections
    NodesOf <- McNodes
    Languages = {"C", "Rust"}
    MaxLoads = 2
CHECK_DEADLOCK FALSE
INVARIANT ChannelInOrder
INVARIANT RowsAreSelectable
INVARIANT RowsEndTheOrder
INVARIANT SerialPanels
PROPERTY FeedSpec
PROPERTY PlaceholderGoesAway

SPECIFICATION Spec
CONSTANTS
    f1 = f1
    f2 = f2
    Files = {f1, f2}
    Names <- McNames
    FunctionsOf <- McFunctions
    SectionsOf <- McSections
    NodesOf <- McNodes
    Languages = {"C"}
    MaxLoads = 2
CHECK_DEADLOCK FALSE
INVARIANT ScriptIsOfTheFile

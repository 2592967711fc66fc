SPECIFICATION Spec
CONSTANTS
    Size = 3
    Programs <- McPrograms
INVARIANT BlocksTile
INVARIANT OnlyHolesLoseCode
INVARIANT FlowKept
INVARIANT EdgesAreFlow

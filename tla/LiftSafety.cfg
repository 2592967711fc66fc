SPECIFICATION FairSpec
CONSTANTS
    Programs <- McPrograms
    AbiRegs <- McAbi
    Alias <- McAlias
    ArgRegs <- McArgs
    SysRegs <- McSys
    Functions <- McFunctions
    Strings <- McStrings
    FailAddr = 41
    Arity <- McArity
INVARIANT TextDoesTheStatements
INVARIANT SingleAssignment
INVARIANT StatementsDoTheCode
INVARIANT ReadsAreDefined
INVARIANT EdgesFollowTerms
PROPERTY ConstantsKeepValues
PROPERTY PropagationIsCopy
PROPERTY PassesEnd

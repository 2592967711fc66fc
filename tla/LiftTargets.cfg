SPECIFICATION Spec
CONSTANTS
    Programs <- McPrograms
    AbiRegs <- McAbi
    Alias <- McAlias
    ArgRegs <- McArgs
    SysRegs <- McSys
    Functions <- McFunctions
    Strings <- McStrings
    FailAddr = 41
    Arity <- McArity
INVARIANT TargetsAreThere

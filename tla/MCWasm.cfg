CONSTANTS
    ByteBits = 1
    Signatures <- MCSignatures
    FuncTypes <- MCFuncTypes
    Globals <- MCGlobals
    Table <- MCTable
    TypeOf <- MCTypeOf
    InitialValueStack = 4
    PageSize = 10
    MaxPages = 2
    MaxSteps = 24
    Profiles = {"i32", "i64", "convert", "branch", "loop", "loop64", "call", "memory", "memory64", "bulk", "nomemory", "misc", "loader"}
    MaxItems = 2
    MaxRef = 1
    LoaderPage = 3
SPECIFICATION WSpec
INVARIANTS  RunsAsWritten 
CHECK_DEADLOCK FALSE

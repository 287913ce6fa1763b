SPECIFICATION Spec
CONSTANTS
    NONE = NONE
    Env <- DeclaredEnv
    StackN <- MCStackN
    SameBytes <- MCSameBytes
    Programs <- Increments
    Memory <- MCMemory
    Base <- MCBase
    InitMem <- MCInitMem
    Result <- MCResult
    Function <- MCFunction
    Store0 <- FullStore
    Strings <- MCStrings
INVARIANTS Computes

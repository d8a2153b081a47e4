CONSTANTS
    K <- MCK3
    Shapes <- MCShapes
    Values <- MCValues
    AppErrors <- MCAppErrors
    SerialUse = TRUE
    Abandon = TRUE
    UseGet = TRUE
    KeepFutures = FALSE
    Retry = TRUE
    None = None
SPECIFICATION Spec
INVARIANT TypeOK
INVARIANT NoStrandedContinuation
PROPERTY ChainRefinement
PROPERTY FinalResolved

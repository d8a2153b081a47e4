CONSTANTS
    K <- MCK
    Shapes <- MCShapes
    Values <- MCValues
    AppErrors <- MCAppErrors
    SerialUse = FALSE
    Abandon = FALSE
    UseGet = FALSE
    KeepFutures = FALSE
    Retry = FALSE
    None = None
SPECIFICATION Spec
INVARIANT ContinuationSeesResult

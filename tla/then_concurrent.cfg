CONSTANTS
    K <- MCK
    Shapes <- MCAllShapes
    Values <- MCValues
    AppErrors <- MCAppErrors
    SerialUse = FALSE
    Abandon = TRUE
    UseGet = FALSE
    KeepFutures = FALSE
    Retry = TRUE
    None = None
SPECIFICATION Spec
INVARIANT ContinuationRunsAtMostOnce

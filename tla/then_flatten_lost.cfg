CONSTANTS
    K <- MCK
    Shapes <- MCAllShapes
    Values <- MCValues
    AppErrors <- MCAppErrors
    SerialUse = TRUE
    Abandon = FALSE
    UseGet = FALSE
    KeepFutures = FALSE
    Retry = FALSE
    None = None
SPECIFICATION Spec
INVARIANT NoStrandedContinuation

CONSTANTS
    K <- MCK
    Shapes <- MCShapes
    Values <- MCValues
    AppErrors <- MCAppErrors
    SerialUse = TRUE
    Abandon = TRUE
    UseGet = FALSE
    KeepFutures = TRUE
    Retry = FALSE
    None = None
SPECIFICATION Spec
PROPERTY FinalResolved

CONSTANTS
    Results = {r1, r2, v1, v2}
    VoidResults = {v1, v2}
    Dummy = Dummy
    Tmp = Tmp
    TVals = {t1, t2}
    Errs <- MCErrs
    Invalid = Invalid
    Moved = Moved
    Terminate = Terminate
    NoExceptions = FALSE
    NullDeref = NullDeref
    MaxOps <- MCMaxOps
SPECIFICATION Spec
INVARIANT TypeOK
INVARIANT ObserversMatchSpec
INVARIANT BindMatchesSpec

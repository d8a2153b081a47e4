CONSTANTS
    Vars = {a, b}
    Tmp = Tmp
    Alts <- MCAlts
    Vals <- MCVals
    Invalid = Invalid
    Moved = Moved
    MaxOps <- MCMaxOps
SPECIFICATION Spec
INVARIANT ElementsDestroyed

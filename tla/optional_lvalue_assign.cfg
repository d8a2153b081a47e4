CONSTANTS
    Opts = {o1, o2}
    Vals <- MCVals
    Calls <- AllCalls
    Null = Null
    MaxOps <- MCMaxOps
SPECIFICATION Spec
PROPERTY SourcesUntouched

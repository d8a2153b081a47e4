CONSTANTS
    Universe <- MCUniverse
    MaxTypes <- MCMaxTypes
    InvalidIndex = InvalidIndex
    SizeOf <- MCSizeOf
    AlignOf <- MCAlignOf
SPECIFICATION Spec
INVARIANT ConvertingCtorSelects
INVARIANT ConstructThenGet
INVARIANT LogicalTraitsMatchStd
INVARIANT StorageFitsAlternatives

SPECIFICATION Spec
CONSTANT MaxFragments = 4
CHECK_DEADLOCK FALSE
INVARIANTS BracketNeedsNoEscape LookupFindsEveryPath

SPECIFICATION Spec
CONSTANT MaxFragments = 4
CHECK_DEADLOCK FALSE
INVARIANTS FormattedParsesBack EscapedValueSurvives ReadersAgree MergeFollowsDepth LookupFollowsPath

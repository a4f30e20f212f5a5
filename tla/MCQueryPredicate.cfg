SPECIFICATION Spec
CONSTANTS
    Null = Null
    Columns <- MCColumns
    Strings <- MCStrings
    Pointers <- MCPointers
    Literals <- MCLiterals
    Qualified <- MCQualified
    MaxConditions = 3
INVARIANTS ParserAccepts  MatchesLikeSql FieldsSuffice PinnedValues
CHECK_DEADLOCK FALSE

SPECIFICATION Spec
CONSTANTS
    CR = 13
    LF = 10
    Strings <- MCStrings
    Composed <- MCComposed
    MaxLength = 3
    MaxActions = 3
    MaxDepth = 1
INVARIANTS
    TypeOK
    HistoryReplays
    SavePointMeansSaved
    ModifiedTracked
    LinesMatch
PROPERTIES
    KeepsTextHistory

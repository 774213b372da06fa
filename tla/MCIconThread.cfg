SPECIFICATION Spec
CONSTANTS
    MaxThreads = 3
    MaxItems = 2
    MaxDepth = 2
INVARIANTS TypeOK TerminationPending
PROPERTIES CommandsEnd AllIcons
CHECK_DEADLOCK FALSE

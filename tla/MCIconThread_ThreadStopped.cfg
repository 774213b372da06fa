SPECIFICATION Spec
CONSTANTS
    MaxThreads = 3
    MaxItems = 2
    MaxDepth = 2
INVARIANT ThreadStopped
CHECK_DEADLOCK FALSE

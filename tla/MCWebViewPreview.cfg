SPECIFICATION Spec
CONSTANTS
    Texts = {t1, t2}
    MaxPosted = 2
    MaxLoops = 2
INVARIANTS
    TypeOK
    WindowsFollowMode
    PreviewShowsText
    OneWebView
PROPERTIES
    CreationEnds
    FindSearches
CHECK_DEADLOCK FALSE

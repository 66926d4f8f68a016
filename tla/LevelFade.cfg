SPECIFICATION FadeSpec
CONSTANTS
    LastLevel = 3
    MaxNotices = 3
INVARIANT ShownLevelRight
PROPERTY DarkEnds

SPECIFICATION FairSpec
CONSTANTS
    Width = 3
    Colours = {0, 1}
    Black = 0
    Shapes = {1, 2}
    None = 0
    MaxChanges = 3
INVARIANTS TypeOK SegmentKept NothingLost
PROPERTY ScreenFollowed
CHECK_DEADLOCK FALSE

SPECIFICATION FairSpec
CONSTANTS
    Width = 2
    Colours = {0, 1}
    Black = 0
    Shapes = {1, 2, 3}
    None = 0
    Hidden = 3
    Layouts <- SomeLayouts
    MaxChanges = 2
INVARIANTS TypeOK HeldOnce NothingLost
PROPERTY DesktopFollowed
CHECK_DEADLOCK FALSE

SPECIFICATION FairSpec
CONSTANTS
    Width = 2
    Colours = {0, 1}
    Black = 0
    Unknown = 9
    Sizes = {1, 2}
    Strokes <- Dab
    Scrolls <- NoScrolls
    Shapes = {1}
    None = 0
    Lists <- FollowLists
    Requests <- Two
    Streams <- Nowhere
    Backlog = 1
    MaxFrames = 3
 
PROPERTY PictureCatchesUp
CHECK_DEADLOCK FALSE

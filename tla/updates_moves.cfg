SPECIFICATION Spec
CONSTANTS
    Width = 3
    Colours = {0, 1}
    Black = 0
    Unknown = 9
    Sizes = {2, 3}
    Strokes <- OneDab
    Scrolls <- AllScrolls
    Shapes = {}
    None = 0
    Lists <- MoveLists
    Requests <- Part
    Streams <- Whole
    Backlog = 1
    MaxFrames = 3
INVARIANTS TypeOK PictureOwed CopiesApart 
CHECK_DEADLOCK FALSE

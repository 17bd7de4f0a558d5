SPECIFICATION Spec
CONSTANTS
    Width = 5
    Height = 4
    Areas <- MCAreas
    Paintings <- MCPaintings
    Formats <- MCFormats
    Lists <- MCLists
    Backlog = 2
    MaxDraws = 1
    MaxChanges = 2
    MaxUpdates = 2
    HexTile = 3
    TooMany = 5
    MaxSubrects = 3
    ZrleTile = 4
    ZrleMaxPalette = 4
    PackedMax = 3
    RunByte = 2
    MaxWidth = 3
    MaxPixels = 8
    MinToCompress = 4
    MinForJpeg = 6
    TightMaxPalette = 3
INVARIANTS Readable PictureAsAsked 
CHECK_DEADLOCK FALSE

SPECIFICATION Spec
CONSTANTS
    Sizes <- TwoSizes
    Colours = {0, 1}
    Blank = 9
    Segment = 2
    MinRun = 1
    MinVotes = 2
    Probes = 2
    Strokes <- SomeStrokes
    Shifts <- AnyShift
    Careful = TRUE
INVARIANTS Reproduced HashesAreSeen NothingWasted
CHECK_DEADLOCK FALSE

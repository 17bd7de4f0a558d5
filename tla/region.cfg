SPECIFICATION Calls
CONSTANTS
    Columns = 3
    Rows = 3
INVARIANTS AnswersLikePixels OneForm
CHECK_DEADLOCK FALSE

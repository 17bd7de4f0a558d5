SPECIFICATION Spec
CONSTANTS
    shift_l = shift_l
    shift_r = shift_r
    lower = lower
    upper = upper
    euro = euro
    check = check
    tick = tick
    left = left
    NoSymbol = NoSymbol
    Keysyms = {shift_l, shift_r, lower, upper, euro, check, tick, left}
    ShiftKeysyms = {shift_l, shift_r}
    Upper <- MCUpper
    Keys <- MCKeys
    Layouts <- MCLayouts
    Buttons = {1}
    ShiftKey = 1
    Named = {shift_l, shift_r, left}
    LeftShift = 1
    RightShift = 2
INVARIANTS TypeOK KeyboardAgrees X11LoansKept TypesWhatWasAsked
CHECK_DEADLOCK FALSE

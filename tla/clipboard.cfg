SPECIFICATION FairSpec
CONSTANTS
    plain = plain
    wide = wide
    Sessions = {s1}
    s1 = s1
    long = long
    Texts = {plain, wide, long}
    Latin = {plain}
    Long = {long}
    Marks = Marks
    Cut = Cut
    None = None
    MaxSends = 2
    MaxCopies = 2
    WaitPolls = 2
INVARIANTS TypeOK   OwnText
PROPERTY Settles
CHECK_DEADLOCK FALSE

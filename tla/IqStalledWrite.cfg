CONSTANTS
    Calls = {c1, c2}
    Inline = {}
    AppIDs = {a}
    NoCall = NoCall
    MaxSent = 1
    CanStall = TRUE
SPECIFICATION FairSpec
PROPERTIES CallsReturn
CHECK_DEADLOCK FALSE

CONSTANTS
    Calls = {c1, h}
    Inline = {h}
    AppIDs = {}
    NoCall = NoCall
    MaxSent = 2
    CanStall = FALSE
SPECIFICATION FairSpec
PROPERTIES CallsReturn ReaderProgress ImplementsIqCall
CHECK_DEADLOCK FALSE

CONSTANTS
    Calls = {c1, c2, h}
    Inline = {h}
    AppIDs = {a}
    NoCall = NoCall
    MaxSent = 2
    CanStall = TRUE
SPECIFICATION Spec
INVARIANTS TypeOK PendingOwned OwnAnswer InlineNeverAnswered
CHECK_DEADLOCK FALSE

CONSTANTS
    Senders = {s1, s2}
    Modulus = 2
    MaxSend = 3
    MaxServer = 3
    MaxDrops = 1
SPECIFICATION Spec
SYMMETRY MCSymmetry
INVARIANTS UnackedRetained
CHECK_DEADLOCK FALSE

CONSTANTS
    Senders = {s1, s2}
    Modulus = 2
    MaxSend = 2
    MaxServer = 3
    MaxDrops = 1
    JIDs = {a, b}
    Values = {x, y}
    Gets = {g1, g2}
    Gone = Gone
    MaxChanges = 3
    MaxStrange = 1
    Contacts = {a, b}
    BlockLists = {l1, l2}
    Sets = {u1, u2, u3}
    MaxBlockChanges = 2
    MaxBlockStrange = 1
    Rooms = {"r", "s"}
    Marks <- MCMarks
    Lists <- MCLists
    MaxBookmarkCalls = 3
    MaxForeign = 1
    StoreCalls = {c1, c2}
    Keys = {k1, k2}
    DeviceIDs = {1, 2}
    Nobody = Nobody
    MaxPuts = 2
    MaxCrashes = 1
    MaxDiskFails = 1
    Accounts = {"c", "own"}
    Own = "own"
    Devices <- MCDevices
    JIDOf <- MCJIDOf
    Me = "me"
    Policy = "blind-before-verification"
    Encrypts = {e1}
    Publishes = {p1, p2}
    MaxDecisions = 1
    MaxListNews = 2
SPECIFICATION MCSpec
INVARIANTS OrderlyRetained NotOverstated OrderlySound BlockListExact SwitchesRecover BookmarksExact AckedDurable OwnAgrees TrustRespected DevicesKept
CHECK_DEADLOCK FALSE

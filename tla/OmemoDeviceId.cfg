CONSTANTS
    StoreCalls = {c1, c2}
    Keys = {k1}
    DeviceIDs = {1, 2}
    Nobody = Nobody
    MaxPuts = 0
    MaxCrashes = 1
    MaxDiskFails = 1
SPECIFICATION StoreSpec
INVARIANTS OwnStable
CHECK_DEADLOCK FALSE

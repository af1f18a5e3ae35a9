CONSTANTS
    i1 = i1
    i2 = i2
    Instances <- MCInstances1
    Shipped <- MCStockOnly
    MaxLaunches = 2
    CrashPossible = FALSE
SPECIFICATION Spec
INVARIANT RefreshFills
CHECK_DEADLOCK FALSE

CONSTANTS
    i1 = i1
    i2 = i2
    Instances <- MCInstances1
    Shipped <- MCStockOnly
    MaxLaunches = 3
    CrashPossible = FALSE
SPECIFICATION Spec
INVARIANT PatchAppliedOnce
CHECK_DEADLOCK FALSE

CONSTANTS
    i1 = i1
    i2 = i2
    Instances <- MCInstances2
    Shipped <- MCStockOnly
    MaxLaunches = 3
    CrashPossible = FALSE
SPECIFICATION Spec
INVARIANT ScriptIntact
CHECK_DEADLOCK FALSE

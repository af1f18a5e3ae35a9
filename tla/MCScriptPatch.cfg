CONSTANTS
    i1 = i1
    i2 = i2
    Instances <- MCInstances2
    Shipped <- MCShipped
    MaxLaunches = 4
    CrashPossible = TRUE
SPECIFICATION Spec
SYMMETRY MCSymmetry
INVARIANT PatchAtomicOnDisk
CHECK_DEADLOCK FALSE

CONSTANTS
    p1 = p1
    p2 = p2
    p3 = p3
    NoProc = NoProc
    Procs <- MCProcs3
    ExitCodes <- MCExitCodes
    KillCode <- MCKillCode
SYMMETRY MCSymmetry
SPECIFICATION Spec
INVARIANTS
    TypeOK
    RegistryConsistent
    CleanExitStopsRegistered
PROPERTIES
    ReplaceStopsOld

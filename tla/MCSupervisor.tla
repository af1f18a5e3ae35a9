---------------------------- MODULE MCSupervisor ----------------------------
(* Model-checking instance of Supervisor: QProcess identities as model    *)
(* values, a zero and a non-zero exit code, SIGKILL reported as 9 (a      *)
(* child may also exit with 9 on its own).                                *)
EXTENDS SupervisorLifecycle, TLC

CONSTANTS p1, p2, p3

MCProcs3 == {p1, p2, p3}

MCProcs2 == {p1, p2}

MCKillCode == 9

MCExitCodes == {0, MCKillCode}

\* Children that only ever exit cleanly on their own: a non-zero code can
\* then only come from kill().
MCCleanExitCodes == {0}

\* Process identities are interchangeable: nothing compares them but "=".
MCSymmetry == Permutations(MCProcs3)
=============================================================================

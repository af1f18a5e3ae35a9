------------------------- MODULE SupervisorLifecycle -------------------------
(***************************************************************************)
(* The refinement mapping from the supervisor of miraclecast-gui.py to    *)
(* RoleLifecycle: a role's entry is empty when self.processes has no key  *)
(* for it, and otherwise the phase of the registered QProcess's child.    *)
(***************************************************************************)
EXTENDS Supervisor

\* The phase of a registered child: a killed child that has not died yet is
\* "killed"; an exited child is "ended" whether or not Qt reported it.
Phase(s) ==
    CASE s = "running" -> "running"
      [] s = "dying"   -> "killed"
      [] OTHER         -> "ended"

entryBar == [r \in Roles |-> IF processes[r] = NoProc THEN "none"
                             ELSE Phase(pst[processes[r]])]

Lifecycle == INSTANCE RoleLifecycle WITH host <- gui, entry <- entryBar

(***************************************************************************)
(* The supervisor keeps each role's registry entry within the lifecycle   *)
(* spec.md describes: only a start (run_command) puts a running process   *)
(* in an entry, stop_*_service and cleanup_on_exit leave it ended or      *)
(* killed and never running, nothing but the OS ends a killed process,    *)
(* and a killed process does end.                                          *)
(***************************************************************************)
ImplementsLifecycle == Lifecycle!LSpec

=============================================================================

---------------------------- MODULE RoleLifecycle ----------------------------
(***************************************************************************)
(* What the process supervisor promises about each role's registry entry, *)
(* without QProcess objects, exit codes or labels: the operations of      *)
(* spec.md section 4 (start, stop, a process exiting on its own,          *)
(* shutdownAll) and the life of the host application.                     *)
(*                                                                         *)
(* An entry is "none" (no process registered), "running", "killed" (the   *)
(* forced stop has been sent and the OS has not yet acted on it) or       *)
(* "ended" (its process has exited).  A start puts a running process in   *)
(* the entry or leaves it empty when the launch failed; a stop ends the   *)
(* process or leaves it killed; only the OS ends a killed process.        *)
(***************************************************************************)
CONSTANT Roles

VARIABLES
    host,   \* "up", or how the host application ended: "exited" / "crashed"
    entry   \* role -> phase of its registry entry

avars == <<host, entry>>

Phases == {"none", "running", "killed", "ended"}

\* What a graceful-then-forced stop can leave of a registered process.
StopOutcomes(e) == IF e \in {"running", "killed"} THEN {"killed", "ended"} ELSE {"ended"}

LTypeOK ==
    /\ host \in {"up", "exited", "crashed"}
    /\ entry \in [Roles -> Phases]

LInit ==
    /\ host = "up"
    /\ entry = [r \in Roles |-> "none"]

Start(r) ==
    /\ host = "up"
    /\ \E e \in {"running", "none"} : entry' = [entry EXCEPT ![r] = e]
    /\ UNCHANGED host

Stop(r) ==
    /\ host = "up"
    /\ entry[r] # "none"
    /\ \E e \in StopOutcomes(entry[r]) : entry' = [entry EXCEPT ![r] = e]
    /\ UNCHANGED host

\* The role's process exits on its own; the host need not be up.
Exit(r) ==
    /\ entry[r] = "running"
    /\ entry' = [entry EXCEPT ![r] = "ended"]
    /\ UNCHANGED host

\* A forced kill takes effect.
KillTakesEffect(r) ==
    /\ entry[r] = "killed"
    /\ entry' = [entry EXCEPT ![r] = "ended"]
    /\ UNCHANGED host

\* shutdownAll: every registered process is stopped as by Stop.
ShutdownAll ==
    /\ host = "up"
    /\ host' = "exited"
    /\ \E f \in [Roles -> Phases] :
         /\ \A r \in Roles :
               f[r] \in IF entry[r] = "none" THEN {"none"} ELSE StopOutcomes(entry[r])
         /\ entry' = f

\* The host dies without running shutdownAll; entries are left as they are.
HostCrash ==
    /\ host = "up"
    /\ host' = "crashed"
    /\ UNCHANGED entry

\* The host application is started again with an empty registry.
HostStart ==
    /\ host # "up"
    /\ host' = "up"
    /\ entry' = [r \in Roles |-> "none"]

LNext ==
    \/ \E r \in Roles : Start(r) \/ Stop(r) \/ Exit(r) \/ KillTakesEffect(r)
    \/ ShutdownAll \/ HostCrash \/ HostStart

\* A forced kill is not ignored by the OS.
LSpec == LInit /\ [][LNext]_avars /\ \A r \in Roles : WF_avars(KillTakesEffect(r))

=============================================================================

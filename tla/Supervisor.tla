----------------------------- MODULE Supervisor -----------------------------
(***************************************************************************)
(* The process supervision of src/miraclecast-gui.py: the registry        *)
(* self.processes (role -> QProcess), the two status labels, the child     *)
(* processes the GUI launches through QProcess, and the life of the GUI    *)
(* process itself (clean exit through atexit, crash, launch again).        *)
(*                                                                         *)
(* Every GUI handler runs on the Qt main thread and is one atomic step:    *)
(* waitForStarted/waitForFinished block the event loop, so no click and no *)
(* signal of another process is handled in the middle of a handler.  The  *)
(* only signal delivered inside a handler is the finished() signal of the *)
(* process being waited for; its effect on the label is overwritten by    *)
(* the handler itself, so it shows only as the process becoming "done".   *)
(* The operating system runs concurrently: a child exits on its own, a    *)
(* killed child dies some time after kill(), a launch that timed out may  *)
(* still start.                                                            *)
(***************************************************************************)
EXTENDS Naturals, FiniteSets

CONSTANTS
    Procs,      \* identities of QProcess objects / OS children (the bound)
    NoProc,     \* "role not in self.processes"
    ExitCodes,  \* exit codes a child may return when it exits on its own
    KillCode    \* exit code Qt reports for a child killed by SIGKILL

ASSUME ConstantsAssumption ==
    /\ NoProc \notin Procs
    /\ ExitCodes \subseteq Nat
    /\ 0 \in ExitCodes
    /\ KillCode \in Nat \ {0}

\* The two keys the code uses for self.processes and the two labels.
Roles == {"sink", "source"}

Labels == {"Not Running", "Running", "Start Failed", "Error"}

(***************************************************************************)
(* Life of a child as the GUI sees it:                                     *)
(*   free      slot unused (no QProcess object)                            *)
(*   starting  launched, waitForStarted timed out, exec not yet confirmed  *)
(*   running   started, not signalled                                      *)
(*   dying     kill() sent, the OS has not yet reaped it                   *)
(*   dead      exited, its finished() not yet delivered by the event loop  *)
(*   done      exit observed (finished delivered, or reaped after the GUI  *)
(*             went away)                                                   *)
(*   failed    never started                                               *)
(***************************************************************************)
PStates == {"free", "starting", "running", "dying", "dead", "done", "failed"}

\* States in which the child's OS process is alive (not yet exited).
LiveStates == {"starting", "running", "dying"}

VARIABLES
    gui,        \* "up", or how the GUI process ended: "exited" / "crashed"
    processes,  \* self.processes: role -> registered process or NoProc
    label,      \* sink_status_label / source_status_label texts
    pst,        \* state of each child
    prole,      \* role name captured by the child's finished() lambda
    pcode,      \* exit code of a dead child, until Qt reads it
    pchild      \* TRUE while the child's signals reach the running GUI

vars == <<gui, processes, label, pst, prole, pcode, pchild>>

Registered == {processes[r] : r \in Roles} \ {NoProc}

\* QProcess objects the model may hand out for a new launch.
FreeSlots == {p \in Procs : pst[p] \in {"free", "done", "failed"} /\ p \notin Registered}

(***************************************************************************)
(* terminate(); if not waitForFinished(t): kill().  A running or dying     *)
(* child either exits within t (finished is emitted inside the wait, the   *)
(* child is "done") or is killed and left dying.  A dead child's pending  *)
(* death is consumed by the wait.  A finished child (state NotRunning)    *)
(* makes the wait return False at once and kill() does nothing.           *)
(***************************************************************************)
\* Seeded fault: kill() after the grace period is missing (used by the
\* seeded fault of cleanup_on_exit).
StoppedNoKill(s, graceful) ==
    CASE s \in {"running", "dying"} -> IF graceful THEN "done" ELSE s
      [] s = "dead"                 -> "done"
      [] OTHER                      -> s

Stopped(s, graceful) ==
    CASE s \in {"running", "dying"} -> IF graceful THEN "done" ELSE "dying"
      [] s = "dead"                 -> "done"
      [] OTHER                      -> s

(***************************************************************************)
(* The exit code is only read by process_finished; the model forgets it   *)
(* (resets it to 0) as soon as the child is no longer dead.               *)
(***************************************************************************)
ForgetCodes == pcode' = [p \in Procs |-> IF pst'[p] = "dead" THEN pcode[p] ELSE 0]

(***************************************************************************)
(* build_universal_cmd returns None only for the source role, when a      *)
(* resolution, FPS or bitrate field holds an out-of-range number.         *)
(***************************************************************************)
CmdValid(r) == IF r = "source" THEN BOOLEAN ELSE {TRUE}

Init ==
    /\ gui = "up"
    /\ processes = [r \in Roles |-> NoProc]
    /\ label = [r \in Roles |-> "Not Running"]
    /\ pst = [p \in Procs |-> "free"]
    /\ prole = [p \in Procs |-> "sink"]
    /\ pcode = [p \in Procs |-> 0]
    /\ pchild = [p \in Procs |-> FALSE]

(***************************************************************************)
(* start_sink_service / start_source_service with a selected interface   *)
(* whose command builder returned None: run_command logs and returns, and *)
(* the handler still sets the label to "Running".                         *)
(***************************************************************************)
StartRejected(r) ==
    /\ gui = "up"
    /\ FALSE \in CmdValid(r)
    /\ label' = [label EXCEPT ![r] = "Running"]
    /\ UNCHANGED <<gui, processes, pst, prole, pcode, pchild>>

(***************************************************************************)
(* start_sink_service / start_source_service with a valid command: the    *)
(* whole of run_command (stop the registered process, register a new      *)
(* QProcess, start it and wait up to 5 s, drop it from the registry if it *)
(* did not start), then the handler's label "Running".  outcome is what   *)
(* waitForStarted saw: the child started, failed to start, or was not yet *)
(* confirmed when the timeout expired.                                    *)
(***************************************************************************)
\* Seeded faults for mutation runs: the timed-out or failed launch is not
\* popped from self.processes; the registered process is not stopped first.
StartServiceNoPop(r) ==
    /\ gui = "up"
    /\ \E q \in FreeSlots, graceful \in BOOLEAN,
          outcome \in {"running", "failed", "starting"} :
         /\ pst' = [p \in Procs |->
                      IF p = q THEN outcome
                      ELSE IF p = processes[r] THEN Stopped(pst[p], graceful)
                      ELSE pst[p]]
         /\ prole' = [prole EXCEPT ![q] = r]
         /\ pchild' = [pchild EXCEPT ![q] = TRUE]
         /\ processes' = [processes EXCEPT ![r] = q]
    /\ label' = [label EXCEPT ![r] = "Running"]
    /\ ForgetCodes
    /\ UNCHANGED gui

StartServiceNoStop(r) ==
    /\ gui = "up"
    /\ \E q \in FreeSlots, outcome \in {"running", "failed", "starting"} :
         /\ pst' = [pst EXCEPT ![q] = outcome]
         /\ prole' = [prole EXCEPT ![q] = r]
         /\ pchild' = [pchild EXCEPT ![q] = TRUE]
         /\ processes' = [processes EXCEPT ![r] =
                            IF outcome = "running" THEN q ELSE NoProc]
    /\ label' = [label EXCEPT ![r] = "Running"]
    /\ ForgetCodes
    /\ UNCHANGED gui

StartService(r) ==
    /\ gui = "up"
    /\ \E q \in FreeSlots, graceful \in BOOLEAN,
          outcome \in {"running", "failed", "starting"} :
         /\ pst' = [p \in Procs |->
                      IF p = q THEN outcome
                      ELSE IF p = processes[r] THEN Stopped(pst[p], graceful)
                      ELSE pst[p]]
         /\ prole' = [prole EXCEPT ![q] = r]
         /\ pchild' = [pchild EXCEPT ![q] = TRUE]
         /\ processes' = [processes EXCEPT ![r] =
                            IF outcome = "running" THEN q ELSE NoProc]
    /\ label' = [label EXCEPT ![r] = "Running"]
    /\ ForgetCodes
    /\ UNCHANGED gui

(***************************************************************************)
(* stop_sink_service / stop_source_service of a registered role: stop the *)
(* process (3 s grace, then kill) and set the label to "Not Running".  The *)
(* entry stays in self.processes.  With no entry the handler does nothing. *)
(***************************************************************************)
StopService(r) ==
    /\ gui = "up"
    /\ processes[r] # NoProc
    /\ \E graceful \in BOOLEAN :
         pst' = [pst EXCEPT ![processes[r]] = Stopped(@, graceful)]
    /\ label' = [label EXCEPT ![r] = "Not Running"]
    /\ ForgetCodes
    /\ UNCHANGED <<gui, processes, prole, pchild>>

(***************************************************************************)
(* process_finished, run by the event loop for a child whose death the    *)
(* GUI has not yet consumed.  It is keyed by the role name captured when   *)
(* the child was launched, whatever process the role holds now.           *)
(***************************************************************************)
\* Seeded fault: a label text outside the four the UI uses.
ProcessFinishedStoppedText(p) ==
    /\ gui = "up"
    /\ pchild[p]
    /\ pst[p] = "dead"
    /\ pst' = [pst EXCEPT ![p] = "done"]
    /\ label' = [label EXCEPT ![prole[p]] =
                   IF pcode[p] # 0 THEN "Error" ELSE "Stopped"]
    /\ ForgetCodes
    /\ UNCHANGED <<gui, processes, prole, pchild>>

ProcessFinished(p) ==
    /\ gui = "up"
    /\ pchild[p]
    /\ pst[p] = "dead"
    /\ pst' = [pst EXCEPT ![p] = "done"]
    /\ label' = [label EXCEPT ![prole[p]] =
                   IF pcode[p] # 0 THEN "Error" ELSE "Not Running"]
    /\ ForgetCodes
    /\ UNCHANGED <<gui, processes, prole, pchild>>

(***************************************************************************)
(* Operating system: a running child exits on its own with some code.     *)
(* A child of a GUI that is gone is reaped by init.                       *)
(***************************************************************************)
ProcessExits(p) ==
    /\ pst[p] = "running"
    /\ \E c \in ExitCodes :
         /\ pcode' = [pcode EXCEPT ![p] = c]
         /\ pst' = [pst EXCEPT ![p] = IF pchild[p] THEN "dead" ELSE "done"]
    /\ UNCHANGED <<gui, processes, label, prole, pchild>>

\* Operating system: SIGKILL takes effect on a dying child.
KillLands(p) ==
    /\ pst[p] = "dying"
    /\ pcode' = [pcode EXCEPT ![p] = KillCode]
    /\ pst' = [pst EXCEPT ![p] = IF pchild[p] THEN "dead" ELSE "done"]
    /\ UNCHANGED <<gui, processes, label, prole, pchild>>

\* Operating system: a launch whose waitForStarted timed out completes late.
LateStart(p) ==
    /\ pst[p] = "starting"
    /\ \E s \in {"running", "failed"} : pst' = [pst EXCEPT ![p] = s]
    /\ UNCHANGED <<gui, processes, label, prole, pcode, pchild>>

(***************************************************************************)
(* The event loop returns (window closed), sys.exit runs the atexit hook   *)
(* cleanup_on_exit: every registered process whose state is not           *)
(* NotRunning is terminated, waited for 2 s and killed.  Children whose    *)
(* death was not yet consumed are reaped by init afterwards.               *)
(***************************************************************************)
\* Seeded fault: cleanup_on_exit without the kill() after its 2 s wait.
CleanupOnExitNoKill ==
    /\ gui = "up"
    /\ gui' = "exited"
    /\ \E graceful \in [Procs -> BOOLEAN] :
         pst' = [p \in Procs |->
                   LET s == IF p \in Registered THEN StoppedNoKill(pst[p], graceful[p])
                            ELSE pst[p]
                   IN  IF s = "dead" THEN "done" ELSE s]
    /\ pchild' = [p \in Procs |-> FALSE]
    /\ ForgetCodes
    /\ UNCHANGED <<processes, label, prole>>

CleanupOnExit ==
    /\ gui = "up"
    /\ gui' = "exited"
    /\ \E graceful \in [Procs -> BOOLEAN] :
         pst' = [p \in Procs |->
                   LET s == IF p \in Registered THEN Stopped(pst[p], graceful[p])
                            ELSE pst[p]
                   IN  IF s = "dead" THEN "done" ELSE s]
    /\ pchild' = [p \in Procs |-> FALSE]
    /\ ForgetCodes
    /\ UNCHANGED <<processes, label, prole>>

(***************************************************************************)
(* The GUI process dies without running atexit hooks: killed by a signal, *)
(* or aborted by PyQt on an exception escaping a slot.  Its children live *)
(* on.                                                                    *)
(***************************************************************************)
Crash ==
    /\ gui = "up"
    /\ gui' = "crashed"
    /\ pst' = [p \in Procs |-> IF pst[p] = "dead" THEN "done" ELSE pst[p]]
    /\ pchild' = [p \in Procs |-> FALSE]
    /\ ForgetCodes
    /\ UNCHANGED <<processes, label, prole>>

\* The GUI is started again: MiracleCastGUI() with an empty registry.
Launch ==
    /\ gui # "up"
    /\ gui' = "up"
    /\ processes' = [r \in Roles |-> NoProc]
    /\ label' = [r \in Roles |-> "Not Running"]
    /\ UNCHANGED <<pst, prole, pcode, pchild>>

Next ==
    \/ \E r \in Roles : StartRejected(r) \/ StartService(r) \/ StopService(r)
    \/ \E p \in Procs : \/ ProcessFinished(p)
                        \/ ProcessExits(p) \/ KillLands(p) \/ LateStart(p)
    \/ CleanupOnExit \/ Crash \/ Launch

(***************************************************************************)
(* The OS eventually reaps a killed child and the Qt event loop, which     *)
(* keeps running while the GUI is up, eventually handles a pending death *)
(* (no property below relies on the latter).                              *)
(* No fairness for user clicks, for a child exiting on its own or for a   *)
(* late start.                                                            *)
(***************************************************************************)
Fairness ==
    /\ \A p \in Procs : WF_vars(KillLands(p))
    /\ \A p \in Procs : WF_vars(ProcessFinished(p))

Spec == Init /\ [][Next]_vars /\ Fairness

-----------------------------------------------------------------------------
(***************************************************************************)
(* Properties.                                                             *)
(***************************************************************************)

TypeOK ==
    /\ gui \in {"up", "exited", "crashed"}
    /\ processes \in [Roles -> Procs \cup {NoProc}]
    /\ label \in [Roles -> Labels]
    /\ pst \in [Procs -> PStates]
    /\ prole \in [Procs -> Roles]
    /\ pcode \in [Procs -> ExitCodes \cup {KillCode}]
    /\ pchild \in [Procs -> BOOLEAN]

(***************************************************************************)
(* The registry only ever holds a process that did start, under its own   *)
(* role name, and, while the GUI runs, one whose signals the GUI receives: *)
(* a failed or timed-out launch is popped (run_command), an entry is only  *)
(* replaced by run_command, and a QProcess is never reused while it is    *)
(* registered.                                                            *)
(***************************************************************************)
RegistryConsistent ==
    \A r \in Roles : processes[r] # NoProc =>
        /\ prole[processes[r]] = r
        /\ pst[processes[r]] \in {"running", "dying", "dead", "done"}
        /\ gui = "up" => pchild[processes[r]]

(***************************************************************************)
(* After a clean exit (cleanup_on_exit ran) no process that was in the    *)
(* registry is still running unsignalled: each was terminated and either  *)
(* exited or was killed.                                                   *)
(***************************************************************************)
CleanExitStopsRegistered ==
    gui = "exited" => \A p \in Registered : pst[p] # "running"

(***************************************************************************)
(* While the GUI is up, run_command never drops or replaces a registered  *)
(* process that is still running: the old one has been terminated (done)  *)
(* or killed (dying) in the same step.                                     *)
(***************************************************************************)
ReplaceStopsOld ==
    [][gui = "up" =>
         \A r \in Roles :
            (processes[r] # NoProc /\ processes'[r] # processes[r])
               => pst'[processes[r]] \in {"done", "dying"}]_vars

-----------------------------------------------------------------------------
(***************************************************************************)
(* What spec.md promises and the code does not keep; each is checked by a *)
(* run expected to find a violation.                                      *)
(***************************************************************************)

(***************************************************************************)
(* spec.md section 5: a start for a role whose process is alive completes *)
(* that process's stop before the new one is launched, so no two live OS  *)
(* processes share a role.  run_command calls kill() and starts the new   *)
(* process without waiting for the old one to die.                        *)
(***************************************************************************)
NoOverlappingChildren ==
    \A r \in Roles :
        Cardinality({p \in Procs : pst[p] \in LiveStates /\ prole[p] = r}) <= 1

(***************************************************************************)
(* spec.md section 4: a failed launch leaves the role out of the registry *)
(* with status "Start Failed", so "Running" is only shown for a role that *)
(* has a registered process.  start_sink_service / start_source_service   *)
(* set "Running" after run_command whatever happened in it.               *)
(***************************************************************************)
RunningStatusHasProcess ==
    gui = "up" => \A r \in Roles : label[r] = "Running" => processes[r] # NoProc

(***************************************************************************)
(* spec.md section 4 (onExit): "Error" reports the role's process exiting *)
(* with a non-zero code.  It is never shown while the role's registered   *)
(* process is running; process_finished is keyed by the role name, so the *)
(* late death of a killed predecessor overwrites the current status.       *)
(***************************************************************************)
NoErrorWhileRunning ==
    gui = "up" =>
        \A r \in Roles : (processes[r] # NoProc /\ pst[processes[r]] = "running")
                            => label[r] # "Error"

(***************************************************************************)
(* spec.md sections 4 and 8: a launch timeout leaves no process behind;   *)
(* every running child of the GUI is the one registered for its role.     *)
(* run_command pops a launch that timed out without killing it.           *)
(***************************************************************************)
NoUntrackedChild ==
    gui = "up" =>
        \A p \in Procs : (pchild[p] /\ pst[p] = "running") => processes[prole[p]] = p

(***************************************************************************)
(* spec.md section 4 (shutdownAll): cleanup runs however the application  *)
(* ends, including an unhandled error in the UI layer; no registered      *)
(* process is left running.  cleanup_on_exit is an atexit hook, which     *)
(* does not run when PyQt aborts on an exception escaping a slot or the   *)
(* GUI is killed.                                                          *)
(***************************************************************************)
CleanupOnEveryExit ==
    gui # "up" => \A p \in Registered : pst[p] # "running"

(***************************************************************************)
(* spec.md section 4 (stop, onExit): a stopped or exited process has its  *)
(* registry entry removed, so the registry only holds processes that have *)
(* not been reaped.  stop_sink_service / stop_source_service and           *)
(* process_finished never remove the entry from self.processes.            *)
(***************************************************************************)
RegistryDropsFinished ==
    gui = "up" => \A p \in Registered : pst[p] # "done"

=============================================================================

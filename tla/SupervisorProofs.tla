-------------------------- MODULE SupervisorProofs --------------------------
(***************************************************************************)
(* Proofs about Supervisor, for every set of process identities and exit  *)
(* codes allowed by ConstantsAssumption.                                  *)
(***************************************************************************)
EXTENDS Supervisor, TLAPS

USE ConstantsAssumption DEF ConstantsAssumption

(***************************************************************************)
(* terminate/wait/kill never yields a state outside PStates, and applied  *)
(* to a started child it leaves it exited or being killed.               *)
(***************************************************************************)
LEMMA StoppedType ==
    ASSUME NEW s \in PStates, NEW g \in BOOLEAN
    PROVE  Stopped(s, g) \in PStates
BY DEF Stopped, PStates

LEMMA StoppedStarted ==
    ASSUME NEW s \in {"running", "dying", "dead", "done"}, NEW g \in BOOLEAN
    PROVE  Stopped(s, g) \in {"dying", "done"}
BY DEF Stopped

\* ForgetCodes keeps every exit code within the codes a child can report.
LEMMA ForgetCodesType ==
    ASSUME pcode \in [Procs -> ExitCodes \cup {KillCode}], ForgetCodes
    PROVE  pcode' \in [Procs -> ExitCodes \cup {KillCode}]
BY DEF ForgetCodes

-----------------------------------------------------------------------------
(***************************************************************************)
(* The state keeps its type: the registry maps each role to a process or  *)
(* NoProc, labels are the four UI texts, exit codes are the reported ones. *)
(***************************************************************************)
LEMMA TypeInit == Init => TypeOK
<1> SUFFICES ASSUME Init PROVE TypeOK
  OBVIOUS
<1>1. pcode \in [Procs -> ExitCodes \cup {KillCode}]
  BY DEF Init
<1>2. prole \in [Procs -> Roles]
  BY DEF Init, Roles
<1>3. QED
  BY <1>1, <1>2 DEF Init, TypeOK, PStates, Labels

LEMMA TypeStep == TypeOK /\ [Next]_vars => TypeOK'
<1> SUFFICES ASSUME TypeOK, [Next]_vars PROVE TypeOK'
  OBVIOUS
<1>1. ASSUME NEW r \in Roles, StartRejected(r) PROVE TypeOK'
  BY <1>1 DEF StartRejected, TypeOK, Labels
<1>2. ASSUME NEW r \in Roles, StartService(r) PROVE TypeOK'
  <2>1. PICK q \in FreeSlots, g \in BOOLEAN,
               o \in {"running", "failed", "starting"} :
            /\ pst' = [p \in Procs |->
                         IF p = q THEN o
                         ELSE IF p = processes[r] THEN Stopped(pst[p], g)
                         ELSE pst[p]]
            /\ prole' = [prole EXCEPT ![q] = r]
            /\ pchild' = [pchild EXCEPT ![q] = TRUE]
            /\ processes' = [processes EXCEPT ![r] = IF o = "running" THEN q ELSE NoProc]
    BY <1>2 DEF StartService
  <2>2. q \in Procs
    BY DEF FreeSlots
  <2>3. pst' \in [Procs -> PStates]
    BY <2>1, <2>2, StoppedType DEF TypeOK, PStates
  <2>4. pcode' \in [Procs -> ExitCodes \cup {KillCode}]
    BY <1>2, ForgetCodesType DEF StartService, TypeOK
  <2>5. QED
    BY <1>2, <2>1, <2>2, <2>3, <2>4 DEF StartService, TypeOK, Labels
<1>3. ASSUME NEW r \in Roles, StopService(r) PROVE TypeOK'
  <2>1. pst' \in [Procs -> PStates]
    <3>1. PICK g \in BOOLEAN :
            pst' = [pst EXCEPT ![processes[r]] = Stopped(pst[processes[r]], g)]
      BY <1>3 DEF StopService
    <3>2. processes[r] \in Procs
      BY <1>3 DEF StopService, TypeOK
    <3>3. QED
      BY <3>1, <3>2, StoppedType DEF TypeOK
  <2>2. pcode' \in [Procs -> ExitCodes \cup {KillCode}]
    BY <1>3, ForgetCodesType DEF StopService, TypeOK
  <2>3. QED
    BY <1>3, <2>1, <2>2 DEF StopService, TypeOK, Labels
<1>4. ASSUME NEW p \in Procs, ProcessFinished(p) PROVE TypeOK'
  <2>1. pcode' \in [Procs -> ExitCodes \cup {KillCode}]
    BY <1>4, ForgetCodesType DEF ProcessFinished, TypeOK
  <2>2. QED
    BY <1>4, <2>1 DEF ProcessFinished, TypeOK, Labels, PStates
<1>5. ASSUME NEW p \in Procs, ProcessExits(p) PROVE TypeOK'
  BY <1>5 DEF ProcessExits, TypeOK, PStates
<1>6. ASSUME NEW p \in Procs, KillLands(p) PROVE TypeOK'
  BY <1>6 DEF KillLands, TypeOK, PStates
<1>7. ASSUME NEW p \in Procs, LateStart(p) PROVE TypeOK'
  BY <1>7 DEF LateStart, TypeOK, PStates
<1>8. CASE CleanupOnExit
  <2>1. PICK g \in [Procs -> BOOLEAN] :
            pst' = [p \in Procs |->
                      LET s == IF p \in Registered THEN Stopped(pst[p], g[p])
                               ELSE pst[p]
                      IN  IF s = "dead" THEN "done" ELSE s]
    BY <1>8 DEF CleanupOnExit
  <2>2. pst' \in [Procs -> PStates]
    BY <2>1, StoppedType DEF TypeOK, PStates
  <2>3. pcode' \in [Procs -> ExitCodes \cup {KillCode}]
    BY <1>8, ForgetCodesType DEF CleanupOnExit, TypeOK
  <2>4. QED
    BY <1>8, <2>2, <2>3 DEF CleanupOnExit, TypeOK
<1>9. CASE Crash
  <2>1. pcode' \in [Procs -> ExitCodes \cup {KillCode}]
    BY <1>9, ForgetCodesType DEF Crash, TypeOK
  <2>2. QED
    BY <1>9, <2>1 DEF Crash, TypeOK, PStates
<1>10. CASE Launch
  BY <1>10 DEF Launch, TypeOK, Labels
<1>11. CASE UNCHANGED vars
  BY <1>11 DEF vars, TypeOK
<1>12. QED
  BY <1>1, <1>2, <1>3, <1>4, <1>5, <1>6, <1>7, <1>8, <1>9, <1>10, <1>11
  DEF Next

THEOREM TypeCorrect == Spec => []TypeOK
BY TypeInit, TypeStep, PTL DEF Spec

-----------------------------------------------------------------------------
(***************************************************************************)
(* The inductive invariant behind RegistryConsistent and                  *)
(* CleanExitStopsRegistered.  Neither holds inductively alone: the clean- *)
(* exit property needs that no registered child is merely "starting"     *)
(* (LateStart would make it running), which RegistryConsistent gives, and *)
(* RegistryConsistent needs the types of the registry and of prole.       *)
(***************************************************************************)
IInv == TypeOK /\ RegistryConsistent /\ CleanExitStopsRegistered

\* The states a registered child can be in.
Started == {"running", "dying", "dead", "done"}

LEMMA IInvInit == Init => IInv
<1> SUFFICES ASSUME Init PROVE IInv
  OBVIOUS
<1>1. RegistryConsistent /\ CleanExitStopsRegistered
  BY DEF Init, RegistryConsistent, CleanExitStopsRegistered
<1>2. QED
  BY <1>1, TypeInit DEF IInv

(***************************************************************************)
(* A step that keeps the registry, the roles and (while the GUI stays up) *)
(* the signal connections, and leaves every registered child started,     *)
(* preserves RegistryConsistent.                                          *)
(***************************************************************************)
LEMMA RegistryFrame ==
    ASSUME TypeOK, RegistryConsistent,
           processes' = processes, prole' = prole,
           gui' = "up" => (gui = "up" /\ pchild' = pchild),
           \A r \in Roles : processes[r] # NoProc => pst'[processes[r]] \in Started
    PROVE  RegistryConsistent'
BY DEF RegistryConsistent, Started

(***************************************************************************)
(* A step that keeps the registry and, if the GUI has exited after it,    *)
(* leaves a registered child running only if it already was running      *)
(* after the exit, preserves CleanExitStopsRegistered.                    *)
(***************************************************************************)
LEMMA CleanExitFrame ==
    ASSUME CleanExitStopsRegistered, processes' = processes,
           gui' = "exited" =>
              \A r \in Roles :
                 (processes[r] # NoProc /\ pst'[processes[r]] = "running")
                    => (gui = "exited" /\ pst[processes[r]] = "running")
    PROVE  CleanExitStopsRegistered'
BY DEF CleanExitStopsRegistered, Registered

LEMMA IInvStep == IInv /\ [Next]_vars => IInv'
<1> SUFFICES ASSUME TypeOK, RegistryConsistent, CleanExitStopsRegistered,
                    [Next]_vars
             PROVE  IInv'
  BY DEF IInv
<1>1. TypeOK'
  BY TypeStep
<1>2. ASSUME NEW r \in Roles, StartService(r)
      PROVE  RegistryConsistent' /\ CleanExitStopsRegistered'
  <2>1. PICK q \in FreeSlots, g \in BOOLEAN,
             o \in {"running", "failed", "starting"} :
          /\ pst' = [p \in Procs |->
                       IF p = q THEN o
                       ELSE IF p = processes[r] THEN Stopped(pst[p], g)
                       ELSE pst[p]]
          /\ prole' = [prole EXCEPT ![q] = r]
          /\ pchild' = [pchild EXCEPT ![q] = TRUE]
          /\ processes' = [processes EXCEPT ![r] = IF o = "running" THEN q ELSE NoProc]
    BY <1>2 DEF StartService
  <2>2. q \in Procs /\ \A r2 \in Roles : processes[r2] # q
    BY DEF FreeSlots, Registered
  <2>3. ASSUME NEW r2 \in Roles, processes'[r2] # NoProc
        PROVE  /\ prole'[processes'[r2]] = r2
               /\ pst'[processes'[r2]] \in Started
               /\ gui' = "up" => pchild'[processes'[r2]]
    <3>1. CASE r2 = r
      BY <2>1, <2>2, <2>3, <3>1 DEF TypeOK, Started
    <3>2. CASE r2 # r
      <4>1. processes'[r2] = processes[r2] /\ processes[r2] \in Procs
        BY <2>1, <2>3, <3>2 DEF TypeOK
      <4>2. processes[r2] # processes[r]
        BY <4>1, <3>2 DEF RegistryConsistent
      <4>3. QED
        BY <1>2, <2>1, <2>2, <4>1, <4>2 DEF StartService, RegistryConsistent, TypeOK,
           Started
    <3>3. QED
      BY <3>1, <3>2
  <2>4. QED
    BY <1>2, <2>3 DEF StartService, RegistryConsistent, CleanExitStopsRegistered, Started
<1>3. ASSUME NEW r \in Roles, StopService(r)
      PROVE  RegistryConsistent' /\ CleanExitStopsRegistered'
  <2>1. PICK g \in BOOLEAN :
          pst' = [pst EXCEPT ![processes[r]] = Stopped(pst[processes[r]], g)]
    BY <1>3 DEF StopService
  <2>2. processes[r] \in Procs /\ pst[processes[r]] \in Started
    <3>1. processes[r] # NoProc
      BY <1>3 DEF StopService
    <3>2. processes[r] \in Procs
      BY <3>1 DEF TypeOK
    <3>3. QED
      BY <3>1, <3>2 DEF RegistryConsistent, Started
  <2>3. Stopped(pst[processes[r]], g) \in Started
    BY <2>2, StoppedStarted DEF Started
  <2>4. gui = "up" /\ UNCHANGED <<gui, processes, prole, pchild>>
    BY <1>3 DEF StopService
  <2>5. \A r2 \in Roles : processes[r2] # NoProc => pst'[processes[r2]] \in Started
    BY <2>1, <2>2, <2>3 DEF TypeOK, RegistryConsistent, Started
  <2>6. QED
    BY <2>4, <2>5, RegistryFrame, CleanExitFrame
<1>4. ASSUME NEW p \in Procs, ProcessFinished(p)
      PROVE  RegistryConsistent' /\ CleanExitStopsRegistered'
  <2>1. /\ pst' = [pst EXCEPT ![p] = "done"]
        /\ gui = "up"
        /\ UNCHANGED <<gui, processes, prole, pchild>>
    BY <1>4 DEF ProcessFinished
  <2>2. \A r2 \in Roles : processes[r2] # NoProc => pst'[processes[r2]] \in Started
    BY <2>1 DEF TypeOK, RegistryConsistent, Started
  <2>3. QED
    BY <2>1, <2>2, RegistryFrame, CleanExitFrame
<1>5. ASSUME NEW p \in Procs, ProcessExits(p)
      PROVE  RegistryConsistent' /\ CleanExitStopsRegistered'
  <2>1. /\ pst[p] = "running"
        /\ pst' = [pst EXCEPT ![p] = IF pchild[p] THEN "dead" ELSE "done"]
        /\ UNCHANGED <<gui, processes, prole, pchild>>
    BY <1>5 DEF ProcessExits
  <2>2. \A r2 \in Roles : processes[r2] # NoProc =>
           /\ pst'[processes[r2]] \in Started
           /\ pst'[processes[r2]] = "running" => pst[processes[r2]] = "running"
    BY <2>1 DEF TypeOK, RegistryConsistent, Started
  <2>3. QED
    BY <2>1, <2>2, RegistryFrame, CleanExitFrame
<1>6. ASSUME NEW p \in Procs, KillLands(p)
      PROVE  RegistryConsistent' /\ CleanExitStopsRegistered'
  <2>1. /\ pst' = [pst EXCEPT ![p] = IF pchild[p] THEN "dead" ELSE "done"]
        /\ UNCHANGED <<gui, processes, prole, pchild>>
    BY <1>6 DEF KillLands
  <2>2. \A r2 \in Roles : processes[r2] # NoProc =>
           /\ pst'[processes[r2]] \in Started
           /\ pst'[processes[r2]] = "running" => pst[processes[r2]] = "running"
    BY <2>1 DEF TypeOK, RegistryConsistent, Started
  <2>3. QED
    BY <2>1, <2>2, RegistryFrame, CleanExitFrame
<1>7. ASSUME NEW p \in Procs, LateStart(p)
      PROVE  RegistryConsistent' /\ CleanExitStopsRegistered'
  <2>1. /\ pst[p] = "starting"
        /\ \E s \in {"running", "failed"} : pst' = [pst EXCEPT ![p] = s]
        /\ UNCHANGED <<gui, processes, prole, pchild>>
    BY <1>7 DEF LateStart
  <2>2. \A r2 \in Roles : processes[r2] # p
    BY <2>1 DEF RegistryConsistent
  <2>3. \A r2 \in Roles : processes[r2] # NoProc =>
           pst'[processes[r2]] = pst[processes[r2]]
    BY <2>1, <2>2 DEF TypeOK
  <2>4. QED
    BY <2>1, <2>3, RegistryFrame, CleanExitFrame DEF RegistryConsistent, Started
<1>8. ASSUME CleanupOnExit
     PROVE  RegistryConsistent' /\ CleanExitStopsRegistered'
  <2>1. PICK g \in [Procs -> BOOLEAN] :
          pst' = [p \in Procs |->
                    LET s == IF p \in Registered THEN Stopped(pst[p], g[p])
                             ELSE pst[p]
                    IN  IF s = "dead" THEN "done" ELSE s]
    BY <1>8 DEF CleanupOnExit
  <2>2. ASSUME NEW r \in Roles, processes[r] # NoProc
        PROVE  pst'[processes[r]] \in {"dying", "done"}
    <3>1. processes[r] \in Registered /\ processes[r] \in Procs
      BY <2>2 DEF Registered, TypeOK
    <3>2. Stopped(pst[processes[r]], g[processes[r]]) \in {"dying", "done"}
      BY <2>2, <3>1, StoppedStarted DEF RegistryConsistent
    <3>3. QED
      BY <2>1, <3>1, <3>2
  <2>3. gui' = "exited" /\ UNCHANGED <<processes, prole>>
    BY <1>8 DEF CleanupOnExit
  <2>4. QED
    BY <2>2, <2>3, RegistryFrame, CleanExitFrame DEF Started
<1>9. ASSUME Crash
     PROVE  RegistryConsistent' /\ CleanExitStopsRegistered'
  <2>1. /\ gui' = "crashed"
        /\ pst' = [p \in Procs |-> IF pst[p] = "dead" THEN "done" ELSE pst[p]]
        /\ UNCHANGED <<processes, prole>>
    BY <1>9 DEF Crash
  <2>2. \A r2 \in Roles : processes[r2] # NoProc => pst'[processes[r2]] \in Started
    BY <2>1 DEF TypeOK, RegistryConsistent, Started
  <2>3. QED
    BY <2>1, <2>2, RegistryFrame, CleanExitFrame
<1>10. ASSUME Launch
      PROVE  RegistryConsistent' /\ CleanExitStopsRegistered'
  <2>1. processes' = [r \in Roles |-> NoProc]
    BY <1>10 DEF Launch
  <2>2. QED
    BY <2>1 DEF RegistryConsistent, CleanExitStopsRegistered, Registered
<1>11. ASSUME NEW r \in Roles, StartRejected(r)
       PROVE  RegistryConsistent' /\ CleanExitStopsRegistered'
  <2>1. UNCHANGED <<gui, processes, pst, prole, pchild>>
    BY <1>11 DEF StartRejected
  <2>2. QED
    BY <2>1 DEF RegistryConsistent, CleanExitStopsRegistered, Registered
<1>12. ASSUME UNCHANGED vars
      PROVE  RegistryConsistent' /\ CleanExitStopsRegistered'
  <2>1. UNCHANGED <<gui, processes, pst, prole, pchild>>
    BY <1>12 DEF vars
  <2>2. QED
    BY <2>1 DEF RegistryConsistent, CleanExitStopsRegistered, Registered
<1>13. QED
  BY <1>1, <1>2, <1>3, <1>4, <1>5, <1>6, <1>7, <1>8, <1>9, <1>10, <1>11, <1>12
  DEF Next, IInv

(***************************************************************************)
(* For any number of QProcess identities and any exit codes: the registry *)
(* only holds started children under their own role, and after a clean   *)
(* exit none of them is still running unsignalled.                       *)
(***************************************************************************)
THEOREM RegistrySafety == Spec => [](RegistryConsistent /\ CleanExitStopsRegistered)
<1>1. IInv => RegistryConsistent /\ CleanExitStopsRegistered
  BY DEF IInv
<1>2. QED
  BY <1>1, IInvInit, IInvStep, PTL DEF Spec

(***************************************************************************)
(* For any process set and exit codes: once cleanup_on_exit has run at    *)
(* interpreter exit, no process still in self.processes is left running   *)
(* without having been sent terminate() and kill().                       *)
(***************************************************************************)
THEOREM CleanExitSafety == Spec => []CleanExitStopsRegistered
BY RegistrySafety, PTL

-----------------------------------------------------------------------------
\* The step ReplaceStopsOld constrains.
ReplaceStep ==
    gui = "up" =>
        \A r \in Roles :
           (processes[r] # NoProc /\ processes'[r] # processes[r])
              => pst'[processes[r]] \in {"done", "dying"}

LEMMA ReplaceStepHolds == IInv /\ [Next]_vars => [ReplaceStep]_vars
<1> SUFFICES ASSUME TypeOK, RegistryConsistent, [Next]_vars
             PROVE  [ReplaceStep]_vars
  BY DEF IInv
<1>1. ASSUME NEW r \in Roles, StartService(r) PROVE ReplaceStep
  <2>1. PICK q \in FreeSlots, g \in BOOLEAN,
             o \in {"running", "failed", "starting"} :
          /\ pst' = [p \in Procs |->
                       IF p = q THEN o
                       ELSE IF p = processes[r] THEN Stopped(pst[p], g)
                       ELSE pst[p]]
          /\ prole' = [prole EXCEPT ![q] = r]
          /\ pchild' = [pchild EXCEPT ![q] = TRUE]
          /\ processes' = [processes EXCEPT ![r] = IF o = "running" THEN q ELSE NoProc]
    BY <1>1 DEF StartService
  <2>2. \A r2 \in Roles : processes[r2] # q
    BY DEF FreeSlots, Registered
  <2>3. ASSUME NEW r2 \in Roles, processes[r2] # NoProc, processes'[r2] # processes[r2]
        PROVE  pst'[processes[r2]] \in {"done", "dying"}
    <3>1. r2 = r
      BY <2>1, <2>3 DEF TypeOK
    <3>2. processes[r] \in Procs /\ pst[processes[r]] \in Started
      BY <2>3, <3>1 DEF TypeOK, RegistryConsistent, Started
    <3>3. Stopped(pst[processes[r]], g) \in {"done", "dying"}
      BY <3>2, StoppedStarted DEF Started
    <3>4. QED
      BY <2>1, <2>2, <3>1, <3>2, <3>3
  <2>4. QED
    BY <2>3 DEF ReplaceStep
<1>2. ASSUME ~\E r \in Roles : StartService(r), gui = "up"
      PROVE  processes' = processes \/ UNCHANGED vars
  BY <1>2 DEF Next, StartRejected, StopService, ProcessFinished, ProcessExits,
     KillLands, LateStart, CleanupOnExit, Crash, Launch, vars
<1>3. QED
  BY <1>1, <1>2 DEF ReplaceStep, Next, vars

(***************************************************************************)
(* For any bounds: while the GUI runs, run_command never drops or replaces *)
(* a registered process that is still running.                            *)
(***************************************************************************)
THEOREM ReplaceStopsOldHolds == Spec => ReplaceStopsOld
<1>1. Spec => []IInv
  BY IInvInit, IInvStep, PTL DEF Spec
<1>2. QED
  BY <1>1, ReplaceStepHolds, PTL DEF Spec, ReplaceStopsOld, ReplaceStep

=============================================================================

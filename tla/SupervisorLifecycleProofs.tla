---------------------- MODULE SupervisorLifecycleProofs ----------------------
(***************************************************************************)
(* The supervisor implements RoleLifecycle under the mapping of           *)
(* SupervisorLifecycle: every initial state maps to an initial state and  *)
(* every step, from a state satisfying the inductive invariant IInv, maps *)
(* to a step of RoleLifecycle or leaves gui and the mapped entries alone. *)
(* The fairness part of ImplementsLifecycle is only checked by TLC.       *)
(***************************************************************************)
EXTENDS SupervisorProofs, SupervisorLifecycle, TLAPS

USE ConstantsAssumption DEF ConstantsAssumption

(***************************************************************************)
(* A stop of a started child (stop_*_service, the stop inside run_command, *)
(* cleanup_on_exit) moves its phase only where RoleLifecycle's Stop may.   *)
(***************************************************************************)
LEMMA PhaseStopped ==
    ASSUME NEW s \in Started, NEW g \in BOOLEAN
    PROVE  /\ Stopped(s, g) # "dead"
           /\ Phase(Stopped(s, g)) \in Lifecycle!StopOutcomes(Phase(s))
BY DEF Started, Stopped, Phase, Lifecycle!StopOutcomes

\* A step that keeps the registry and the phase of every registered child
\* keeps the mapped entries.
LEMMA EntryFrame ==
    ASSUME processes' = processes,
           \A r \in Roles : processes[r] # NoProc =>
              Phase(pst'[processes[r]]) = Phase(pst[processes[r]])
    PROVE  entryBar' = entryBar
BY DEF entryBar

\* Two roles never share a registered process.
LEMMA DistinctEntries ==
    ASSUME RegistryConsistent, NEW r1 \in Roles, NEW r2 \in Roles, r1 # r2,
           processes[r1] # NoProc
    PROVE  processes[r2] # processes[r1]
BY DEF RegistryConsistent

LEMMA RefinementInit == Init => Lifecycle!LInit
BY DEF Init, Lifecycle!LInit, entryBar

\* A step that changes only an unregistered child keeps the mapped entries.
LEMMA UnregisteredFrame ==
    ASSUME NEW p \in Procs, NEW x, processes' = processes,
           \A r \in Roles : processes[r] # p,
           pst' = [pst EXCEPT ![p] = x]
    PROVE  entryBar' = entryBar
BY DEF entryBar

\* The OS ending the child registered for r ends r's entry and no other.
LEMMA RegisteredEnds ==
    ASSUME TypeOK, RegistryConsistent, NEW p \in Procs, NEW r \in Roles,
           processes[r] = p, processes' = processes,
           pst' = [pst EXCEPT ![p] = IF pchild[p] THEN "dead" ELSE "done"]
    PROVE  entryBar' = [entryBar EXCEPT ![r] = "ended"]
<1>1. entryBar'[r] = "ended"
  BY DEF entryBar, Phase, TypeOK
<1>2. ASSUME NEW r2 \in Roles, r2 # r PROVE entryBar'[r2] = entryBar[r2]
  <2>1. processes[r2] # p
    BY <1>2, DistinctEntries
  <2>2. QED
    BY <2>1 DEF entryBar, TypeOK
<1>3. QED
  BY <1>1, <1>2 DEF entryBar

LEMMA RefinementStep ==
    IInv /\ [Next]_vars => [Lifecycle!LNext]_Lifecycle!avars
<1> SUFFICES ASSUME TypeOK, RegistryConsistent, [Next]_vars
             PROVE  [Lifecycle!LNext]_Lifecycle!avars
  BY DEF IInv
<1>0. \A r \in Roles : processes[r] # NoProc =>
         processes[r] \in Procs /\ pst[processes[r]] \in Started
  BY DEF TypeOK, RegistryConsistent, Started
<1>1. ASSUME NEW r \in Roles, StartRejected(r)
      PROVE  UNCHANGED Lifecycle!avars
  BY <1>1 DEF StartRejected, entryBar, Lifecycle!avars
<1>2. ASSUME NEW r \in Roles, StartService(r)
      PROVE  Lifecycle!Start(r)
  <2>1. PICK q \in FreeSlots, g \in BOOLEAN,
             o \in {"running", "failed", "starting"} :
          /\ pst' = [p \in Procs |->
                       IF p = q THEN o
                       ELSE IF p = processes[r] THEN Stopped(pst[p], g)
                       ELSE pst[p]]
          /\ prole' = [prole EXCEPT ![q] = r]
          /\ pchild' = [pchild EXCEPT ![q] = TRUE]
          /\ processes' = [processes EXCEPT ![r] = IF o = "running" THEN q ELSE NoProc]
    BY <1>2 DEF StartService
  <2>2. q \in Procs /\ \A r2 \in Roles : processes[r2] # q
    BY DEF FreeSlots, Registered
  <2>3. entryBar'[r] = IF o = "running" THEN "running" ELSE "none"
    BY <2>1, <2>2 DEF entryBar, Phase, TypeOK
  <2>4. ASSUME NEW r2 \in Roles, r2 # r PROVE entryBar'[r2] = entryBar[r2]
    <3>1. processes'[r2] = processes[r2]
      BY <2>1, <2>4 DEF TypeOK
    <3>2. processes[r2] # NoProc => pst'[processes[r2]] = pst[processes[r2]]
      BY <1>0, <2>1, <2>2, <2>4, DistinctEntries
    <3>3. QED
      BY <3>1, <3>2 DEF entryBar
  <2>5. entryBar' = [entryBar EXCEPT ![r] = IF o = "running" THEN "running" ELSE "none"]
    BY <2>3, <2>4 DEF entryBar
  <2>6. QED
    BY <1>2, <2>5 DEF StartService, Lifecycle!Start
<1>3. ASSUME NEW r \in Roles, StopService(r)
      PROVE  Lifecycle!Stop(r)
  <2>1. PICK g \in BOOLEAN :
          pst' = [pst EXCEPT ![processes[r]] = Stopped(pst[processes[r]], g)]
    BY <1>3 DEF StopService
  <2>2. processes[r] # NoProc /\ gui = "up" /\ UNCHANGED <<gui, processes>>
    BY <1>3 DEF StopService
  <2>3. processes[r] \in Procs /\ pst[processes[r]] \in Started
    BY <1>0, <2>2
  <2>4. entryBar[r] # "none" /\ entryBar[r] = Phase(pst[processes[r]])
    BY <2>2 DEF entryBar, Phase
  <2>5. entryBar'[r] \in Lifecycle!StopOutcomes(entryBar[r])
    <3>1. entryBar'[r] = Phase(Stopped(pst[processes[r]], g))
      BY <2>1, <2>2, <2>3 DEF entryBar, TypeOK
    <3>2. QED
      BY <3>1, <2>3, <2>4, PhaseStopped
  <2>6. ASSUME NEW r2 \in Roles, r2 # r PROVE entryBar'[r2] = entryBar[r2]
    <3>1. processes[r2] # NoProc => pst'[processes[r2]] = pst[processes[r2]]
      BY <1>0, <2>1, <2>2, <2>6, DistinctEntries
    <3>2. QED
      BY <2>2, <3>1 DEF entryBar
  <2>7. entryBar' = [entryBar EXCEPT ![r] = entryBar'[r]]
    BY <2>6 DEF entryBar
  <2>8. QED
    BY <2>2, <2>4, <2>5, <2>7 DEF Lifecycle!Stop
<1>4. ASSUME NEW p \in Procs, ProcessFinished(p)
      PROVE  UNCHANGED Lifecycle!avars
  <2>1. /\ pst[p] = "dead"
        /\ pst' = [pst EXCEPT ![p] = "done"]
        /\ UNCHANGED <<gui, processes>>
    BY <1>4 DEF ProcessFinished
  <2>2. \A r \in Roles : processes[r] # NoProc =>
           Phase(pst'[processes[r]]) = Phase(pst[processes[r]])
    BY <1>0, <2>1 DEF TypeOK, Phase
  <2>3. QED
    BY <2>1, <2>2, EntryFrame DEF Lifecycle!avars
<1>5. ASSUME NEW p \in Procs, ProcessExits(p)
      PROVE  [Lifecycle!LNext]_Lifecycle!avars
  <2>1. /\ pst[p] = "running"
        /\ pst' = [pst EXCEPT ![p] = IF pchild[p] THEN "dead" ELSE "done"]
        /\ UNCHANGED <<gui, processes>>
    BY <1>5 DEF ProcessExits
  <2>2. ASSUME NEW r \in Roles, processes[r] = p PROVE Lifecycle!Exit(r)
    <3>1. entryBar[r] = "running"
      BY <2>1, <2>2 DEF entryBar, Phase
    <3>2. QED
      BY <2>1, <2>2, <3>1, RegisteredEnds DEF Lifecycle!Exit
  <2>3. ASSUME \A r \in Roles : processes[r] # p PROVE UNCHANGED Lifecycle!avars
    BY <2>1, <2>3, UnregisteredFrame DEF Lifecycle!avars
  <2>4. QED
    BY <2>2, <2>3 DEF Lifecycle!LNext
<1>6. ASSUME NEW p \in Procs, KillLands(p)
      PROVE  [Lifecycle!LNext]_Lifecycle!avars
  <2>1. /\ pst[p] = "dying"
        /\ pst' = [pst EXCEPT ![p] = IF pchild[p] THEN "dead" ELSE "done"]
        /\ UNCHANGED <<gui, processes>>
    BY <1>6 DEF KillLands
  <2>2. ASSUME NEW r \in Roles, processes[r] = p PROVE Lifecycle!KillTakesEffect(r)
    <3>1. entryBar[r] = "killed"
      BY <2>1, <2>2 DEF entryBar, Phase
    <3>2. QED
      BY <2>1, <2>2, <3>1, RegisteredEnds DEF Lifecycle!KillTakesEffect
  <2>3. ASSUME \A r \in Roles : processes[r] # p PROVE UNCHANGED Lifecycle!avars
    BY <2>1, <2>3, UnregisteredFrame DEF Lifecycle!avars
  <2>4. QED
    BY <2>2, <2>3 DEF Lifecycle!LNext
<1>7. ASSUME NEW p \in Procs, LateStart(p)
      PROVE  UNCHANGED Lifecycle!avars
  <2>1. /\ pst[p] = "starting"
        /\ \E s \in {"running", "failed"} : pst' = [pst EXCEPT ![p] = s]
        /\ UNCHANGED <<gui, processes>>
    BY <1>7 DEF LateStart
  <2>2. \A r \in Roles : processes[r] # p
    BY <1>0, <2>1 DEF Started
  <2>3. QED
    BY <2>1, <2>2, UnregisteredFrame DEF Lifecycle!avars
<1>8. ASSUME CleanupOnExit
      PROVE  Lifecycle!ShutdownAll
  <2>1. PICK g \in [Procs -> BOOLEAN] :
          pst' = [p \in Procs |->
                    LET s == IF p \in Registered THEN Stopped(pst[p], g[p])
                             ELSE pst[p]
                    IN  IF s = "dead" THEN "done" ELSE s]
    BY <1>8 DEF CleanupOnExit
  <2>2. gui = "up" /\ gui' = "exited" /\ processes' = processes
    BY <1>8 DEF CleanupOnExit
  <2>3. ASSUME NEW r \in Roles, processes[r] # NoProc
        PROVE  entryBar'[r] \in Lifecycle!StopOutcomes(entryBar[r])
    <3>1. processes[r] \in Registered /\ processes[r] \in Procs
          /\ pst[processes[r]] \in Started
      BY <1>0, <2>3 DEF Registered
    <3>2. pst'[processes[r]] = Stopped(pst[processes[r]], g[processes[r]])
      BY <2>1, <3>1, PhaseStopped
    <3>3. QED
      BY <2>2, <2>3, <3>1, <3>2, PhaseStopped DEF entryBar
  <2>4. entryBar' \in [Roles -> Lifecycle!Phases]
    BY DEF entryBar, Phase, Lifecycle!Phases
  <2>5. \A r \in Roles :
          entryBar'[r] \in IF entryBar[r] = "none" THEN {"none"}
                           ELSE Lifecycle!StopOutcomes(entryBar[r])
    BY <2>2, <2>3 DEF entryBar, Phase
  <2>6. QED
    BY <2>2, <2>4, <2>5 DEF Lifecycle!ShutdownAll
<1>9. ASSUME Crash
      PROVE  Lifecycle!HostCrash
  <2>1. /\ gui = "up" /\ gui' = "crashed"
        /\ pst' = [p \in Procs |-> IF pst[p] = "dead" THEN "done" ELSE pst[p]]
        /\ processes' = processes
    BY <1>9 DEF Crash
  <2>2. \A r \in Roles : processes[r] # NoProc =>
           Phase(pst'[processes[r]]) = Phase(pst[processes[r]])
    BY <1>0, <2>1 DEF Phase
  <2>3. QED
    BY <2>1, <2>2, EntryFrame DEF Lifecycle!HostCrash
<1>10. ASSUME Launch
       PROVE  Lifecycle!HostStart
  BY <1>10 DEF Launch, Lifecycle!HostStart, entryBar
<1>11. ASSUME UNCHANGED vars
       PROVE  UNCHANGED Lifecycle!avars
  BY <1>11 DEF vars, entryBar, Lifecycle!avars
<1>12. QED
  BY <1>1, <1>2, <1>3, <1>4, <1>5, <1>6, <1>7, <1>8, <1>9, <1>10, <1>11
  DEF Next, Lifecycle!LNext, Lifecycle!avars

(***************************************************************************)
(* For any QProcess identities and exit codes: the registry entries of    *)
(* miraclecast-gui.py only change as RoleLifecycle allows (the safety     *)
(* part of ImplementsLifecycle).                                          *)
(***************************************************************************)
THEOREM LifecycleRefinement ==
    Spec => Lifecycle!LInit /\ [][Lifecycle!LNext]_Lifecycle!avars
<1>1. Spec => []IInv
  BY IInvInit, IInvStep, PTL DEF Spec
<1>2. QED
  BY <1>1, RefinementInit, RefinementStep, PTL DEF Spec

-----------------------------------------------------------------------------
\* The abstract theorems, read through the refinement mapping.
LP == INSTANCE RoleLifecycleProofs WITH host <- gui, entry <- entryBar

\* The abstract next-state relation under the mapping, by either instance.
LEMMA SameAbstractStep ==
    [Lifecycle!LNext]_Lifecycle!avars <=> [LP!LNext]_LP!avars
BY DEF Lifecycle!LNext, LP!LNext, Lifecycle!avars, LP!avars,
       Lifecycle!Start, LP!Start, Lifecycle!Stop, LP!Stop,
       Lifecycle!Exit, LP!Exit, Lifecycle!KillTakesEffect, LP!KillTakesEffect,
       Lifecycle!ShutdownAll, LP!ShutdownAll, Lifecycle!HostCrash, LP!HostCrash,
       Lifecycle!HostStart, LP!HostStart, Lifecycle!StopOutcomes, LP!StopOutcomes,
       Lifecycle!Phases, LP!Phases

(***************************************************************************)
(* For any bounds: after cleanup_on_exit no role's registered process is   *)
(* running.  This is CleanExitStopsRegistered again, obtained without     *)
(* looking at Supervisor's actions: from RoleLifecycle's own guarantee     *)
(* (AbstractCleanExit) and the refinement (LifecycleRefinement).           *)
(***************************************************************************)
THEOREM CleanExitThroughLifecycle ==
    Spec => [](gui = "exited" => \A r \in Roles : entryBar[r] # "running")
<1>1. Spec => LP!LSafety
  <2>1. Lifecycle!LInit <=> LP!LInit
    BY DEF Lifecycle!LInit, LP!LInit
  <2>2. QED
    BY LifecycleRefinement, <2>1, SameAbstractStep, PTL DEF LP!LSafety
<1>2. LP!NoRunningAfterExit
        <=> (gui = "exited" => \A r \in Roles : entryBar[r] # "running")
  BY DEF LP!NoRunningAfterExit
<1>3. QED
  BY <1>1, <1>2, LP!AbstractCleanExit, PTL

=============================================================================

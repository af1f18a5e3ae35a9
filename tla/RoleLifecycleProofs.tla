------------------------- MODULE RoleLifecycleProofs -------------------------
(***************************************************************************)
(* What the abstract per-role specification guarantees by itself, proved *)
(* for any set of roles.  SupervisorLifecycleProofs carries these results *)
(* over to Supervisor through the refinement mapping entryBar.            *)
(***************************************************************************)
EXTENDS RoleLifecycle, TLAPS

\* The safety part of LSpec: its initial condition and next-state relation.
LSafety == LInit /\ [][LNext]_avars

(***************************************************************************)
(* shutdownAll keeps its promise: once the host has exited normally, no   *)
(* role's process is still running (it has ended, or its kill is pending). *)
(***************************************************************************)
NoRunningAfterExit == host = "exited" => \A r \in Roles : entry[r] # "running"

\* Neither outcome of a stop is a running process.
LEMMA StopOutcomesNotRunning ==
    ASSUME NEW e
    PROVE  "running" \notin StopOutcomes(e) /\ StopOutcomes(e) \subseteq Phases
BY DEF StopOutcomes, Phases

LEMMA AbstractInvStep ==
    LTypeOK /\ NoRunningAfterExit /\ [LNext]_avars
      => LTypeOK' /\ NoRunningAfterExit'
<1> SUFFICES ASSUME LTypeOK, NoRunningAfterExit, [LNext]_avars
             PROVE  LTypeOK' /\ NoRunningAfterExit'
  OBVIOUS
<1>1. ASSUME NEW r \in Roles, Start(r) PROVE LTypeOK' /\ NoRunningAfterExit'
  BY <1>1 DEF Start, LTypeOK, NoRunningAfterExit, Phases
<1>2. ASSUME NEW r \in Roles, Stop(r) PROVE LTypeOK' /\ NoRunningAfterExit'
  <2>1. PICK e \in StopOutcomes(entry[r]) : entry' = [entry EXCEPT ![r] = e]
    BY <1>2 DEF Stop
  <2>2. e \in Phases
    BY StopOutcomesNotRunning
  <2>3. QED
    BY <1>2, <2>1, <2>2 DEF Stop, LTypeOK, NoRunningAfterExit
<1>3. ASSUME NEW r \in Roles, Exit(r) \/ KillTakesEffect(r)
      PROVE  LTypeOK' /\ NoRunningAfterExit'
  BY <1>3 DEF Exit, KillTakesEffect, LTypeOK, NoRunningAfterExit, Phases
<1>4. ASSUME ShutdownAll PROVE LTypeOK' /\ NoRunningAfterExit'
  <2>1. PICK f \in [Roles -> Phases] :
          /\ \A r \in Roles :
                f[r] \in IF entry[r] = "none" THEN {"none"} ELSE StopOutcomes(entry[r])
          /\ entry' = f
    BY <1>4 DEF ShutdownAll
  <2>2. \A r \in Roles : f[r] # "running"
    BY <2>1, StopOutcomesNotRunning
  <2>3. QED
    BY <1>4, <2>1, <2>2 DEF ShutdownAll, LTypeOK, NoRunningAfterExit
<1>5. ASSUME HostCrash \/ HostStart PROVE LTypeOK' /\ NoRunningAfterExit'
  BY <1>5 DEF HostCrash, HostStart, LTypeOK, NoRunningAfterExit, Phases
<1>6. ASSUME UNCHANGED avars PROVE LTypeOK' /\ NoRunningAfterExit'
  BY <1>6 DEF avars, LTypeOK, NoRunningAfterExit
<1>7. QED
  BY <1>1, <1>2, <1>3, <1>4, <1>5, <1>6 DEF LNext

(***************************************************************************)
(* For any set of roles: the registry entries are always well-typed, and  *)
(* after the host application has run shutdownAll none of them is running. *)
(***************************************************************************)
THEOREM AbstractCleanExit == LSafety => [](LTypeOK /\ NoRunningAfterExit)
<1>1. LInit => LTypeOK /\ NoRunningAfterExit
  BY DEF LInit, LTypeOK, NoRunningAfterExit, Phases
<1>2. QED
  BY <1>1, AbstractInvStep, PTL DEF LSafety

=============================================================================

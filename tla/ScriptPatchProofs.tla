-------------------------- MODULE ScriptPatchProofs --------------------------
(***************************************************************************)
(* Proofs about ScriptPatch, for any number of program copies, any bound   *)
(* on starts and any shipped script the patterns of                        *)
(* add_list_interfaces_option were written for.                            *)
(***************************************************************************)
EXTENDS ScriptPatch, TLAPS

USE ScriptPatchAssumption DEF ScriptPatchAssumption

(***************************************************************************)
(* The inductive invariant: the file on disk and every copy's              *)
(* updated_content are consistent scripts.  PatchAtomicOnDisk alone is    *)
(* not inductive, because WriteScript puts a copy's buffer on disk.       *)
(***************************************************************************)
IInv ==
    /\ TypeOK
    /\ Consistent(script)
    /\ \A i \in Instances : Consistent(buf[i])

\* The three replacements of lines 647-666 keep a consistent script consistent.
LEMMA PatchedConsistent ==
    ASSUME NEW c \in Content, Consistent(c)
    PROVE  Patched(c) \in Content /\ Consistent(Patched(c))
BY DEF Content, Frags, Patched, Consistent

\* The empty file left by the truncation of line 669 is consistent.
LEMMA EmptyConsistent == EmptyFile \in Content /\ Consistent(EmptyFile)
BY DEF EmptyFile, Content, Frags, Consistent

LEMMA IInvInit == Init => IInv
BY EmptyConsistent DEF Init, IInv, TypeOK, PCs, Listings, Tabs

\* Steps that leave the file and every buffer alone.
LEMMA ScriptFrame ==
    ASSUME IInv, UNCHANGED <<script, buf>>
    PROVE  Consistent(script)' /\ \A i \in Instances : Consistent(buf[i])'
BY DEF IInv, Consistent

LEMMA IInvStep == IInv /\ [Next]_vars => IInv'
<1> SUFFICES ASSUME IInv, [Next]_vars PROVE IInv'
  OBVIOUS
<1>0. TypeOK'
  <2>1. TypeOK /\ EmptyFile \in Content
    BY EmptyConsistent DEF IInv
  <2>2. Patched(script) \in Content
    BY <2>1, PatchedConsistent DEF IInv, TypeOK
  <2>3. ASSUME NEW i \in Instances, Launch(i) PROVE TypeOK'
    BY <2>1, <2>3 DEF Launch, TypeOK, PCs
  <2>4. ASSUME NEW i \in Instances, ReadScript(i) PROVE TypeOK'
    BY <2>1, <2>2, <2>4 DEF ReadScript, TypeOK, PCs
  <2>5. ASSUME NEW i \in Instances, OpenForWrite(i) PROVE TypeOK'
    BY <2>1, <2>5 DEF OpenForWrite, TypeOK, PCs
  <2>6. ASSUME NEW i \in Instances, WriteScript(i) PROVE TypeOK'
    BY <2>1, <2>6 DEF WriteScript, TypeOK, PCs
  <2>7. ASSUME NEW i \in Instances, CheckDependencies(i) PROVE TypeOK'
    BY <2>1, <2>7 DEF CheckDependencies, ListingOutcomes, TypeOK, PCs, Listings
  <2>8. ASSUME NEW i \in Instances, NEW t \in Tabs, RefreshClicked(i, t)
        PROVE  TypeOK'
    <3>1. ifaces' \in [Instances -> [Tabs -> Listings]]
      <4>1. CASE t = "source"
        <5>1. PICK l \in ListingOutcomes(script) :
                ifaces' = [ifaces EXCEPT ![i] = [ifaces[i] EXCEPT !["source"] = l]]
          BY <2>8, <4>1 DEF RefreshClicked
        <5>2. l \in Listings
          BY DEF ListingOutcomes, Listings
        <5>3. QED
          BY <2>1, <5>1, <5>2 DEF TypeOK, Tabs
      <4>2. CASE t # "source"
        BY <2>8, <4>2, <2>1 DEF RefreshClicked, TypeOK
      <4>3. QED
        BY <4>1, <4>2
    <3>2. QED
      BY <2>1, <2>8, <3>1 DEF RefreshClicked, TypeOK
  <2>9. ASSUME NEW i \in Instances, Quit(i) PROVE TypeOK'
    BY <2>1, <2>9 DEF Quit, TypeOK, PCs, Listings
  <2>10. ASSUME NEW i \in Instances, Die(i) PROVE TypeOK'
    BY <2>1, <2>10 DEF Die, TypeOK, PCs, Listings
  <2>11. ASSUME UNCHANGED vars PROVE TypeOK'
    BY <2>1, <2>11 DEF vars, TypeOK
  <2>12. QED
    BY <2>3, <2>4, <2>5, <2>6, <2>7, <2>8, <2>9, <2>10, <2>11 DEF Next
<1>1. ASSUME NEW i \in Instances, ReadScript(i) PROVE IInv'
  <2>1. Consistent(script) /\ script \in Content
    BY DEF IInv, TypeOK
  <2>2. Consistent(Patched(script))
    BY <2>1, PatchedConsistent
  <2>3. \A j \in Instances : Consistent(buf'[j])
    BY <1>1, <2>2 DEF ReadScript, IInv, TypeOK
  <2>4. QED
    BY <1>0, <1>1, <2>3 DEF ReadScript, IInv
<1>2. ASSUME NEW i \in Instances, OpenForWrite(i) PROVE IInv'
  BY <1>0, <1>2, EmptyConsistent DEF OpenForWrite, IInv
<1>3. ASSUME NEW i \in Instances, WriteScript(i) PROVE IInv'
  <2>1. Consistent(script')
    BY <1>3 DEF WriteScript, IInv
  <2>2. \A j \in Instances : Consistent(buf'[j])
    BY <1>3, EmptyConsistent DEF WriteScript, IInv, TypeOK
  <2>3. QED
    BY <1>0, <2>1, <2>2 DEF IInv
<1>4. ASSUME NEW i \in Instances, Die(i) PROVE IInv'
  <2>1. \A j \in Instances : Consistent(buf'[j])
    BY <1>4, EmptyConsistent DEF Die, IInv, TypeOK
  <2>2. QED
    BY <1>0, <1>4, <2>1 DEF Die, IInv
<1>5. ASSUME UNCHANGED <<script, buf>> PROVE IInv'
  BY <1>0, <1>5, ScriptFrame DEF IInv
<1>6. QED
  BY <1>1, <1>2, <1>3, <1>4, <1>5
  DEF Next, vars, Launch, CheckDependencies, RefreshClicked, Quit

(***************************************************************************)
(* For any number of copies started, killed or overlapping in any order,  *)
(* the script on disk never shows part of the patch: the in-memory edits  *)
(* of add_list_interfaces_option reach the file in one write.             *)
(***************************************************************************)
THEOREM PatchAtomicOnDiskHolds == Spec => []PatchAtomicOnDisk
<1>1. IInv => PatchAtomicOnDisk
  BY DEF IInv, Consistent, PatchAtomicOnDisk
<1>2. QED
  BY <1>1, IInvInit, IInvStep, PTL DEF Spec

(***************************************************************************)
(* For any number of copies and any start bound: every state the start-up *)
(* path of miraclecast-gui.py reaches is well-typed.                      *)
(***************************************************************************)
THEOREM TypeCorrect == Spec => []TypeOK
<1>1. IInv => TypeOK
  BY DEF IInv
<1>2. QED
  BY <1>1, IInvInit, IInvStep, PTL DEF Spec

-----------------------------------------------------------------------------
(***************************************************************************)
(* The script loss of the script_lost run needs two copies or a crash.     *)
(* With one copy that is never killed, the script keeps its body except   *)
(* between the truncation of line 669 and the write of line 670.          *)
(***************************************************************************)

\* The replacements of lines 647-666 never touch the rest of the script.
LEMMA PatchedBody ==
    ASSUME NEW c \in Content
    PROVE  Patched(c)["body"] = c["body"]
BY DEF Content, Frags, Patched

\* A copy that has read the script holds its body, and the file has its body
\* unless a copy is between truncating and writing it.
BodyKept ==
    /\ \A i \in Instances : pc[i] \in {"open", "write"} => buf[i]["body"] > 0
    /\ \A i \in Instances : pc[i] # "write" => script["body"] > 0

LEMMA BodyKeptStep ==
    ASSUME NEW i0, Instances = {i0}, ~CrashPossible
    PROVE  IInv /\ BodyKept /\ [Next]_vars => BodyKept'
<1> SUFFICES ASSUME IInv, BodyKept, [Next]_vars PROVE BodyKept'
  OBVIOUS
<1>1. ASSUME NEW i \in Instances, Launch(i) PROVE BodyKept'
  BY <1>1 DEF Launch, BodyKept, IInv, TypeOK
<1>2. ASSUME NEW i \in Instances, ReadScript(i) PROVE BodyKept'
  <2>1. pc[i] = "patch" /\ script["body"] > 0 /\ script \in Content
    BY <1>2 DEF ReadScript, BodyKept, IInv, TypeOK
  <2>2. Patched(script)["body"] > 0
    BY <2>1, PatchedBody
  <2>3. QED
    BY <1>2, <2>1, <2>2 DEF ReadScript, BodyKept, IInv, TypeOK
<1>3. ASSUME NEW i \in Instances, OpenForWrite(i) PROVE BodyKept'
  BY <1>3 DEF OpenForWrite, BodyKept, IInv, TypeOK
<1>4. ASSUME NEW i \in Instances, WriteScript(i) PROVE BodyKept'
  BY <1>4 DEF WriteScript, BodyKept, IInv, TypeOK
<1>5. ASSUME NEW i \in Instances, CheckDependencies(i) PROVE BodyKept'
  BY <1>5 DEF CheckDependencies, BodyKept, IInv, TypeOK
<1>6. ASSUME NEW i \in Instances, NEW t \in Tabs, RefreshClicked(i, t)
      PROVE  BodyKept'
  BY <1>6 DEF RefreshClicked, BodyKept
<1>7. ASSUME NEW i \in Instances, Quit(i) PROVE BodyKept'
  BY <1>7 DEF Quit, BodyKept, IInv, TypeOK
<1>8. ASSUME NEW i \in Instances, Die(i) PROVE FALSE
  BY <1>8 DEF Die
<1>9. ASSUME UNCHANGED vars PROVE BodyKept'
  BY <1>9 DEF vars, BodyKept
<1>10. QED
  BY <1>1, <1>2, <1>3, <1>4, <1>5, <1>6, <1>7, <1>8, <1>9 DEF Next

(***************************************************************************)
(* For any start bound and any shipped scripts that have a body: when one  *)
(* copy of the program runs at a time and is never killed,                 *)
(* add_list_interfaces_option never loses miraclecast-universal.sh.        *)
(***************************************************************************)
THEOREM SoleCopyKeepsScript ==
    ASSUME NEW i0, Instances = {i0}, ~CrashPossible,
           \A c \in Shipped : c["body"] > 0
    PROVE  Spec => []ScriptIntact
<1>1. Init => BodyKept
  BY DEF Init, BodyKept, EmptyFile
<1>2. IInv /\ BodyKept => ScriptIntact
  BY DEF BodyKept, ScriptIntact
<1>3. QED
  BY <1>1, <1>2, IInvInit, IInvStep, BodyKeptStep, PTL DEF Spec

=============================================================================

----------------------------- MODULE ScriptPatch -----------------------------
(***************************************************************************)
(* The start-up of miraclecast-gui.py as seen by the universal script it   *)
(* rewrites: the __main__ block calls add_list_interfaces_option, which    *)
(* reads miraclecast-universal.sh, applies three str.replace edits and     *)
(* writes the result back with open(path, 'w'); 100 ms after the window   *)
(* is shown, check_dependencies calls refresh_interfaces, which runs the    *)
(* script with --list-interfaces.                                          *)
(*                                                                         *)
(* Several copies of the program may be started (Instances); each starts,  *)
(* runs and quits or dies on its own.  The script text is abstracted to    *)
(* the number of occurrences of each fragment the code searches for or     *)
(* inserts; the rest of the script is the fragment "body".                 *)
(***************************************************************************)
EXTENDS Naturals

CONSTANTS
    Instances,     \* copies of the GUI program that may run
    Shipped,       \* the possible contents of the script before any launch
    MaxLaunches,   \* bound on the number of program starts
    CrashPossible  \* whether a copy may die part way (signal, power loss)

(***************************************************************************)
(* The fragments of the script the code looks at.                          *)
(*   getopts_old  while getopts "i:m:r:f:b:ugnsh" opt; do     (line 648)   *)
(*   getopts_new  while getopts "i:m:r:f:b:ugnslh" opt; do    (line 649)   *)
(*   case_h       the h) case of that getopts loop            (line 654)   *)
(*   case_l       the inserted l) case                        (656-658)    *)
(*   help_h       the help line of -h                         (line 663)   *)
(*   help_l       the inserted help line of -l                (line 665)   *)
(*   long_opt     the text --list-interfaces                  (line 643)   *)
(*   body         everything else that makes the script work               *)
(***************************************************************************)
Frags == {"getopts_old", "getopts_new", "case_h", "case_l",
          "help_h", "help_l", "long_opt", "body"}

Content == [Frags -> Nat]

EmptyFile == [f \in Frags |-> 0]

(***************************************************************************)
(* A script the patterns of lines 648-665 were written for: every h) case  *)
(* has its -h help line and sits in a getopts loop, and any l) case        *)
(* already there came with its help line and a getopts line accepting l.  *)
(***************************************************************************)
Consistent(c) ==
    /\ c["case_l"] = c["help_l"]
    /\ c["case_h"] = c["help_h"]
    /\ c["case_l"] > 0 => c["getopts_new"] > 0
    /\ c["case_h"] > 0 => c["getopts_old"] + c["getopts_new"] > 0

ASSUME ScriptPatchAssumption ==
    /\ Shipped \subseteq Content
    /\ \A c \in Shipped : Consistent(c)
    /\ MaxLaunches \in Nat
    /\ CrashPossible \in BOOLEAN

VARIABLES
    script,    \* the contents of miraclecast-universal.sh on disk
    pc,        \* where each copy of the program is
    buf,       \* updated_content of a copy between reading and writing
    ifaces,    \* what each interface combo box of a running copy lists
    launches,  \* number of program starts so far
    refreshed  \* history: the tabs whose Refresh button a running copy clicked

vars == <<script, pc, buf, ifaces, launches, refreshed>>

PCs == {"off", "patch", "open", "write", "ui", "up"}

Tabs == {"sink", "source"}   \* iface_combo, source_iface_combo

(***************************************************************************)
(* What the interface listing can produce:                                 *)
(*   none      not refreshed yet, or dependencies missing                  *)
(*   wireless  the script listed the wireless interfaces                   *)
(*   all       the script failed; ip link lists every interface            *)
(*   garbage   the script exited 0 with other output (its help text)       *)
(*   blank     the script is empty, so sh runs nothing, exits 0 and the    *)
(*             combo gets one empty item                                   *)
(***************************************************************************)
Listings == {"none", "wireless", "all", "garbage", "blank"}

(***************************************************************************)
(* Mutant: the getopts pattern does not match the script (a typo in the   *)
(* literal of line 648), so that edit silently does nothing.              *)
(***************************************************************************)
PatchedNoGetopts(c) ==
    [c EXCEPT !["case_l"] = @ + c["case_h"],
              !["help_l"] = @ + c["help_h"]]

(***************************************************************************)
(* add_list_interfaces_option, lines 646-666: the three replacements.      *)
(* str.replace rewrites every occurrence; the getopts pattern disappears   *)
(* when it is rewritten, the h) case and the -h help line stay and get one *)
(* inserted copy each.                                                     *)
(***************************************************************************)
Patched(c) ==
    [c EXCEPT !["getopts_old"] = 0,
              !["getopts_new"] = @ + c["getopts_old"],
              !["case_l"]      = @ + c["case_h"],
              !["help_l"]      = @ + c["help_h"]]

(***************************************************************************)
(* line 643: the test that is meant to make the patch happen once.         *)
(***************************************************************************)
HasListOption(c) == c["long_opt"] > 0

(***************************************************************************)
(* refresh_interfaces, lines 370-389: what `script --list-interfaces`      *)
(* leads to.  An empty script exits 0 with empty output; a script that     *)
(* handles the long option lists the wireless interfaces; otherwise        *)
(* getopts rejects "--list-interfaces" and the script either fails (the    *)
(* ip link fallback) or prints its help and exits 0.                       *)
(***************************************************************************)
ListingOutcomes(c) ==
    IF c["body"] = 0 THEN {"blank"}
    ELSE IF HasListOption(c) THEN {"wireless"}
    ELSE {"all", "garbage"}

TypeOK ==
    /\ script \in Content
    /\ pc \in [Instances -> PCs]
    /\ buf \in [Instances -> Content]
    /\ ifaces \in [Instances -> [Tabs -> Listings]]
    /\ launches \in 0..MaxLaunches
    /\ refreshed \in [Instances -> SUBSET Tabs]

Init ==
    /\ script \in Shipped
    /\ pc = [i \in Instances |-> "off"]
    /\ buf = [i \in Instances |-> EmptyFile]
    /\ ifaces = [i \in Instances |-> [t \in Tabs |-> "none"]]
    /\ launches = 0
    /\ refreshed = [i \in Instances |-> {}]

(***************************************************************************)
(* A copy of the program is started (as root; the euid check of lines      *)
(* 676-679 exits before anything else happens).                            *)
(***************************************************************************)
Launch(i) ==
    /\ pc[i] = "off"
    /\ launches < MaxLaunches
    /\ pc' = [pc EXCEPT ![i] = "patch"]
    /\ launches' = launches + 1
    /\ UNCHANGED <<script, buf, ifaces, refreshed>>

(***************************************************************************)
(* lines 641-666: read the script; return if it already mentions           *)
(* --list-interfaces, otherwise compute updated_content.                   *)
(***************************************************************************)
ReadScript(i) ==
    /\ pc[i] = "patch"
    /\ IF HasListOption(script)
         THEN /\ pc' = [pc EXCEPT ![i] = "ui"]
              /\ UNCHANGED buf
         ELSE /\ pc' = [pc EXCEPT ![i] = "open"]
              /\ buf' = [buf EXCEPT ![i] = Patched(script)]
    /\ UNCHANGED <<script, ifaces, launches, refreshed>>

(***************************************************************************)
(* line 669: open(script_path, 'w') truncates the file.                    *)
(***************************************************************************)
OpenForWrite(i) ==
    /\ pc[i] = "open"
    /\ script' = EmptyFile
    /\ pc' = [pc EXCEPT ![i] = "write"]
    /\ UNCHANGED <<buf, ifaces, launches, refreshed>>

(***************************************************************************)
(* line 670: f.write(updated_content), flushed when the with block closes. *)
(***************************************************************************)
WriteScript(i) ==
    /\ pc[i] = "write"
    /\ script' = buf[i]
    /\ pc' = [pc EXCEPT ![i] = "ui"]
    /\ buf' = [buf EXCEPT ![i] = EmptyFile]
    /\ UNCHANGED <<ifaces, launches, refreshed>>

(***************************************************************************)
(* check_dependencies (lines 345-362) then refresh_interfaces: when a      *)
(* miracle-* program is missing the combos stay empty; otherwise they get  *)
(* what the script's listing leads to.                                     *)
(***************************************************************************)
CheckDependencies(i) ==
    /\ pc[i] = "ui"
    /\ \E found \in BOOLEAN :
         \E l \in ListingOutcomes(script) :
            ifaces' = [ifaces EXCEPT ![i] =
                         [t \in Tabs |-> IF found THEN l ELSE "none"]]
    /\ pc' = [pc EXCEPT ![i] = "up"]
    /\ UNCHANGED <<script, buf, launches, refreshed>>

(***************************************************************************)
(* A Refresh button of a running copy.  The source tab's button (line 179) *)
(* passes its combo and reloads it.  The sink tab's button (line 100) is   *)
(* connected to refresh_interfaces directly, so PyQt passes clicked's      *)
(* checked = False as combo: targets is [False], False.clear() raises      *)
(* AttributeError after the script has run, and the handler at line 390   *)
(* only logs it.                                                           *)
(***************************************************************************)
RefreshClicked(i, t) ==
    /\ pc[i] = "up"
    /\ IF t = "source"
         THEN \E l \in ListingOutcomes(script) :
                 ifaces' = [ifaces EXCEPT ![i]["source"] = l]
         ELSE UNCHANGED ifaces
    /\ refreshed' = [refreshed EXCEPT ![i] = @ \cup {t}]
    /\ UNCHANGED <<script, pc, buf, launches>>

(***************************************************************************)
(* The user closes the window.                                             *)
(***************************************************************************)
Quit(i) ==
    /\ pc[i] = "up"
    /\ pc' = [pc EXCEPT ![i] = "off"]
    /\ ifaces' = [ifaces EXCEPT ![i] = [t \in Tabs |-> "none"]]
    /\ refreshed' = [refreshed EXCEPT ![i] = {}]
    /\ UNCHANGED <<script, buf, launches>>

(***************************************************************************)
(* The copy dies wherever it is; a half-done write stays as it is.         *)
(***************************************************************************)
Die(i) ==
    /\ CrashPossible
    /\ pc[i] # "off"
    /\ pc' = [pc EXCEPT ![i] = "off"]
    /\ buf' = [buf EXCEPT ![i] = EmptyFile]
    /\ ifaces' = [ifaces EXCEPT ![i] = [t \in Tabs |-> "none"]]
    /\ refreshed' = [refreshed EXCEPT ![i] = {}]
    /\ UNCHANGED <<script, launches>>

Next ==
    \E i \in Instances :
        \/ Launch(i)
        \/ ReadScript(i)
        \/ OpenForWrite(i)
        \/ WriteScript(i)
        \/ CheckDependencies(i)
        \/ \E t \in Tabs : RefreshClicked(i, t)
        \/ Quit(i)
        \/ Die(i)

Spec == Init /\ [][Next]_vars

-----------------------------------------------------------------------------

(***************************************************************************)
(* Whenever no copy is between truncating and writing the script, the      *)
(* script still has its body: add_list_interfaces_option only adds to the  *)
(* script it read, so a launch never loses what was there.                 *)
(***************************************************************************)
ScriptIntact ==
    (\A i \in Instances : pc[i] # "write") => script["body"] > 0

(***************************************************************************)
(* The script on disk never shows part of the patch: an inserted l) case   *)
(* always comes with its -l help line and a getopts line that accepts l.   *)
(* The three edits of lines 647-666 are made in memory and reach the disk  *)
(* in the one write of line 670, so this holds through crashes and        *)
(* overlapping launches, provided the getopts pattern of line 648 matches *)
(* the script.                                                             *)
(***************************************************************************)
PatchAtomicOnDisk ==
    /\ script["case_l"] = script["help_l"]
    /\ script["case_l"] > 0 => script["getopts_new"] > 0

(***************************************************************************)
(* The comment at line 640 ("Check if the option already exists") and the  *)
(* early return at 644: the l) case is inserted once, however often the    *)
(* program is started.                                                     *)
(***************************************************************************)
PatchAppliedOnce ==
    script["case_l"] <= 1

(***************************************************************************)
(* The Refresh buttons (lines 100 and 179): once a tab's Refresh button   *)
(* has been clicked, that tab's interface combo has been filled from the  *)
(* listing, even when the dependency check at start-up found a miracle-*  *)
(* program missing and left it empty.                                     *)
(***************************************************************************)
RefreshFills ==
    \A i \in Instances : \A t \in refreshed[i] : ifaces[i][t] # "none"

=============================================================================

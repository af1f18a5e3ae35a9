---------------------------- MODULE MCScriptPatch ----------------------------
EXTENDS ScriptPatch, TLC

CONSTANTS i1, i2

MCInstances1 == {i1}
MCInstances2 == {i1, i2}

(***************************************************************************)
(* Scripts as they may be shipped: the expected one (the getopts line,    *)
(* the h) case and the -h help line once each), and one that already       *)
(* handles --list-interfaces.                                              *)
(***************************************************************************)
MCStock == [f \in Frags |-> IF f \in {"getopts_old", "case_h", "help_h", "body"}
                              THEN 1 ELSE 0]
MCShipped == {MCStock, [MCStock EXCEPT !["long_opt"] = 1]}
MCStockOnly == {MCStock}

MCSymmetry == Permutations(MCInstances2)
=============================================================================

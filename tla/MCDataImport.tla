---------------------------- MODULE MCDataImport ----------------------------
(***************************************************************************)
(* Small instances of DataImport.  The grouping is checked on every file   *)
(* of up to four rows of eight kinds, the life of a batch on a few of them *)
(* (Explored): an empty file, files of one record, of several, of several  *)
(* rows in a record, of two types, with a row that has no type, and with   *)
(* an element that is left and resumed.                                    *)
(***************************************************************************)
EXTENDS DataImport, TLC

CONSTANTS b1, b2, h1, h2

MCBatches == {b1, b2}
MCHandlers == {h1, h2}

MCNames == {"UPV", "GPR", "OTHER", ""}
MCTypes == {"UPV", "GPR"}
MCGrouped == {"UPV"}
MCElements == {"beam", "column"}

Upv(e) == [type |-> "UPV", complete |-> {"UPV"}, element |-> e]
Gpr == [type |-> "GPR", complete |-> {"GPR"}, element |-> "beam"]
Partial == [type |-> "UPV", complete |-> {}, element |-> "beam"]
Untyped == [type |-> "", complete |-> {}, element |-> "beam"]
Both == [type |-> "GPR", complete |-> {"UPV", "GPR"}, element |-> "column"]

Other == [type |-> "OTHER", complete |-> {"UPV"}, element |-> "beam"]
Slab == [type |-> "UPV", complete |-> {"UPV", "GPR"}, element |-> "beam"]

Kinds == {Upv("beam"), Upv("column"), Gpr, Partial, Untyped, Both, Slab, Other}
MCFiles == UNION {[1..n -> Kinds] : n \in 0..4}

FewFiles ==
    {<<>>, <<Upv("beam"), Upv("column")>>, <<Upv("beam"), Upv("beam"), Gpr>>,
     <<Upv("beam"), Untyped>>, <<Gpr, Both>>, <<Slab, Both>>,
     <<Upv("beam"), Gpr, Upv("beam")>>, <<Other>>}

Explored == starts > 0 => file \in FewFiles

Alike == Permutations(MCBatches) \cup Permutations(MCHandlers)
=============================================================================

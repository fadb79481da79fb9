-------------------------- MODULE MCFindingReview --------------------------
(***************************************************************************)
(* A small instance of FindingReview: two findings, because a decided one  *)
(* is followed by a new one, and two handlers.                             *)
(***************************************************************************)
EXTENDS FindingReview, TLC

CONSTANTS f1, f2, h1, h2

MCFindings == {f1, f2}
MCHandlers == {h1, h2}

Alike == Permutations(MCFindings) \cup Permutations(MCHandlers)
=============================================================================
